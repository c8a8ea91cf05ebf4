------------------------- MODULE CapabilitiesProofs -------------------------
(***************************************************************************)
(* Proofs about five of the parts that CapabilitiesMC runs side by side:    *)
(* the walk of grantMutations implements the closed-form rule, the network  *)
(* capture of a tab agrees with Chrome's session whatever the order of its  *)
(* turns, a recording that has stopped holds nothing and leaves a journal   *)
(* that can be replayed, input through the debugger lets go of what it      *)
(* pressed, and the cleanup of a tab leaves none of its patches.            *)
(***************************************************************************)
EXTENDS GrantScan, PageRecording, NetworkCapture, NativeInput, PagePatches, FiniteSetTheorems,
        SequenceTheorems, TLAPS

-----------------------------------------------------------------------------
(* The grant pass (grantMutations), for every queue, every assignment of     *)
(* tabs and every combination of flags.                                       *)

\* The rule at the start of the pass: entry k may run, k is the first such
\* entry for its tab, k is still being prepared.
May(k) == Eligible(queue, ready, before, canceled, live, tab, k)

First(k) ==
    /\ May(k)
    /\ \A j \in 1..(k - 1) : May(j) => tab[queue[j]] # tab[queue[k]]

Preparing(k) == queue[k] \notin ready \cup before \cup canceled

InputsOK ==
    /\ queue \in Seq(Entry)
    /\ ready \subseteq ToSet(queue) /\ before \subseteq ready /\ canceled \subseteq before
    /\ tab \in [ToSet(queue) -> Tab \cup {NoTab}]
    /\ \A e \in ready : tab[e] \in Tab

\* What the walk knows when it has passed the entries before position at.
WalkInv ==
    /\ \A b \in Tab : b \in canceling <=> Held(queue, before \cap canceled, tab, b)
    /\ \A b \in Tab : b \in busy <=>
          \/ Held(queue, before \ canceled, tab, b)
          \/ \E k \in 1..(at - 1) : tab[queue[k]] = b /\ (Preparing(k) \/ First(k))
    /\ granted = before \cup {queue[k] : k \in {j \in 1..(at - 1) : First(j)}}
    /\ \A k \in 1..(at - 1) : Preparing(k) => tab[queue[k]] # NoTab
    \* no well-foundedness is needed to find the first of several candidates
    /\ \A k \in 1..(at - 1) : May(k) =>
          \E j \in 1..k : First(j) /\ tab[queue[j]] = tab[queue[k]]

IInv ==
    /\ TypeOK
    /\ InputsOK
    /\ pc = "mark" => granted = before /\ at = 1
    /\ pc = "walk" => WalkInv
    /\ ScanGrantsTheRule

\* The entry at the head of the walk runs exactly if the rule names it.
LEMMA HeadDecision ==
    ASSUME IInv, Walking
    PROVE  First(at) <=> /\ Here \in (ready \cap live) \ (granted \cup canceled)
                         /\ ~MustWait
<1> USE DEF IInv, TypeOK, InputsOK, Walking, Here
<1>1. at \in 1..Len(queue) /\ WalkInv /\ Here \in ToSet(queue)
  BY DEF ToSet
<1>2. SUFFICES ASSUME Here \in (ready \cap live) \ (before \cup canceled)
               PROVE  First(at) <=> Here \notin granted /\ ~MustWait
  BY <1>1 DEF First, May, Eligible, WalkInv
<1>3. tab[Here] \in Tab
  BY <1>2
<1>4. ASSUME First(at) PROVE Here \notin granted /\ ~MustWait
  <2>1. Here \notin granted
    BY <1>1, <1>2, <1>4 DEF WalkInv, First
  <2>2. ~Held(queue, before \ canceled, tab, tab[Here])
    BY <1>4 DEF First, May, Eligible
  <2>3. ASSUME NEW k \in 1..(at - 1), tab[queue[k]] = tab[Here]
        PROVE  ~Preparing(k) /\ ~First(k)
    BY <1>1, <1>4, <2>3 DEF First, May, Eligible, Preparing
  <2>4. tab[Here] \notin busy
    BY <1>1, <1>3, <2>2, <2>3 DEF WalkInv
  <2>5. tab[Here] \in canceling => Preempts(Here)
    BY <1>1, <1>3, <1>4 DEF WalkInv, First, May, Eligible
  <2> QED
    BY <2>1, <2>4, <2>5 DEF MustWait
<1>5. ASSUME Here \notin granted, ~MustWait PROVE First(at)
  <2>1. ~Held(queue, before \ canceled, tab, tab[Here])
    BY <1>1, <1>3, <1>5 DEF WalkInv, MustWait
  <2>2. Held(queue, before \cap canceled, tab, tab[Here]) => Preempts(Here)
    BY <1>1, <1>3, <1>5 DEF WalkInv, MustWait
  <2>3. ASSUME NEW k \in 1..(at - 1)
        PROVE  ~Preparing(k) \/ tab[queue[k]] \notin {NoTab, tab[Here]}
    BY <1>1, <1>3, <1>5 DEF WalkInv, MustWait
  <2>4. May(at)
    BY <1>2, <2>1, <2>2, <2>3 DEF May, Eligible, Preparing
  <2>5. ASSUME NEW j \in 1..(at - 1), May(j), tab[queue[j]] = tab[Here]
        PROVE  FALSE
    <3>1. PICK i \in 1..j : First(i) /\ tab[queue[i]] = tab[queue[j]]
      BY <1>1, <2>5 DEF WalkInv
    <3>2. i \in 1..(at - 1)
      BY <1>1
    <3> QED
      BY <1>1, <1>3, <1>5, <2>5, <3>1, <3>2 DEF WalkInv, MustWait
  <2> QED
    BY <1>1, <2>4, <2>5 DEF First
<1> QED
  BY <1>4, <1>5

-----------------------------------------------------------------------------
LEMMA ScanInit == Init => IInv
<1> SUFFICES ASSUME Init PROVE IInv
  OBVIOUS
<1> USE DEF Init
<1>1. queue \in Seq(Entry)
  BY GrantScanAssumption
<1>2. TypeOK
  BY <1>1 DEF TypeOK
<1>3. InputsOK
  BY <1>1 DEF InputsOK
<1> QED
  BY <1>2, <1>3 DEF IInv, ScanGrantsTheRule

\* The pass over the granted entries establishes what the walk relies on.
LEMMA MarkStep == ASSUME IInv, MarkHolders PROVE IInv'
<1> USE DEF MarkHolders, inputs
<1>1. TypeOK' /\ InputsOK'
  BY DEF IInv, TypeOK, InputsOK
<1>2. granted = before /\ at = 1
  BY DEF IInv
<1>3. ASSUME NEW b \in Tab
      PROVE  /\ b \in canceling' <=> Held(queue, before \cap canceled, tab, b)
             /\ b \in busy' <=> Held(queue, before \ canceled, tab, b)
  BY <1>2 DEF IInv, InputsOK, Held, ToSet
<1>4. 1..(at' - 1) = {}
  BY <1>2
<1>5. WalkInv'
  BY <1>2, <1>3, <1>4 DEF WalkInv, Held
<1> QED
  BY <1>1, <1>5 DEF IInv, ScanGrantsTheRule

\* One entry further: the conjuncts of WalkInv that speak of positions.
LEMMA AdvanceStep ==
    ASSUME IInv, Walking, Advance,
           granted' = IF First(at) THEN granted \cup {Here} ELSE granted,
           busy' = IF First(at) \/ Preparing(at) THEN busy \cup {tab[Here]} ELSE busy,
           Preparing(at) => tab[Here] # NoTab
    PROVE  IInv'
<1> USE DEF Advance, inputs, Walking, Here
<1>1. at \in 1..Len(queue) /\ WalkInv /\ Here \in ToSet(queue)
  BY DEF IInv, TypeOK, ToSet
<1>2. InputsOK'
  BY DEF IInv, InputsOK
<1>3. First(at) \/ Preparing(at) => tab[Here] \in Tab
  BY <1>1 DEF IInv, InputsOK, First, May, Eligible
<1>4. TypeOK'
  BY <1>1, <1>3 DEF IInv, TypeOK
<1>5. \A k : k \in 1..(at' - 1) <=> k \in 1..(at - 1) \/ k = at
  BY <1>1 DEF IInv, TypeOK
<1>6. \A k : May(k)' = May(k) /\ First(k)' = First(k) /\ Preparing(k)' = Preparing(k)
  BY DEF May, First, Preparing
<1>7. WalkInv'
  <2>1. \A b \in Tab : b \in canceling' <=> Held(queue, before \cap canceled, tab, b)'
    BY <1>1 DEF WalkInv
  <2>2. \A b \in Tab : (b \in busy <=>
          \/ Held(queue, before \ canceled, tab, b)
          \/ \E k \in 1..(at - 1) : tab[queue[k]] = b /\ (Preparing(k) \/ First(k)))'
    BY <1>1, <1>5, <1>6 DEF WalkInv
  <2>3. (granted = before \cup {queue[k] : k \in {j \in 1..(at - 1) : First(j)}})'
    BY <1>1, <1>5, <1>6 DEF WalkInv
  <2>4. (\A k \in 1..(at - 1) : Preparing(k) => tab[queue[k]] # NoTab)'
    BY <1>1, <1>5, <1>6 DEF WalkInv
  <2>5. (\A k \in 1..(at - 1) : May(k) =>
          \E j \in 1..k : First(j) /\ tab[queue[j]] = tab[queue[k]])'
    <3> SUFFICES ASSUME NEW k \in 1..(at' - 1), May(k)
                 PROVE  \E j \in 1..k : First(j) /\ tab[queue[j]] = tab[queue[k]]
      BY <1>6
    <3>1. CASE k \in 1..(at - 1)
      BY <1>1, <3>1 DEF WalkInv
    <3>2. CASE k = at /\ First(at)
      BY <1>1, <3>2
    <3>3. CASE k = at /\ ~First(at)
      <4>1. PICK i \in 1..(at - 1) : May(i) /\ tab[queue[i]] = tab[queue[k]]
        BY <3>3 DEF First
      <4>2. PICK j \in 1..i : First(j) /\ tab[queue[j]] = tab[queue[i]]
        BY <1>1, <4>1 DEF WalkInv
      <4> QED
        BY <1>1, <3>3, <4>1, <4>2
    <3> QED
      BY <1>5, <3>1, <3>2, <3>3
  <2> QED
    BY <2>1, <2>2, <2>3, <2>4, <2>5 DEF WalkInv
<1> QED
  BY <1>2, <1>4, <1>7 DEF IInv, ScanGrantsTheRule

\* When no later entry can run, the walk has granted the whole rule.
LEMMA FinishStep ==
    ASSUME IInv, pc = "walk", pc' = "done",
           UNCHANGED <<inputs, granted, busy, canceling, at>>,
           \A k \in 1..Len(queue) : k >= at => ~May(k)
    PROVE  IInv'
<1> USE DEF inputs
<1>1. TypeOK' /\ InputsOK'
  BY DEF IInv, TypeOK, InputsOK
<1>2. at \in 1..(Len(queue) + 1) /\ Len(queue) \in Nat /\ WalkInv
  BY DEF IInv, TypeOK
<1>3. {queue[k] : k \in {j \in 1..(at - 1) : First(j)}}
        = {queue[k] : k \in {j \in 1..Len(queue) : First(j)}}
  BY <1>2 DEF First
<1>4. Grants(queue, ready, before, canceled, live, tab)
        = {queue[k] : k \in {j \in 1..Len(queue) : First(j)}}
  BY DEF Grants, First, May
<1>5. granted = before \cup Grants(queue, ready, before, canceled, live, tab)
  BY <1>2, <1>3, <1>4 DEF WalkInv
<1> QED
  BY <1>1, <1>5 DEF IInv, ScanGrantsTheRule

LEMMA ScanNext == IInv /\ [Next]_vars => IInv'
<1> SUFFICES ASSUME IInv, [Next]_vars PROVE IInv'
  OBVIOUS
<1>1. CASE MarkHolders
  BY <1>1, MarkStep
<1>2. CASE SkipGranted
  <2>1. ~First(at)
    BY <1>2, HeadDecision DEF SkipGranted
  <2>2. ~Preparing(at)
    BY <1>2 DEF SkipGranted, Preparing, IInv, WalkInv, First, May, Eligible, Here, Walking
  <2> QED
    BY <1>2, <2>1, <2>2, AdvanceStep DEF SkipGranted
<1>3. CASE Reserve
  <2>1. ~First(at)
    BY <1>3, HeadDecision DEF Reserve
  <2>2. Preparing(at)
    BY <1>3 DEF Reserve, Preparing, IInv, WalkInv, Here, Walking
  <2> QED
    BY <1>3, <2>1, <2>2, AdvanceStep DEF Reserve
<1>4. CASE PassOver
  <2>1. ~First(at)
    BY <1>4, HeadDecision DEF PassOver
  <2>2. ~Preparing(at)
    BY <1>4 DEF PassOver, Preparing, Here
  <2> QED
    BY <1>4, <2>1, <2>2, AdvanceStep DEF PassOver
<1>5. CASE GrantHere
  <2>1. First(at)
    BY <1>5, HeadDecision DEF GrantHere
  <2>2. ~Preparing(at)
    BY <1>5 DEF GrantHere, Preparing, Here
  <2> QED
    BY <1>5, <2>1, <2>2, AdvanceStep DEF GrantHere
<1>6. CASE StopAtUnknown
  <2>1. \A k \in 1..Len(queue) : k >= at => ~May(k)
    <3>1. at \in 1..Len(queue) /\ queue[at] \notin ready \cup before \cup canceled
              /\ tab[queue[at]] = NoTab
      BY <1>6 DEF StopAtUnknown, Walking, Here, IInv, TypeOK, WalkInv
    <3> SUFFICES ASSUME NEW k \in 1..Len(queue), k >= at, May(k) PROVE FALSE
      OBVIOUS
    <3>2. CASE k = at
      BY <3>1, <3>2 DEF May, Eligible
    <3>3. CASE k # at
      <4>1. at \in 1..(k - 1)
        BY <3>1, <3>3
      <4> QED
        BY <3>1, <4>1 DEF May, Eligible
    <3> QED
      BY <3>2, <3>3
  <2> QED
    BY <1>6, <2>1, FinishStep DEF StopAtUnknown, Walking
<1>7. CASE EndOfQueue
  <2>1. \A k \in 1..Len(queue) : k >= at => ~May(k)
    BY <1>7 DEF EndOfQueue, IInv, TypeOK
  <2> QED
    BY <1>7, <2>1, FinishStep DEF EndOfQueue
<1>8. CASE UNCHANGED vars
  <2>1. TypeOK' /\ InputsOK' /\ ScanGrantsTheRule'
    BY <1>8 DEF vars, IInv, TypeOK, InputsOK, ScanGrantsTheRule
  <2>2. WalkInv' = WalkInv
    BY <1>8 DEF vars, WalkInv, First, May, Preparing
  <2> QED
    BY <1>8, <2>1, <2>2 DEF vars, IInv
<1> QED
  BY <1>1, <1>2, <1>3, <1>4, <1>5, <1>6, <1>7, <1>8 DEF Next

\* For every queue the loop of grantMutations grants, when it ends, exactly
\* the turns GrantRule names, so the handlers of MutationScheduler may use
\* the rule in place of the loop.
THEOREM ScanCorrect == Spec => []ScanGrantsTheRule
<1>1. IInv => ScanGrantsTheRule
  BY DEF IInv
<1> QED
  BY ScanInit, ScanNext, <1>1, PTL DEF Spec

-----------------------------------------------------------------------------
(* The network capture of one tab (background-cdp-network.ts): its calls take *)
(* turns, Chrome may lose the session at any time, the page goes on loading.  *)

Captures == [has : BOOLEAN, armed : BOOLEAN, enabled : BOOLEAN, timer : BOOLEAN,
             entries : Nat, inflight : Nat, dropped : Nat, abandoned : Nat]
Turns == [kind : {"start", "clear", "read", "stop", "lost"},
          at : {"wait", "acquire", "enable", "undo", "reenable", "disable", "release"},
          stopped : BOOLEAN, lost : BOOLEAN]

CaptureTypeOK ==
    /\ cap \in Captures /\ turns \in Seq(Turns)
    /\ chromeSide \in [held : BOOLEAN, enabled : BOOLEAN]
    /\ told \in [last : {"none", "start", "stop"}, lost : BOOLEAN]
    /\ seen \in Nat /\ troubles \in Nat

\* Only the first turn is under way, and where it is says what the capture is.
TurnsOrdered ==
    /\ \A n \in DOMAIN turns : n > 1 \/ turns[n].kind \notin {"start", "stop"} => turns[n].at = "wait"
    /\ turns # <<>> =>
         /\ turns[1].at \in {"acquire", "enable", "undo"} =>
              turns[1].kind = "start" /\ ~cap.has
         /\ turns[1].at = "reenable" => turns[1].kind = "start" /\ cap.has /\ ~cap.enabled
         /\ turns[1].at = "disable" => cap.enabled
         /\ turns[1].at = "release" => cap.has /\ ~cap.enabled

\* A lost session that the queue has not taken note of yet.
LostQueued == \E n \in DOMAIN turns : turns[n].kind = "lost"

\* What the history knows of losses.
LossesTold ==
    /\ told.lost => troubles > 0
    /\ \A n \in DOMAIN turns : turns[n].lost \/ turns[n].kind = "lost" => told.lost

\* An enabled capture is fed, unless its loss is on its way.
CapturesHear ==
    /\ (cap.armed <=> cap.enabled) /\ (cap.enabled => cap.has)
    /\ cap.enabled => (chromeSide.enabled /\ chromeSide.held) \/ LostQueued

\* Without its timer a capture has a stop to come.
StopsComing == cap.has /\ ~cap.timer => \E n \in DOMAIN turns : turns[n].kind = "stop"

\* Without a capture Chrome holds a session only for a start under way.
NothingHeld ==
    ~cap.has /\ ~told.lost =>
        /\ ~chromeSide.enabled
        /\ chromeSide.held => turns # <<>> /\ turns[1].at \in {"enable", "undo"}

\* The stop called last is still queued after every start, or has done its work.
StopsWin ==
    told.last = "stop" /\ troubles = 0 =>
        \/ \E n \in DOMAIN turns : /\ turns[n].kind = "stop"
                                   /\ \A m \in DOMAIN turns : m > n => turns[m].kind # "start"
        \/ ~cap.has /\ \A m \in DOMAIN turns : turns[m].kind # "start"

\* What a page requested is kept, pending, or counted as let go of.
SeenCounted == cap.has => seen <= cap.entries + cap.inflight + cap.dropped + cap.abandoned

CaptureInv ==
    /\ CaptureTypeOK /\ TurnsOrdered /\ LossesTold /\ CapturesHear /\ StopsComing /\ NothingHeld
    /\ StopsWin /\ SeenCounted

StopQueued == \E n \in DOMAIN turns : turns[n].kind = "stop"
NoStart == \A n \in DOMAIN turns : turns[n].kind # "start"
StopLast ==
    \E n \in DOMAIN turns : /\ turns[n].kind = "stop"
                            /\ \A m \in DOMAIN turns : m > n => turns[m].kind # "start"

\* A turn ends: the others are one place further on and still wait.
LEMMA TurnEnds ==
    ASSUME CaptureTypeOK, TurnsOrdered, LossesTold, turns # <<>>, turns' = Tail(turns),
           told' = told, troubles' \in Nat, troubles' >= troubles
    PROVE  /\ turns' \in Seq(Turns) /\ TurnsOrdered' /\ LossesTold'
           /\ turns' # <<>> => turns'[1].at = "wait"
           /\ LostQueued /\ turns[1].kind # "lost" => LostQueued'
           /\ StopQueued /\ turns[1].kind # "stop" => StopQueued'
           /\ NoStart => NoStart'
           /\ StopLast => (turns[1].kind = "stop" /\ NoStart') \/ StopLast'
<1>1. /\ Len(turns) \in Nat \ {0} /\ turns' \in Seq(Turns) /\ Len(turns') = Len(turns) - 1
      /\ DOMAIN turns = 1..Len(turns) /\ DOMAIN turns' = 1..Len(turns')
      /\ \A n \in DOMAIN turns' : n + 1 \in DOMAIN turns /\ turns'[n] = turns[n + 1]
  BY DEF CaptureTypeOK
<1>2. \A n \in DOMAIN turns : n > 1 => n - 1 \in DOMAIN turns' /\ turns'[n - 1] = turns[n]
  BY <1>1
<1>3. \A n \in DOMAIN turns' : turns'[n].at = "wait"
  BY <1>1 DEF TurnsOrdered
<1>4. turns' # <<>> => turns'[1].at = "wait"
  BY <1>1, <1>3
<1>5. TurnsOrdered'
  BY <1>3, <1>4 DEF TurnsOrdered
<1>6. LossesTold'
  BY <1>1 DEF LossesTold, CaptureTypeOK
<1>7. ASSUME LostQueued, turns[1].kind # "lost" PROVE LostQueued'
  <2>1. PICK n \in DOMAIN turns : turns[n].kind = "lost"
    BY <1>7 DEF LostQueued
  <2>2. n > 1
    BY <1>1, <1>7, <2>1
  <2>3. n - 1 \in DOMAIN turns' /\ turns'[n - 1].kind = "lost"
    BY <1>2, <2>1, <2>2
  <2> QED
    BY <2>3 DEF LostQueued
<1>8. ASSUME StopQueued, turns[1].kind # "stop" PROVE StopQueued'
  <2>1. PICK n \in DOMAIN turns : turns[n].kind = "stop"
    BY <1>8 DEF StopQueued
  <2>2. n > 1
    BY <1>1, <1>8, <2>1
  <2>3. n - 1 \in DOMAIN turns' /\ turns'[n - 1].kind = "stop"
    BY <1>2, <2>1, <2>2
  <2> QED
    BY <2>3 DEF StopQueued
<1>9. NoStart => NoStart'
  BY <1>1 DEF NoStart
<1>10. ASSUME StopLast PROVE (turns[1].kind = "stop" /\ NoStart') \/ StopLast'
  <2>1. PICK n \in DOMAIN turns : /\ turns[n].kind = "stop"
                                  /\ \A m \in DOMAIN turns : m > n => turns[m].kind # "start"
    BY <1>10 DEF StopLast
  <2>2. CASE n = 1
    BY <1>1, <2>1, <2>2 DEF NoStart
  <2>3. CASE n > 1
    <3>1. n - 1 \in DOMAIN turns' /\ turns'[n - 1].kind = "stop"
      BY <1>2, <2>1, <2>3
    <3>2. \A m \in DOMAIN turns' : m > n - 1 => turns'[m].kind # "start"
      BY <1>1, <2>1
    <3> QED
      BY <3>1, <3>2 DEF StopLast
  <2> QED
    BY <1>1, <2>2, <2>3
<1> QED
  BY <1>1, <1>4, <1>5, <1>6, <1>7, <1>8, <1>9, <1>10

\* A turn goes on: only where it is changes.
LEMMA TurnGoesOn ==
    ASSUME CaptureTypeOK, LossesTold, turns # <<>>,
           NEW place \in {"wait", "acquire", "enable", "undo", "reenable", "disable", "release"},
           Goes(place), told' = told, troubles' \in Nat, troubles' >= troubles
    PROVE  /\ turns' \in Seq(Turns) /\ turns' # <<>> /\ LossesTold'
           /\ DOMAIN turns' = DOMAIN turns /\ 1 \in DOMAIN turns
           /\ turns'[1] = [turns[1] EXCEPT !.at = place] /\ turns'[1].at = place
           /\ turns'[1].kind = turns[1].kind
           /\ \A n \in DOMAIN turns : n > 1 => turns'[n] = turns[n]
           /\ LostQueued => LostQueued'
           /\ StopQueued => StopQueued'
           /\ NoStart => NoStart'
           /\ StopLast => StopLast'
<1>1. /\ 1 \in DOMAIN turns /\ turns[1] \in Turns /\ Len(turns) \in Nat \ {0}
      /\ DOMAIN turns = 1..Len(turns)
  BY DEF CaptureTypeOK
<1>2. [turns[1] EXCEPT !.at = place] \in Turns
  BY <1>1 DEF Turns
<1>3. /\ turns' \in Seq(Turns) /\ Len(turns') = Len(turns) /\ DOMAIN turns' = DOMAIN turns
      /\ turns'[1] = [turns[1] EXCEPT !.at = place]
      /\ \A n \in DOMAIN turns : n > 1 => turns'[n] = turns[n]
  BY <1>1, <1>2 DEF CaptureTypeOK, Goes
<1>4. turns'[1].kind = turns[1].kind /\ turns'[1].lost = turns[1].lost /\ turns'[1].at = place
  BY <1>1, <1>3 DEF Turns
<1>5. ASSUME NEW n \in DOMAIN turns
      PROVE  turns'[n].kind = turns[n].kind /\ turns'[n].lost = turns[n].lost
  <2>1. CASE n = 1
    BY <1>4, <2>1
  <2>2. CASE n > 1
    BY <1>3, <2>2
  <2> QED
    BY <1>1, <2>1, <2>2
<1>6. LossesTold'
  BY <1>3, <1>5 DEF LossesTold, CaptureTypeOK
<1>7. turns' # <<>>
  BY <1>1, <1>3
<1> QED
  BY <1>1, <1>3, <1>4, <1>5, <1>6, <1>7 DEF LostQueued, StopQueued, NoStart, StopLast

\* A call is queued behind the others, and may mark them.
LEMMA TurnCalled ==
    ASSUME CaptureTypeOK, NEW kind \in {"start", "clear", "read", "stop", "lost"}, NEW marked,
           marked \in Seq(Turns), Len(marked) = Len(turns),
           \A n \in DOMAIN turns : marked[n].kind = turns[n].kind /\ marked[n].at = turns[n].at,
           Calls(kind, marked), TurnsOrdered, cap'.has = cap.has, cap'.enabled = cap.enabled
    PROVE  /\ turns' \in Seq(Turns) /\ TurnsOrdered' /\ Len(turns') = Len(turns) + 1
           /\ \A n \in DOMAIN turns : n \in DOMAIN turns' /\ turns'[n] = marked[n]
           /\ \A n \in DOMAIN turns' : n \notin DOMAIN turns =>
                n = Len(turns) + 1 /\ ~turns'[n].lost /\ turns'[n].kind = kind
           /\ turns # <<>> => turns' # <<>> /\ turns'[1].at = turns[1].at
           /\ LostQueued => LostQueued'
           /\ StopQueued => StopQueued'
           /\ kind = "lost" => LostQueued'
           /\ kind = "stop" => StopQueued' /\ StopLast'
           /\ kind # "start" => (NoStart => NoStart') /\ (StopLast => StopLast')
<1> DEFINE new == [kind |-> kind, at |-> "wait", stopped |-> FALSE, lost |-> FALSE]
           last == Len(turns) + 1
<1>1. turns \in Seq(Turns) /\ Len(turns) \in Nat /\ DOMAIN turns = 1..Len(turns)
  BY DEF CaptureTypeOK
<1>2. new \in Turns
  BY DEF Turns
<1>3. new.kind = kind /\ new.at = "wait" /\ ~new.lost
  OBVIOUS
<1>4. turns' = Append(marked, new)
  BY DEF Calls
<1> HIDE DEF new
<1>5. /\ turns' \in Seq(Turns) /\ Len(turns') = last /\ DOMAIN turns' = 1..last
      /\ turns'[last] = new /\ \A n \in DOMAIN turns : turns'[n] = marked[n]
  BY <1>1, <1>2, <1>4
<1>6. /\ \A n \in DOMAIN turns : n \in DOMAIN turns'
      /\ \A n \in DOMAIN turns' : n \in DOMAIN turns \/ n = last
      /\ last \in DOMAIN turns' /\ last \notin DOMAIN turns
      /\ \A n \in DOMAIN turns : n < last
  BY <1>1, <1>5
<1>7. \A n \in DOMAIN turns : turns'[n].kind = turns[n].kind /\ turns'[n].at = turns[n].at
  BY <1>5
<1>8. /\ turns' # <<>>
      /\ turns # <<>> => 1 \in DOMAIN turns
      /\ turns = <<>> => last = 1
  BY <1>1, <1>5
<1>9. TurnsOrdered'
  <2>1. \A n \in DOMAIN turns' : n > 1 \/ turns'[n].kind \notin {"start", "stop"} => turns'[n].at = "wait"
    BY <1>3, <1>5, <1>6, <1>7 DEF TurnsOrdered
  <2>2. CASE turns = <<>>
    BY <1>3, <1>5, <1>8, <2>1, <2>2 DEF TurnsOrdered
  <2>3. CASE turns # <<>>
    BY <1>7, <1>8, <2>1, <2>3 DEF TurnsOrdered
  <2> QED
    BY <2>2, <2>3
<1>10. LostQueued => LostQueued'
  BY <1>6, <1>7 DEF LostQueued
<1>11. StopQueued => StopQueued'
  BY <1>6, <1>7 DEF StopQueued
<1>12. kind = "lost" => LostQueued'
  BY <1>3, <1>5, <1>6 DEF LostQueued
<1>13. kind = "stop" => StopQueued' /\ StopLast'
  BY <1>1, <1>3, <1>5, <1>6 DEF StopQueued, StopLast
<1>14. kind # "start" => (NoStart => NoStart')
  BY <1>3, <1>5, <1>6, <1>7 DEF NoStart
<1>15. kind # "start" => (StopLast => StopLast')
  BY <1>3, <1>5, <1>6, <1>7 DEF StopLast
<1> QED
  BY <1>3, <1>5, <1>6, <1>7, <1>8, <1>9, <1>10, <1>11, <1>12, <1>13, <1>14, <1>15

LEMMA MarkedTurn ==
    ASSUME NEW t \in Turns, NEW mark \in BOOLEAN
    PROVE  /\ [t EXCEPT !.stopped = mark] \in Turns /\ [t EXCEPT !.lost = mark] \in Turns
           /\ [t EXCEPT !.stopped = mark].kind = t.kind /\ [t EXCEPT !.lost = mark].kind = t.kind
           /\ [t EXCEPT !.stopped = mark].at = t.at /\ [t EXCEPT !.lost = mark].at = t.at
           /\ [t EXCEPT !.stopped = mark].lost = t.lost
  BY DEF Turns

LEMMA MarkedStill ==
    ASSUME CaptureTypeOK
    PROVE  /\ Len(turns) = Len(turns) /\ turns \in Seq(Turns)
           /\ Stopped \in Seq(Turns) /\ Len(Stopped) = Len(turns)
           /\ \A n \in DOMAIN turns : /\ Stopped[n].kind = turns[n].kind
                                      /\ Stopped[n].at = turns[n].at
                                      /\ Stopped[n].lost = turns[n].lost
<1>1. turns \in Seq(Turns) /\ Len(turns) \in Nat /\ DOMAIN turns = 1..Len(turns)
  BY DEF CaptureTypeOK
<1>2. \A n \in DOMAIN turns : Stopped[n] = [turns[n] EXCEPT !.stopped = TRUE]
  BY DEF Stopped
<1>3. ASSUME NEW n \in DOMAIN turns
      PROVE  /\ Stopped[n] \in Turns /\ Stopped[n].kind = turns[n].kind
             /\ Stopped[n].at = turns[n].at /\ Stopped[n].lost = turns[n].lost
  <2>1. turns[n] \in Turns /\ TRUE \in BOOLEAN
    BY <1>1
  <2>2. Stopped[n] = [turns[n] EXCEPT !.stopped = TRUE]
    BY <1>2
  <2> HIDE DEF Stopped
  <2> QED
    BY <2>1, <2>2, MarkedTurn
<1>4. Stopped = [n \in 1..Len(turns) |-> Stopped[n]]
  BY <1>1 DEF Stopped
<1>5. Stopped \in Seq(Turns) /\ Len(Stopped) = Len(turns)
  BY <1>1, <1>3, <1>4
<1> QED
  BY <1>1, <1>3, <1>5

LEMMA StartCalledKeeps == ASSUME CaptureInv, StartCalled PROVE CaptureInv'
<1> USE DEF CaptureInv
<1>1. /\ Calls("start", turns) /\ told' = [told EXCEPT !.last = "start"]
      /\ cap' = cap /\ chromeSide' = chromeSide /\ seen' = seen /\ troubles' = troubles
  BY DEF StartCalled
<1>2. /\ turns' \in Seq(Turns) /\ TurnsOrdered'
      /\ \A n \in DOMAIN turns : n \in DOMAIN turns' /\ turns'[n] = turns[n]
      /\ \A n \in DOMAIN turns' : n \notin DOMAIN turns => ~turns'[n].lost /\ turns'[n].kind = "start"
      /\ turns # <<>> => turns' # <<>> /\ turns'[1].at = turns[1].at
      /\ (LostQueued => LostQueued') /\ (StopQueued => StopQueued')
  BY <1>1, TurnCalled DEF CaptureTypeOK
<1>3. told'.last = "start" /\ told'.lost = told.lost
      /\ told' \in [last : {"none", "start", "stop"}, lost : BOOLEAN]
  BY <1>1 DEF CaptureTypeOK
<1>4. CaptureTypeOK'
  BY <1>1, <1>2, <1>3 DEF CaptureTypeOK
<1>5. LossesTold'
  BY <1>1, <1>2, <1>3 DEF LossesTold
<1>6. CapturesHear' /\ SeenCounted'
  BY <1>1, <1>2 DEF CapturesHear, SeenCounted
<1>7. StopsComing'
  BY <1>1, <1>2 DEF StopsComing, StopQueued
<1>8. NothingHeld' /\ StopsWin'
  BY <1>1, <1>2, <1>3 DEF NothingHeld, StopsWin
<1> QED
  BY <1>2, <1>4, <1>5, <1>6, <1>7, <1>8

LEMMA ClearCalledKeeps ==
    ASSUME CaptureInv, NEW kind \in {"clear", "read"}, ClearCalled(kind) PROVE CaptureInv'
<1> USE DEF CaptureInv
<1>1. /\ Calls(kind, turns) /\ told' = told
      /\ cap' = cap /\ chromeSide' = chromeSide /\ seen' = seen /\ troubles' = troubles
  BY DEF ClearCalled
<1>2. /\ turns' \in Seq(Turns) /\ TurnsOrdered'
      /\ \A n \in DOMAIN turns : n \in DOMAIN turns' /\ turns'[n] = turns[n]
      /\ \A n \in DOMAIN turns' : n \notin DOMAIN turns => ~turns'[n].lost /\ turns'[n].kind = kind
      /\ turns # <<>> => turns' # <<>> /\ turns'[1].at = turns[1].at
      /\ (LostQueued => LostQueued') /\ (StopQueued => StopQueued')
      /\ (NoStart => NoStart') /\ (StopLast => StopLast')
  BY <1>1, TurnCalled DEF CaptureTypeOK
<1>4. CaptureTypeOK'
  BY <1>1, <1>2 DEF CaptureTypeOK
<1>5. LossesTold'
  BY <1>1, <1>2 DEF LossesTold
<1>6. CapturesHear' /\ SeenCounted'
  BY <1>1, <1>2 DEF CapturesHear, SeenCounted
<1>7. StopsComing'
  BY <1>1, <1>2 DEF StopsComing, StopQueued
<1>8. NothingHeld'
  BY <1>1, <1>2 DEF NothingHeld
<1>9. StopsWin'
  BY <1>1, <1>2 DEF StopsWin, NoStart, StopLast
<1> QED
  BY <1>2, <1>4, <1>5, <1>6, <1>7, <1>8, <1>9

LEMMA StopCalledKeeps == ASSUME CaptureInv, StopCalled \/ TimerStops PROVE CaptureInv'
<1> USE DEF CaptureInv
<1>1. /\ Calls("stop", Stopped) /\ told' = [told EXCEPT !.last = "stop"]
      /\ cap' = cap \/ cap' = [cap EXCEPT !.timer = FALSE]
      /\ chromeSide' = chromeSide /\ seen' = seen /\ troubles' = troubles
  BY DEF StopCalled, TimerStops
<1>2. /\ cap' \in Captures /\ cap'.has = cap.has /\ cap'.enabled = cap.enabled
      /\ cap'.armed = cap.armed /\ cap'.entries = cap.entries /\ cap'.inflight = cap.inflight
      /\ cap'.dropped = cap.dropped /\ cap'.abandoned = cap.abandoned
  BY <1>1 DEF CaptureTypeOK, Captures
<1>3. /\ turns' \in Seq(Turns) /\ TurnsOrdered'
      /\ \A n \in DOMAIN turns : n \in DOMAIN turns' /\ turns'[n] = Stopped[n]
      /\ \A n \in DOMAIN turns' : n \notin DOMAIN turns => ~turns'[n].lost /\ turns'[n].kind = "stop"
      /\ turns # <<>> => turns' # <<>> /\ turns'[1].at = turns[1].at
      /\ LostQueued => LostQueued'
      /\ StopQueued' /\ StopLast'
  BY <1>1, <1>2, TurnCalled, MarkedStill
<1>4. told'.lost = told.lost /\ told' \in [last : {"none", "start", "stop"}, lost : BOOLEAN]
  BY <1>1 DEF CaptureTypeOK
<1>5. CaptureTypeOK'
  BY <1>1, <1>2, <1>3, <1>4 DEF CaptureTypeOK
<1>6. LossesTold'
  BY <1>1, <1>3, <1>4, MarkedStill DEF LossesTold
<1>7. CapturesHear' /\ SeenCounted'
  BY <1>1, <1>2, <1>3 DEF CapturesHear, SeenCounted
<1>8. StopsComing'
  BY <1>3 DEF StopsComing, StopQueued
<1>9. NothingHeld'
  BY <1>1, <1>2, <1>3, <1>4 DEF NothingHeld
<1>10. StopsWin'
  BY <1>3 DEF StopsWin, StopLast
<1> QED
  BY <1>3, <1>5, <1>6, <1>7, <1>8, <1>9, <1>10

LEMMA SessionLostKeeps == ASSUME CaptureInv, SessionLost PROVE CaptureInv'
<1> USE DEF CaptureInv
<1> DEFINE marked == [n \in DOMAIN turns |-> [turns[n] EXCEPT !.lost = turns[n].at # "wait"]]
<1>1. /\ Calls("lost", marked) /\ told' = [told EXCEPT !.lost = TRUE]
      /\ cap' = cap /\ chromeSide' = [held |-> FALSE, enabled |-> FALSE]
      /\ seen' = seen /\ troubles' = troubles + 1
  BY DEF SessionLost, Trouble
<1>2. turns \in Seq(Turns) /\ Len(turns) \in Nat /\ DOMAIN turns = 1..Len(turns)
  BY DEF CaptureTypeOK
<1>3. ASSUME NEW n \in DOMAIN turns
      PROVE  marked[n] \in Turns /\ marked[n].kind = turns[n].kind /\ marked[n].at = turns[n].at
  <2>1. turns[n] \in Turns /\ (turns[n].at # "wait") \in BOOLEAN
    BY <1>2
  <2>2. marked[n] = [turns[n] EXCEPT !.lost = turns[n].at # "wait"]
    OBVIOUS
  <2> QED
    BY <2>1, <2>2, MarkedTurn
<1>4. marked \in Seq(Turns) /\ Len(marked) = Len(turns)
  <2>1. marked = [n \in 1..Len(turns) |-> marked[n]]
    BY <1>2
  <2> HIDE DEF marked
  <2> QED
    BY <1>2, <1>3, <2>1
<1> HIDE DEF marked
<1>5. /\ turns' \in Seq(Turns) /\ TurnsOrdered'
      /\ turns # <<>> => turns' # <<>> /\ turns'[1].at = turns[1].at
      /\ LostQueued' /\ (StopQueued => StopQueued')
      /\ (NoStart => NoStart') /\ (StopLast => StopLast')
  BY <1>1, <1>3, <1>4, TurnCalled
<1>6. /\ told'.lost /\ told'.last = told.last
      /\ told' \in [last : {"none", "start", "stop"}, lost : BOOLEAN]
  BY <1>1 DEF CaptureTypeOK
<1>12. troubles' \in Nat /\ troubles' > 0
  BY <1>1 DEF CaptureTypeOK
<1>7. CaptureTypeOK'
  BY <1>1, <1>5, <1>6, <1>12 DEF CaptureTypeOK
<1>8. LossesTold'
  BY <1>6, <1>12 DEF LossesTold
<1>9. CapturesHear' /\ SeenCounted'
  BY <1>1, <1>5 DEF CapturesHear, SeenCounted
<1>10. StopsComing'
  BY <1>1, <1>5 DEF StopsComing, StopQueued
<1>11. NothingHeld' /\ StopsWin'
  BY <1>6, <1>12 DEF NothingHeld, StopsWin
<1> QED
  BY <1>5, <1>7, <1>8, <1>9, <1>10, <1>11

\* The capture and the session a turn leaves: what the parts of the invariant
\* that are not about the queue ask of them.
Sound(c, side) ==
    /\ c \in Captures /\ (c.armed <=> c.enabled) /\ (c.enabled => c.has)
    /\ side \in [held : BOOLEAN, enabled : BOOLEAN]

\* A turn that ends keeps the invariant if it leaves a capture that is heard, has
\* its timer and counts, and nothing held when there is none; a stop that ends
\* leaves no capture while nothing has failed.
LEMMA EndKeeps ==
    ASSUME CaptureInv, turns # <<>>, turns' = Tail(turns), told' = told,
           seen' \in Nat, troubles' \in Nat, troubles' >= troubles,
           Sound(cap', chromeSide'), SeenCounted',
           cap'.enabled => \/ chromeSide'.enabled /\ chromeSide'.held
                           \/ LostQueued /\ turns[1].kind # "lost",
           cap'.has /\ ~cap'.timer => cap.has /\ ~cap.timer /\ turns[1].kind # "stop",
           ~cap'.has /\ ~told.lost => chromeSide' = [held |-> FALSE, enabled |-> FALSE],
           troubles' = 0 /\ turns[1].kind = "stop" => ~cap'.has,
           troubles' = 0 /\ ~cap.has /\ turns[1].kind # "start" => ~cap'.has
    PROVE  CaptureInv'
<1> USE DEF CaptureInv
<1>1. /\ turns' \in Seq(Turns) /\ TurnsOrdered' /\ LossesTold'
      /\ (LostQueued /\ turns[1].kind # "lost") => LostQueued'
      /\ (StopQueued /\ turns[1].kind # "stop") => StopQueued'
      /\ NoStart => NoStart'
      /\ StopLast => (turns[1].kind = "stop" /\ NoStart') \/ StopLast'
  BY TurnEnds
<1>2. CaptureTypeOK'
  BY <1>1 DEF CaptureTypeOK, Sound
<1>3. CapturesHear'
  BY <1>1 DEF CapturesHear, Sound
<1>4. StopsComing'
  BY <1>1 DEF StopsComing, StopQueued
<1>5. NothingHeld'
  BY DEF NothingHeld
<1>6. StopsWin'
  <2>1. SUFFICES ASSUME told'.last = "stop", troubles' = 0
                 PROVE  StopLast' \/ (~cap'.has /\ NoStart')
    BY DEF StopsWin, StopLast, NoStart
  <2>2. troubles = 0
    BY <2>1 DEF CaptureTypeOK
  <2>3. StopLast \/ (~cap.has /\ NoStart)
    BY <2>1, <2>2 DEF StopsWin, StopLast, NoStart
  <2>4. turns[1].kind # "start" \/ ~NoStart
    BY DEF NoStart, CaptureTypeOK
  <2> QED
    BY <1>1, <2>1, <2>3, <2>4
<1> QED
  BY <1>1, <1>2, <1>3, <1>4, <1>5, <1>6

\* The same of a turn that goes on.
LEMMA GoKeeps ==
    ASSUME CaptureInv, turns # <<>>,
           NEW place \in {"acquire", "enable", "undo", "reenable", "disable", "release"},
           Goes(place), told' = told,
           seen' \in Nat, troubles' \in Nat, troubles' >= troubles,
           turns[1].kind \in {"start", "stop"},
           Sound(cap', chromeSide'), SeenCounted',
           cap'.enabled => \/ chromeSide'.enabled /\ chromeSide'.held
                           \/ LostQueued,
           cap'.has /\ ~cap'.timer => cap.has /\ ~cap.timer,
           ~cap'.has /\ ~told.lost =>
             ~chromeSide'.enabled /\ (chromeSide'.held => place \in {"enable", "undo"}),
           cap'.has => cap.has \/ turns[1].kind = "start",
           place \in {"acquire", "enable", "undo"} => turns[1].kind = "start" /\ ~cap'.has,
           place = "reenable" => turns[1].kind = "start" /\ cap'.has /\ ~cap'.enabled,
           place = "disable" => cap'.enabled,
           place = "release" => cap'.has /\ ~cap'.enabled
    PROVE  CaptureInv'
<1> USE DEF CaptureInv
<1>1. /\ turns' \in Seq(Turns) /\ turns' # <<>> /\ LossesTold'
      /\ DOMAIN turns' = DOMAIN turns /\ 1 \in DOMAIN turns
      /\ turns'[1].at = place /\ turns'[1].kind = turns[1].kind
      /\ \A n \in DOMAIN turns : n > 1 => turns'[n] = turns[n]
      /\ LostQueued => LostQueued'
      /\ StopQueued => StopQueued'
      /\ NoStart => NoStart'
      /\ StopLast => StopLast'
  BY TurnGoesOn
<1>2. CaptureTypeOK'
  BY <1>1 DEF CaptureTypeOK, Sound
<1>3. CapturesHear'
  BY <1>1 DEF CapturesHear, Sound
<1>4. StopsComing'
  BY <1>1 DEF StopsComing, StopQueued
<1>5. NothingHeld'
  BY <1>1 DEF NothingHeld
<1>6. TurnsOrdered'
  <2>1. \A n \in DOMAIN turns' : n > 1 \/ turns'[n].kind \notin {"start", "stop"} => turns'[n].at = "wait"
    <3> SUFFICES ASSUME NEW n \in DOMAIN turns', n > 1 \/ turns'[n].kind \notin {"start", "stop"}
                 PROVE  turns'[n].at = "wait"
      OBVIOUS
    <3>1. n > 1
      BY <1>1 DEF CaptureTypeOK
    <3> QED
      BY <1>1, <3>1 DEF TurnsOrdered
  <2> QED
    BY <1>1, <2>1 DEF TurnsOrdered
<1>7. StopsWin'
  <2>1. SUFFICES ASSUME told'.last = "stop", troubles' = 0
                 PROVE  StopLast' \/ (~cap'.has /\ NoStart')
    BY DEF StopsWin, StopLast, NoStart
  <2>2. troubles = 0
    BY <2>1 DEF CaptureTypeOK
  <2>3. StopLast \/ (~cap.has /\ NoStart)
    BY <2>1, <2>2 DEF StopsWin, StopLast, NoStart
  <2>4. turns[1].kind # "start" \/ ~NoStart
    BY <1>1 DEF NoStart
  <2> QED
    BY <1>1, <2>1, <2>3, <2>4
<1> QED
  BY <1>1, <1>2, <1>3, <1>4, <1>5, <1>6, <1>7

Counted(c, n) == n <= c.entries + c.inflight + c.dropped + c.abandoned

LEMMA CaptureHelpers ==
    /\ NoCapture \in Captures /\ ~NoCapture.has /\ ~NoCapture.armed /\ ~NoCapture.enabled
    /\ NewCapture \in Captures /\ NewCapture.has /\ NewCapture.armed /\ NewCapture.enabled
    /\ NewCapture.timer /\ Counted(NewCapture, 0)
<1>1. NoCapture \in Captures
  BY DEF NoCapture, Captures
<1>2. ~NoCapture.has /\ ~NoCapture.armed /\ ~NoCapture.enabled
  BY DEF NoCapture
<1>3. NewCapture \in Captures
  BY DEF NewCapture, NoCapture, Captures
<1>4. NewCapture.has /\ NewCapture.armed /\ NewCapture.enabled /\ NewCapture.timer
  BY DEF NewCapture, NoCapture
<1>5. NewCapture.entries = 0 /\ NewCapture.inflight = 0 /\ NewCapture.dropped = 0 /\ NewCapture.abandoned = 0
  BY DEF NewCapture, NoCapture
<1>6. Counted(NewCapture, 0)
  BY <1>5 DEF Counted
<1> QED
  BY <1>1, <1>2, <1>3, <1>4, <1>6

LEMMA FailedCapture ==
    ASSUME NEW failed, failed = [NewCapture EXCEPT !.armed = FALSE, !.enabled = FALSE]
    PROVE  /\ failed \in Captures /\ failed.has /\ ~failed.armed /\ ~failed.enabled
           /\ failed.timer /\ Counted(failed, 0)
<1>1. failed \in Captures /\ ~failed.armed /\ ~failed.enabled
  BY CaptureHelpers DEF Captures
<1>2. failed.has /\ failed.timer
  BY CaptureHelpers DEF Captures
<1>3. /\ failed.entries = NewCapture.entries /\ failed.inflight = NewCapture.inflight
      /\ failed.dropped = NewCapture.dropped /\ failed.abandoned = NewCapture.abandoned
  BY CaptureHelpers DEF Captures
<1>4. Counted(failed, 0)
  BY <1>3, CaptureHelpers DEF Counted
<1> QED
  BY <1>1, <1>2, <1>4

LEMMA TimedCapture ==
    ASSUME NEW c \in Captures
    PROVE  /\ Timed(c) \in Captures /\ Timed(c).timer /\ Timed(c).has = c.has
           /\ Timed(c).armed = c.armed /\ Timed(c).enabled = c.enabled
           /\ \A n \in Nat : Counted(c, n) => Counted(Timed(c), n)
  BY DEF Timed, Captures, Counted

LEMMA ClearedCapture ==
    ASSUME NEW c \in Captures
    PROVE  /\ Cleared(c) \in Captures /\ Cleared(c).timer = c.timer /\ Cleared(c).has = c.has
           /\ Cleared(c).armed = c.armed /\ Cleared(c).enabled = c.enabled
           /\ Counted(Cleared(c), c.inflight) /\ c.inflight \in Nat
<1>1. Cleared(c) \in Captures
  BY DEF Cleared, Captures
<1>2. Cleared(c).timer = c.timer /\ Cleared(c).has = c.has
  BY DEF Cleared, Captures
<1>3. Cleared(c).armed = c.armed /\ Cleared(c).enabled = c.enabled
  BY DEF Cleared, Captures
<1>4. /\ Cleared(c).entries = 0 /\ Cleared(c).inflight = 0 /\ Cleared(c).dropped = 0
      /\ Cleared(c).abandoned = c.inflight /\ c.inflight \in Nat
  BY DEF Cleared, Captures
<1>5. Counted(Cleared(c), c.inflight)
  BY <1>4 DEF Counted
<1> QED
  BY <1>1, <1>2, <1>3, <1>4, <1>5

LEMMA ArmedCapture ==
    ASSUME NEW c \in Captures, NEW f,
           f = [c EXCEPT !.armed = TRUE, !.enabled = TRUE] \/ f = [c EXCEPT !.armed = TRUE]
    PROVE  /\ f \in Captures /\ f.armed /\ f.has = c.has /\ f.timer = c.timer
           /\ (f = [c EXCEPT !.armed = TRUE] /\ f.enabled = c.enabled) \/ f.enabled
           /\ \A n \in Nat : Counted(c, n) => Counted(f, n)
<1>1. f \in Captures /\ f.armed
  BY DEF Captures
<1>2. f.has = c.has /\ f.timer = c.timer
  BY DEF Captures
<1>3. (f = [c EXCEPT !.armed = TRUE] /\ f.enabled = c.enabled) \/ f.enabled
  BY DEF Captures
<1>4. /\ f.entries = c.entries /\ f.inflight = c.inflight
      /\ f.dropped = c.dropped /\ f.abandoned = c.abandoned
  BY DEF Captures
<1>5. \A n \in Nat : Counted(c, n) => Counted(f, n)
  BY <1>4 DEF Counted
<1> QED
  BY <1>1, <1>2, <1>3, <1>5

LEMMA DisabledCapture ==
    ASSUME NEW c \in Captures, NEW g,
           g = [c EXCEPT !.enabled = FALSE, !.armed = FALSE, !.inflight = 0,
                         !.abandoned = @ + c.inflight]
    PROVE  /\ g \in Captures /\ ~g.armed /\ ~g.enabled /\ g.has = c.has /\ g.timer = c.timer
           /\ \A n \in Nat : Counted(c, n) => Counted(g, n)
<1>1. c.abandoned + c.inflight \in Nat
  BY DEF Captures
<1>2. g \in Captures
  BY <1>1 DEF Captures
<1>3. ~g.armed /\ ~g.enabled /\ g.has = c.has
  BY DEF Captures
<1>4. g.timer = c.timer
  BY DEF Captures
<1>5. /\ g.entries = c.entries /\ g.inflight = 0 /\ g.dropped = c.dropped
      /\ g.abandoned = c.abandoned + c.inflight
  BY DEF Captures
<1>6. /\ c.entries \in Nat /\ c.inflight \in Nat /\ c.dropped \in Nat /\ c.abandoned \in Nat
  BY DEF Captures
<1>7. \A n \in Nat : Counted(c, n) => Counted(g, n)
  BY <1>5, <1>6 DEF Counted
<1> QED
  BY <1>2, <1>3, <1>4, <1>7

LEMMA SideTypes ==
    ASSUME CaptureTypeOK, NEW mark \in BOOLEAN
    PROVE  /\ [held |-> FALSE, enabled |-> FALSE] \in [held : BOOLEAN, enabled : BOOLEAN]
           /\ LET h == [chromeSide EXCEPT !.held = mark]
                  e == [chromeSide EXCEPT !.enabled = mark]
              IN  /\ h \in [held : BOOLEAN, enabled : BOOLEAN]
                  /\ h.held = mark /\ h.enabled = chromeSide.enabled
                  /\ e \in [held : BOOLEAN, enabled : BOOLEAN]
                  /\ e.enabled = mark /\ e.held = chromeSide.held
           /\ (~chromeSide.held /\ ~chromeSide.enabled)
                => chromeSide = [held |-> FALSE, enabled |-> FALSE]
  BY DEF CaptureTypeOK

\* What CaptureInv says when a turn is running.
LEMMA RunningTurn ==
    ASSUME CaptureInv, NEW kind, NEW place, Runs(kind, place)
    PROVE  /\ turns # <<>> /\ turns[1].kind = kind /\ turns[1].at = place
           /\ turns[1] = Turn /\ 1 \in DOMAIN turns
           /\ Turn.lost => told.lost
           /\ kind = "lost" => told.lost
           /\ LostQueued => troubles > 0 /\ told.lost
           /\ Sound(cap, chromeSide) /\ cap \in Captures /\ seen \in Nat /\ troubles \in Nat
           /\ cap.has => Counted(cap, seen)
<1>1. turns # <<>> /\ turns[1].kind = kind /\ turns[1].at = place /\ turns[1] = Turn /\ 1 \in DOMAIN turns
  BY DEF Runs, Turn, CaptureInv, CaptureTypeOK
<1>2. (Turn.lost => told.lost) /\ (kind = "lost" => told.lost) /\ (LostQueued => troubles > 0 /\ told.lost)
  BY <1>1 DEF CaptureInv, LossesTold, LostQueued
<1> QED
  BY <1>1, <1>2 DEF CaptureInv, CaptureTypeOK, Sound, CapturesHear, SeenCounted, Counted

LEMMA StartTurnKeeps == ASSUME CaptureInv, StartTurn PROVE CaptureInv'
<1>1. Runs("start", "wait") /\ chromeSide' = chromeSide /\ told' = told /\ troubles' = troubles
  BY DEF StartTurn
<1> USE <1>1, RunningTurn
<1>2. CASE cap.armed /\ Ends(Timed(Cleared(cap))) /\ seen' = cap.inflight
  <2>1. /\ cap' \in Captures /\ cap'.timer /\ cap'.has /\ cap'.armed = cap.armed
        /\ cap'.enabled = cap.enabled /\ Counted(cap', seen') /\ seen' \in Nat
    BY <1>2, TimedCapture, ClearedCapture, ZenonT(30) DEF Ends, Sound
  <2>2. Sound(cap', chromeSide') /\ SeenCounted'
    BY <2>1 DEF Sound, SeenCounted, Counted
  <2>3. cap'.enabled => (chromeSide'.enabled /\ chromeSide'.held) \/ (LostQueued /\ turns[1].kind # "lost")
    BY <2>1 DEF CaptureInv, CapturesHear
  <2>4. cap.has
    BY <1>2 DEF Sound
  <2> QED
    BY <1>2, <2>1, <2>2, <2>3, <2>4, EndKeeps DEF Ends
<1>3. CASE /\ ~cap.armed
           /\ Goes(IF cap.has THEN "reenable" ELSE "acquire") /\ cap' = cap /\ seen' = seen
  <2>1. SeenCounted'
    BY <1>3 DEF CaptureInv, SeenCounted
  <2>2. ~cap.enabled
    BY <1>3 DEF Sound
  <2>3. ~cap.has /\ ~told.lost => ~chromeSide.enabled /\ ~chromeSide.held
    BY DEF CaptureInv, NothingHeld
  <2>4. CASE cap.has
    <3>1. Goes("reenable")
      BY <1>3, <2>4
    <3> QED
      BY <1>3, <2>1, <2>2, <2>4, <3>1, GoKeeps
  <2>5. CASE ~cap.has
    <3>1. Goes("acquire")
      BY <1>3, <2>5
    <3> QED
      BY <1>3, <2>1, <2>2, <2>3, <2>5, <3>1, GoKeeps
  <2> QED
    BY <2>4, <2>5
<1> QED
  BY <1>2, <1>3 DEF StartTurn

LEMMA AcquiresKeeps == ASSUME CaptureInv, Acquires PROVE CaptureInv'
<1>1. Runs("start", "acquire") /\ told' = told /\ seen' = seen
  BY DEF Acquires
<1> USE <1>1, RunningTurn
<1>2. ~cap.has /\ ~cap.enabled /\ (~told.lost => ~chromeSide.enabled /\ ~chromeSide.held)
  BY DEF CaptureInv, TurnsOrdered, NothingHeld, CapturesHear
<1>3. CASE chromeSide' = [chromeSide EXCEPT !.held = TRUE] /\ troubles' = troubles
           /\ Unharmed /\ Goes("enable") /\ cap' = cap
  <2>1. chromeSide'.held /\ chromeSide'.enabled = chromeSide.enabled /\ Sound(cap', chromeSide')
    BY <1>3, SideTypes DEF Sound, CaptureInv
  <2>2. SeenCounted'
    BY <1>2, <1>3 DEF SeenCounted
  <2> QED
    BY <1>2, <1>3, <2>1, <2>2, GoKeeps
<1>4. CASE chromeSide' = [chromeSide EXCEPT !.held = TRUE] /\ troubles' = troubles
           /\ ~Unharmed /\ Ends(cap)
  <2>1. Sound(cap', chromeSide') /\ cap' = cap /\ turns' = Tail(turns)
    BY <1>4, SideTypes DEF Sound, CaptureInv, Ends
  <2>2. SeenCounted'
    BY <1>2, <2>1 DEF SeenCounted
  <2>3. told.lost
    BY <1>4 DEF Unharmed
  <2> QED
    BY <1>2, <1>4, <2>1, <2>2, <2>3, EndKeeps
<1>5. CASE Trouble /\ Ends(cap) /\ chromeSide' = chromeSide
  <2>1. Sound(cap', chromeSide') /\ cap' = cap /\ turns' = Tail(turns)
    BY <1>5 DEF Ends
  <2>2. SeenCounted'
    BY <1>2, <2>1 DEF SeenCounted
  <2>3. troubles' \in Nat /\ troubles' >= troubles
    BY <1>5 DEF Trouble
  <2>4. ~told.lost => chromeSide = [held |-> FALSE, enabled |-> FALSE]
    BY <1>2, SideTypes DEF CaptureInv
  <2> QED
    BY <1>2, <1>5, <2>1, <2>2, <2>3, <2>4, EndKeeps
<1> QED
  BY <1>3, <1>4, <1>5 DEF Acquires

LEMMA Troubled ==
    ASSUME CaptureTypeOK, Trouble \/ troubles' = troubles
    PROVE  troubles' \in Nat /\ troubles' >= troubles /\ (Trouble => troubles' > 0)
  BY DEF Trouble, CaptureTypeOK

\* A turn that leaves the capture as it was, when there is none.
LEMMA NoneKept ==
    ASSUME CaptureInv, ~cap.has, cap' = cap, chromeSide' \in [held : BOOLEAN, enabled : BOOLEAN]
    PROVE  Sound(cap', chromeSide') /\ SeenCounted' /\ ~cap'.enabled
  BY DEF CaptureInv, CaptureTypeOK, CapturesHear, Sound, SeenCounted

LEMMA EnablesKeeps == ASSUME CaptureInv, Enables PROVE CaptureInv'
<1>1. Runs("start", "enable") /\ told' = told
  BY DEF Enables
<1> USE <1>1, RunningTurn
<1>2. ~cap.has /\ ~cap.enabled /\ (~told.lost => ~chromeSide.enabled)
  BY DEF CaptureInv, TurnsOrdered, NothingHeld, CapturesHear
<1>3. troubles' \in Nat /\ troubles' >= troubles
  BY Troubled DEF Enables, CaptureInv
<1>4. CASE chromeSide.held /\ chromeSide' = [chromeSide EXCEPT !.enabled = TRUE]
           /\ Unharmed /\ Armed(NewCapture) /\ seen' = 0
  <2>1. /\ cap' = NewCapture
        /\ Goes("disable") \/ turns' = Tail(turns)
    BY <1>4 DEF Armed, Ends
  <2>2. chromeSide'.held /\ chromeSide'.enabled /\ Sound(cap', chromeSide')
    BY <1>4, <2>1, SideTypes, CaptureHelpers DEF Sound, CaptureInv
  <2>3. SeenCounted' /\ cap'.has /\ cap'.timer /\ cap'.enabled
    BY <1>4, <2>1, CaptureHelpers DEF SeenCounted, Counted
  <2>4. CASE Goes("disable")
    BY <1>3, <1>4, <2>2, <2>3, <2>4, GoKeeps
  <2>5. CASE turns' = Tail(turns)
    BY <1>3, <1>4, <2>2, <2>3, <2>5, EndKeeps
  <2> QED
    BY <2>1, <2>4, <2>5
<1>5. CASE /\ chromeSide' = [chromeSide EXCEPT !.enabled = TRUE] \/ chromeSide' = chromeSide
           /\ ~Unharmed /\ Ends(cap) /\ seen' = seen
  <2>1. cap' = cap /\ turns' = Tail(turns) /\ told.lost
    BY <1>5 DEF Unharmed, Ends
  <2>2. Sound(cap', chromeSide') /\ SeenCounted' /\ ~cap'.enabled
    BY <1>2, <1>5, <2>1, SideTypes, NoneKept DEF CaptureInv, Sound
  <2> QED
    BY <1>2, <1>3, <1>5, <2>1, <2>2, EndKeeps
<1>6. CASE Unharmed /\ Goes("undo") /\ cap' = cap /\ chromeSide' = chromeSide /\ seen' = seen
  <2>1. Sound(cap', chromeSide') /\ SeenCounted' /\ ~cap'.enabled
    BY <1>2, <1>6, NoneKept DEF Sound
  <2> QED
    BY <1>2, <1>3, <1>6, <2>1, GoKeeps
<1> QED
  BY <1>4, <1>5, <1>6 DEF Enables

LEMMA UndoesKeeps == ASSUME CaptureInv, Undoes PROVE CaptureInv'
<1>1. Runs("start", "undo") /\ told' = told
  BY DEF Undoes
<1> USE <1>1, RunningTurn
<1>2. ~cap.has /\ ~cap.enabled /\ (~told.lost => ~chromeSide.enabled)
  BY DEF CaptureInv, TurnsOrdered, NothingHeld, CapturesHear
<1>3. troubles' \in Nat /\ troubles' >= troubles
  BY Troubled DEF Undoes, CaptureInv
<1>4. CASE chromeSide' = [chromeSide EXCEPT !.held = FALSE] /\ Ends(cap) /\ seen' = seen
  <2>1. cap' = cap /\ turns' = Tail(turns)
    BY <1>4 DEF Ends
  <2>2. /\ chromeSide' \in [held : BOOLEAN, enabled : BOOLEAN]
        /\ ~told.lost => chromeSide' = [held |-> FALSE, enabled |-> FALSE]
    <3>1. chromeSide' \in [held : BOOLEAN, enabled : BOOLEAN] /\ ~chromeSide'.held
          /\ chromeSide'.enabled = chromeSide.enabled
      BY <1>4, SideTypes DEF CaptureInv
    <3> QED
      BY <1>2, <3>1
  <2>3. Sound(cap', chromeSide') /\ SeenCounted' /\ ~cap'.enabled
    BY <1>2, <2>1, <2>2, NoneKept
  <2> QED
    BY <1>2, <1>3, <1>4, <2>1, <2>2, <2>3, EndKeeps
<1>5. CASE seen' = 0 /\ chromeSide' = chromeSide
           /\ Ends([NewCapture EXCEPT !.armed = FALSE, !.enabled = FALSE])
  <2>1. cap' = [NewCapture EXCEPT !.armed = FALSE, !.enabled = FALSE] /\ turns' = Tail(turns)
    BY <1>5 DEF Ends
  <2>2. cap' \in Captures /\ cap'.has /\ ~cap'.armed /\ ~cap'.enabled /\ cap'.timer /\ Counted(cap', 0)
    BY <2>1, FailedCapture
  <2>3. Sound(cap', chromeSide') /\ SeenCounted'
    BY <1>5, <2>2 DEF Sound, SeenCounted, Counted
  <2> QED
    BY <1>3, <1>5, <2>1, <2>2, <2>3, EndKeeps
<1> QED
  BY <1>4, <1>5 DEF Undoes

LEMMA ReenablesKeeps == ASSUME CaptureInv, Reenables PROVE CaptureInv'
<1>1. Runs("start", "reenable") /\ told' = told
  BY DEF Reenables
<1> USE <1>1, RunningTurn
<1>2. cap.has /\ ~cap.enabled
  BY DEF CaptureInv, TurnsOrdered
<1>3. troubles' \in Nat /\ troubles' >= troubles
  BY Troubled DEF Reenables, CaptureInv
<1>4. CASE chromeSide.held /\ chromeSide' = [chromeSide EXCEPT !.enabled = TRUE] /\ Unharmed
           /\ Armed(Timed([Cleared(cap) EXCEPT !.armed = TRUE, !.enabled = TRUE]))
           /\ seen' = cap.inflight
  <2>1. /\ cap' = Timed([Cleared(cap) EXCEPT !.armed = TRUE, !.enabled = TRUE])
        /\ Goes("disable") \/ turns' = Tail(turns)
    BY <1>4 DEF Armed, Ends
  <2>2. /\ cap' \in Captures /\ cap'.has /\ cap'.armed /\ cap'.enabled /\ cap'.timer
        /\ Counted(cap', seen') /\ seen' \in Nat
    <3>1. Cleared(cap) \in Captures /\ Cleared(cap).has /\ Counted(Cleared(cap), seen') /\ seen' \in Nat
      BY <1>2, <1>4, ClearedCapture
    <3>2. PICK f : f = [Cleared(cap) EXCEPT !.armed = TRUE, !.enabled = TRUE]
      OBVIOUS
    <3>3. f \in Captures /\ f.armed /\ f.enabled /\ f.has /\ Counted(f, seen')
      <4>1. f.enabled
        BY <3>1, <3>2 DEF Captures
      <4> QED
        BY <3>1, <3>2, <4>1, ArmedCapture, ZenonT(30)
    <3> QED
      BY <2>1, <3>1, <3>2, <3>3, TimedCapture
  <2>3. chromeSide'.held /\ chromeSide'.enabled /\ Sound(cap', chromeSide')
    BY <1>4, <2>2, SideTypes DEF Sound, CaptureInv
  <2>4. SeenCounted'
    BY <2>2 DEF SeenCounted, Counted
  <2>5. CASE Goes("disable")
    BY <1>3, <2>2, <2>3, <2>4, <2>5, GoKeeps
  <2>6. CASE turns' = Tail(turns)
    BY <1>3, <2>2, <2>3, <2>4, <2>6, EndKeeps
  <2> QED
    BY <2>1, <2>5, <2>6
<1>5. CASE /\ chromeSide' = [chromeSide EXCEPT !.enabled = TRUE] \/ chromeSide' = chromeSide
           /\ Ends(Timed(cap)) /\ seen' = seen
  <2>1. cap' = Timed(cap) /\ turns' = Tail(turns)
    BY <1>5 DEF Ends
  <2>2. /\ cap' \in Captures /\ cap'.has /\ ~cap'.enabled /\ ~cap'.armed /\ cap'.timer
        /\ Counted(cap', seen')
    BY <1>2, <1>5, <2>1, TimedCapture DEF Sound
  <2>3. Sound(cap', chromeSide') /\ SeenCounted'
    BY <1>5, <2>2, SideTypes DEF Sound, SeenCounted, Counted, CaptureInv
  <2> QED
    BY <1>3, <1>5, <2>1, <2>2, <2>3, EndKeeps
<1> QED
  BY <1>4, <1>5 DEF Reenables

LEMMA ClearTurnKeeps ==
    ASSUME CaptureInv, NEW kind \in {"clear", "read"}, ClearTurn(kind) PROVE CaptureInv'
<1>1. Runs(kind, "wait") /\ told' = told /\ chromeSide' = chromeSide /\ troubles' = troubles
  BY DEF ClearTurn
<1> USE <1>1, RunningTurn
<1>2. CASE /\ cap.has /\ seen' = cap.inflight /\ turns' = Tail(turns)
           /\ cap' = Cleared(cap) \/ cap' = Timed(Cleared(cap))
  <2>1. /\ cap' \in Captures /\ cap'.has /\ cap'.armed = cap.armed /\ cap'.enabled = cap.enabled
        /\ cap.timer => cap'.timer
        /\ Counted(cap', seen') /\ seen' \in Nat
    BY <1>2, ClearedCapture, TimedCapture
  <2>2. Sound(cap', chromeSide') /\ SeenCounted'
    BY <2>1 DEF Sound, SeenCounted, Counted
  <2>3. cap'.enabled => (chromeSide'.enabled /\ chromeSide'.held) \/ (LostQueued /\ turns[1].kind # "lost")
    BY <2>1 DEF CaptureInv, CapturesHear
  <2> QED
    BY <1>2, <2>1, <2>2, <2>3, EndKeeps
<1>3. CASE ~cap.has /\ Ends(cap) /\ seen' = seen
  <2>1. cap' = cap /\ turns' = Tail(turns)
    BY <1>3 DEF Ends
  <2>2. Sound(cap', chromeSide') /\ SeenCounted' /\ ~cap'.enabled
    BY <1>3, <2>1, NoneKept DEF Sound
  <2>3. ~told.lost => ~chromeSide.enabled /\ ~chromeSide.held
    BY <1>3 DEF CaptureInv, NothingHeld
  <2>4. ~told.lost => chromeSide = [held |-> FALSE, enabled |-> FALSE]
    BY <2>3, SideTypes DEF CaptureInv
  <2> QED
    BY <1>3, <2>1, <2>2, <2>4, EndKeeps
<1>4. (cap.has /\ seen' = cap.inflight /\ turns' = Tail(turns)
        /\ (cap' = Cleared(cap) \/ cap' = Timed(Cleared(cap))))
      \/ (~cap.has /\ Ends(cap) /\ seen' = seen)
  BY DEF ClearTurn, Ends
<1> QED
  BY <1>2, <1>3, <1>4

LEMMA StopTurnKeeps == ASSUME CaptureInv, StopTurn PROVE CaptureInv'
<1>1. /\ Runs("stop", "wait") /\ told' = told /\ chromeSide' = chromeSide
      /\ troubles' = troubles /\ seen' = seen
  BY DEF StopTurn, Still
<1> USE <1>1, RunningTurn
<1>2. CASE ~cap.has /\ Ends(cap)
  <2>1. cap' = cap /\ turns' = Tail(turns)
    BY <1>2 DEF Ends
  <2>2. Sound(cap', chromeSide') /\ SeenCounted' /\ ~cap'.enabled
    BY <1>2, <2>1, NoneKept DEF Sound
  <2>3. ~told.lost => ~chromeSide.enabled /\ ~chromeSide.held
    BY <1>2 DEF CaptureInv, NothingHeld
  <2>4. ~told.lost => chromeSide = [held |-> FALSE, enabled |-> FALSE]
    BY <2>3, SideTypes DEF CaptureInv
  <2> QED
    BY <1>2, <2>1, <2>2, <2>4, EndKeeps
<1>3. CASE cap.has /\ cap' = cap /\ (IF cap.enabled THEN Goes("disable") ELSE Goes("release"))
  <2>1. Sound(cap', chromeSide') /\ SeenCounted'
    BY <1>3 DEF Sound, SeenCounted, CaptureInv
  <2>2. cap'.enabled => (chromeSide'.enabled /\ chromeSide'.held) \/ LostQueued
    BY <1>3 DEF CaptureInv, CapturesHear
  <2>3. CASE cap.enabled
    <3>1. Goes("disable")
      BY <1>3, <2>3
    <3> QED
      BY <1>3, <2>1, <2>2, <2>3, <3>1, GoKeeps
  <2>4. CASE ~cap.enabled
    <3>1. Goes("release")
      BY <1>3, <2>4
    <3> QED
      BY <1>3, <2>1, <2>2, <2>4, <3>1, GoKeeps
  <2> QED
    BY <2>3, <2>4
<1>4. \/ ~cap.has /\ Ends(cap)
      \/ cap.has /\ cap' = cap /\ (IF cap.enabled THEN Goes("disable") ELSE Goes("release"))
  BY DEF StopTurn
<1> QED
  BY <1>2, <1>3, <1>4

LEMMA DisablesKeeps == ASSUME CaptureInv, Disables PROVE CaptureInv'
<1>1. told' = told /\ seen' = seen
  BY DEF Disables
<1>2. PICK kind \in {"start", "stop"} : Runs(kind, "disable")
  BY DEF Disables, Stopping
<1> USE <1>1, <1>2, RunningTurn
<1>3. cap.enabled /\ cap.has /\ ((chromeSide.enabled /\ chromeSide.held) \/ LostQueued)
  BY DEF CaptureInv, TurnsOrdered, CapturesHear
<1>4. troubles' \in Nat /\ troubles' >= troubles /\ (Trouble => troubles' > 0)
  BY Troubled DEF Disables, CaptureInv
<1>5. CASE /\ chromeSide.held /\ chromeSide' = [chromeSide EXCEPT !.enabled = FALSE]
           /\ cap' = [cap EXCEPT !.enabled = FALSE, !.armed = FALSE, !.inflight = 0,
                                 !.abandoned = @ + cap.inflight]
           /\ Goes("release")
  <2>1. /\ cap' \in Captures /\ ~cap'.armed /\ ~cap'.enabled /\ cap'.has /\ cap'.timer = cap.timer
        /\ Counted(cap', seen')
    <3>1. cap \in Captures /\ seen' \in Nat /\ Counted(cap, seen') /\ cap.has
      BY <1>3
    <3>2. PICK c, g : c = cap /\ g = cap'
      OBVIOUS
    <3>3. g = [c EXCEPT !.enabled = FALSE, !.armed = FALSE, !.inflight = 0,
                        !.abandoned = @ + c.inflight]
      BY ONLY <1>5, <3>2
    <3>4. /\ g \in Captures /\ ~g.armed /\ ~g.enabled /\ g.has = c.has /\ g.timer = c.timer
          /\ \A n \in Nat : Counted(c, n) => Counted(g, n)
      BY ONLY <3>1, <3>2, <3>3, DisabledCapture
    <3> QED
      BY ONLY <3>1, <3>2, <3>4
  <2>2. Sound(cap', chromeSide') /\ SeenCounted'
    BY <1>5, <2>1, SideTypes DEF Sound, SeenCounted, Counted, CaptureInv
  <2> QED
    BY <1>3, <1>4, <1>5, <2>1, <2>2, GoKeeps
<1>6. CASE /\ IF chromeSide.held THEN Trouble ELSE troubles' = troubles
           /\ Ends(Timed([cap EXCEPT !.armed = TRUE])) /\ chromeSide' = chromeSide
  <2>1. cap' = Timed([cap EXCEPT !.armed = TRUE]) /\ turns' = Tail(turns)
    BY <1>6 DEF Ends
  <2>2. /\ cap' \in Captures /\ cap'.armed /\ cap'.enabled /\ cap'.has /\ cap'.timer
        /\ Counted(cap', seen')
    <3>1. PICK f : f = [cap EXCEPT !.armed = TRUE]
      OBVIOUS
    <3>2. f \in Captures /\ f.armed /\ f.enabled /\ f.has /\ Counted(f, seen')
      BY <1>3, <3>1, ArmedCapture
    <3> QED
      BY <2>1, <3>1, <3>2, TimedCapture
  <2>3. Sound(cap', chromeSide') /\ SeenCounted'
    BY <1>6, <2>2 DEF Sound, SeenCounted, Counted
  <2>4. troubles' > 0
    BY <1>3, <1>4, <1>6
  <2> QED
    BY <1>3, <1>4, <1>6, <2>1, <2>2, <2>3, <2>4, EndKeeps
<1> QED
  BY <1>5, <1>6 DEF Disables

LEMMA ReleasesKeeps == ASSUME CaptureInv, Releases PROVE CaptureInv'
<1>1. told' = told /\ seen' = seen
  BY DEF Releases
<1>2. PICK kind \in {"start", "stop"} : Runs(kind, "release")
  BY DEF Releases, Stopping
<1> USE <1>1, <1>2, RunningTurn
<1>3. cap.has /\ ~cap.enabled
  BY DEF CaptureInv, TurnsOrdered
<1>4. troubles' \in Nat /\ troubles' >= troubles /\ (Trouble => troubles' > 0)
  BY Troubled DEF Releases, CaptureInv
<1>5. CASE chromeSide' = [held |-> FALSE, enabled |-> FALSE] /\ Ends(NoCapture)
  <2>1. cap' = NoCapture /\ turns' = Tail(turns)
    BY <1>5 DEF Ends
  <2>2. Sound(cap', chromeSide') /\ SeenCounted' /\ ~cap'.has /\ ~cap'.enabled
    BY <1>5, <2>1, SideTypes, CaptureHelpers DEF Sound, SeenCounted, CaptureInv
  <2> QED
    BY <1>4, <1>5, <2>1, <2>2, EndKeeps
<1>6. CASE Trouble /\ Ends(Timed(cap)) /\ chromeSide' = chromeSide
  <2>1. cap' = Timed(cap) /\ turns' = Tail(turns)
    BY <1>6 DEF Ends
  <2>2. /\ cap' \in Captures /\ cap'.has /\ ~cap'.enabled /\ ~cap'.armed /\ cap'.timer
        /\ Counted(cap', seen')
    BY <1>3, <2>1, TimedCapture DEF Sound
  <2>3. Sound(cap', chromeSide') /\ SeenCounted'
    BY <1>6, <2>2 DEF Sound, SeenCounted, Counted
  <2> QED
    BY <1>3, <1>4, <1>6, <2>1, <2>2, <2>3, EndKeeps
<1> QED
  BY <1>5, <1>6 DEF Releases

LEMMA LostTurnKeeps == ASSUME CaptureInv, LostTurn PROVE CaptureInv'
<1>1. /\ Runs("lost", "wait") /\ cap' = NoCapture /\ turns' = Tail(turns)
      /\ told' = told /\ chromeSide' = chromeSide /\ troubles' = troubles /\ seen' = seen
  BY DEF LostTurn, Still, Ends
<1> USE <1>1, RunningTurn
<1>2. Sound(cap', chromeSide') /\ SeenCounted' /\ ~cap'.has /\ ~cap'.enabled
  BY CaptureHelpers DEF Sound, SeenCounted
<1> QED
  BY <1>2, EndKeeps

LEMMA EventKeeps == ASSUME CaptureInv, RequestSent \/ RequestFinished PROVE CaptureInv'
<1> USE DEF CaptureInv
<1>1. cap \in Captures /\ cap.enabled /\ cap.has /\ seen \in Nat /\ Counted(cap, seen)
  BY DEF RequestSent, RequestFinished, Listening, CaptureTypeOK, CapturesHear, SeenCounted, Counted
<1>2. turns' = turns /\ chromeSide' = chromeSide /\ told' = told /\ troubles' = troubles
  BY DEF RequestSent, RequestFinished
<1>3. /\ cap.entries \in Nat /\ cap.inflight \in Nat /\ cap.dropped \in Nat /\ cap.abandoned \in Nat
      /\ cap.inflight + 1 \in Nat /\ cap.dropped + 1 \in Nat /\ cap.abandoned + 1 \in Nat
      /\ cap.entries + 1 \in Nat /\ (cap.inflight > 0 => cap.inflight - 1 \in Nat)
  <2>1. /\ cap.entries \in Nat /\ cap.inflight \in Nat /\ cap.dropped \in Nat /\ cap.abandoned \in Nat
    BY <1>1 DEF Captures
  <2> QED
    BY <2>1
<1>4. /\ cap' \in Captures /\ cap'.has = cap.has /\ cap'.armed = cap.armed
      /\ cap'.enabled = cap.enabled /\ cap'.timer = cap.timer
      /\ Counted(cap', seen') /\ seen' \in Nat
  <2>1. CASE seen' = seen + 1 /\ cap' = [cap EXCEPT !.inflight = @ + 1]
    <3>1. cap' \in Captures
      BY <1>1, <1>3, <2>1 DEF Captures
    <3>2. /\ cap'.has = cap.has /\ cap'.armed = cap.armed
          /\ cap'.enabled = cap.enabled /\ cap'.timer = cap.timer
      BY <1>1, <2>1 DEF Captures
    <3>3. /\ cap'.entries = cap.entries /\ cap'.inflight = cap.inflight + 1
          /\ cap'.dropped = cap.dropped /\ cap'.abandoned = cap.abandoned
      BY <1>1, <2>1 DEF Captures
    <3>4. Counted(cap', seen') /\ seen' \in Nat
      BY <1>1, <1>3, <2>1, <3>3 DEF Counted
    <3> QED
      BY <3>1, <3>2, <3>4
  <2>2. CASE seen' = seen + 1 /\ cap' = [cap EXCEPT !.dropped = @ + 1, !.abandoned = @ + 1]
    <3>1. cap' \in Captures
      BY <1>1, <1>3, <2>2 DEF Captures
    <3>2. /\ cap'.has = cap.has /\ cap'.armed = cap.armed
          /\ cap'.enabled = cap.enabled /\ cap'.timer = cap.timer
      BY <1>1, <2>2 DEF Captures
    <3>3. /\ cap'.entries = cap.entries /\ cap'.inflight = cap.inflight
          /\ cap'.dropped = cap.dropped + 1 /\ cap'.abandoned = cap.abandoned + 1
      BY <1>1, <2>2 DEF Captures
    <3>4. Counted(cap', seen') /\ seen' \in Nat
      BY <1>1, <1>3, <2>2, <3>3 DEF Counted
    <3> QED
      BY <3>1, <3>2, <3>4
  <2>3. CASE seen' = seen /\ cap.inflight > 0
             /\ cap' = [cap EXCEPT !.inflight = @ - 1, !.entries = @ + 1]
    <3>1. cap' \in Captures
      BY <1>1, <1>3, <2>3 DEF Captures
    <3>2. /\ cap'.has = cap.has /\ cap'.armed = cap.armed
          /\ cap'.enabled = cap.enabled /\ cap'.timer = cap.timer
      BY <1>1, <2>3 DEF Captures
    <3>3. /\ cap'.entries = cap.entries + 1 /\ cap'.inflight = cap.inflight - 1
          /\ cap'.dropped = cap.dropped /\ cap'.abandoned = cap.abandoned
      BY <1>1, <2>3 DEF Captures
    <3>4. Counted(cap', seen') /\ seen' \in Nat
      BY <1>1, <1>3, <2>3, <3>3 DEF Counted
    <3> QED
      BY <3>1, <3>2, <3>4
  <2>4. CASE seen' = seen /\ cap.inflight > 0
             /\ cap' = [cap EXCEPT !.inflight = @ - 1, !.dropped = @ + 1]
    <3>1. cap' \in Captures
      BY <1>1, <1>3, <2>4 DEF Captures
    <3>2. /\ cap'.has = cap.has /\ cap'.armed = cap.armed
          /\ cap'.enabled = cap.enabled /\ cap'.timer = cap.timer
      BY <1>1, <2>4 DEF Captures
    <3>3. /\ cap'.entries = cap.entries /\ cap'.inflight = cap.inflight - 1
          /\ cap'.dropped = cap.dropped + 1 /\ cap'.abandoned = cap.abandoned
      BY <1>1, <2>4 DEF Captures
    <3>4. Counted(cap', seen') /\ seen' \in Nat
      BY <1>1, <1>3, <2>4, <3>3 DEF Counted
    <3> QED
      BY <3>1, <3>2, <3>4
  <2> QED
    BY <2>1, <2>2, <2>3, <2>4 DEF RequestSent, RequestFinished
<1>5. CaptureTypeOK'
  BY <1>2, <1>4 DEF CaptureTypeOK
<1>6. TurnsOrdered' /\ LossesTold'
  BY <1>2, <1>4 DEF TurnsOrdered, LossesTold
<1>7. CapturesHear'
  BY <1>2, <1>4 DEF CapturesHear, LostQueued
<1>8. StopsComing' /\ NothingHeld'
  BY <1>2, <1>4 DEF StopsComing, NothingHeld
<1>9. StopsWin' /\ SeenCounted'
  BY <1>2, <1>4 DEF StopsWin, SeenCounted, Counted
<1> QED
  BY <1>5, <1>6, <1>7, <1>8, <1>9

\* A network capture agrees with Chrome, its timer and its counts whenever no call
\* is under way (background-cdp-network.ts).
THEOREM CapturesAgree == CaptureSpec => []CaptureAgrees
<1>1. CaptureInit => CaptureInv
  <2> SUFFICES ASSUME CaptureInit PROVE CaptureInv
    OBVIOUS
  <2>1. cap = NoCapture /\ turns = <<>> /\ seen = 0 /\ troubles = 0
        /\ chromeSide = [held |-> FALSE, enabled |-> FALSE]
        /\ told = [last |-> "none", lost |-> FALSE]
    BY DEF CaptureInit
  <2>2. CaptureTypeOK
    BY <2>1, CaptureHelpers DEF CaptureTypeOK
  <2>3. TurnsOrdered /\ LossesTold
    BY <2>1 DEF TurnsOrdered, LossesTold
  <2>4. CapturesHear
    BY <2>1, CaptureHelpers DEF CapturesHear
  <2>5. StopsComing /\ NothingHeld /\ StopsWin /\ SeenCounted
    BY <2>1, CaptureHelpers DEF StopsComing, NothingHeld, StopsWin, SeenCounted
  <2> QED
    BY <2>2, <2>3, <2>4, <2>5 DEF CaptureInv
<1>2. CaptureInv /\ [CaptureNext]_captureVars => CaptureInv'
  <2> SUFFICES ASSUME CaptureInv, [CaptureNext]_captureVars PROVE CaptureInv'
    OBVIOUS
  <2>1. CASE CaptureNext
    BY <2>1, StartCalledKeeps, ClearCalledKeeps, StopCalledKeeps, SessionLostKeeps,
       StartTurnKeeps, AcquiresKeeps, EnablesKeeps, UndoesKeeps, ReenablesKeeps, ClearTurnKeeps,
       StopTurnKeeps, DisablesKeeps, ReleasesKeeps, LostTurnKeeps, EventKeeps DEF CaptureNext
  <2>2. CASE UNCHANGED captureVars
    BY <2>2 DEF captureVars, CaptureInv, CaptureTypeOK, TurnsOrdered, LossesTold, CapturesHear,
                LostQueued, StopsComing, NothingHeld, StopsWin, SeenCounted
  <2> QED
    BY <2>1, <2>2
<1>3. CaptureInv => CaptureAgrees
  <2> SUFFICES ASSUME CaptureInv PROVE CaptureAgrees
    OBVIOUS
  <2>1. ASSUME turns = <<>> PROVE DOMAIN turns = {}
    BY <2>1
  <2>2. ASSUME turns = <<>>, cap.armed PROVE Listening /\ chromeSide.held
    BY <2>1, <2>2 DEF CaptureInv, CapturesHear, LostQueued, Listening
  <2>3. ASSUME turns = <<>>, cap.has PROVE cap.timer
    BY <2>1, <2>3 DEF CaptureInv, StopsComing
  <2>4. ASSUME turns = <<>>, ~cap.has, ~told.lost
        PROVE  chromeSide = [held |-> FALSE, enabled |-> FALSE]
    <3>1. ~chromeSide.enabled /\ ~chromeSide.held
      BY <2>4 DEF CaptureInv, NothingHeld
    <3> QED
      BY <3>1, SideTypes DEF CaptureInv
  <2>5. ASSUME turns = <<>>, told.last = "stop", troubles = 0 PROVE ~cap.has
    BY <2>1, <2>5 DEF CaptureInv, StopsWin
  <2>6. cap.has => seen <= cap.entries + cap.inflight + cap.dropped + cap.abandoned
    BY DEF CaptureInv, SeenCounted
  <2> QED
    BY <2>2, <2>3, <2>4, <2>5, <2>6 DEF CaptureAgrees
<1> QED
  BY <1>1, <1>2, <1>3, PTL DEF CaptureSpec

-----------------------------------------------------------------------------
(* A recording (background-recording.ts): Core says of the recording alone    *)
(* what its journal, its body reads and its stop know of one another, Places  *)
(* where start, poll and stop may be at the same time, PagesInv what they     *)
(* mean for the recorders in the pages and the captures held for them.        *)

Jobs == [seq : Nat, tab : Pages]
Entries == {<<"header">>, <<"end">>} \union ({"event", "body", "update"} \X Nat)
Recorders == [on : BOOLEAN, held : Nat, over : BOOLEAN]
Reasons == {"none", "revoked", "journal_backpressure", "event_quota", "capture_unavailable",
            "start_failed", "duration", "journal_write_failed", "requested",
            "debugger_detached", "stop_failed"}
Early == {"none", "network", "page", "activate"}
Late == {"pages", "bodies", "nets", "journal", "done"}

Recordings ==
    [durable : BOOLEAN, kept : BOOLEAN, clearing : BOOLEAN, active : BOOLEAN, reason : Reasons,
     start : Early \union {"journal", "failing", "done", "failed"},
     poll : {"off", "timer", "tabs", "joining", "child", "root", "got", "missing", "again"},
     stop : {"none", "wait"} \union Late,
     todo : SUBSET Pages, hand : Recorders, nets : SUBSET Pages, kids : SUBSET {Child},
     next : Nat, gaps : Nat, queue : Seq(Jobs), reads : SUBSET Jobs,
     journal : Seq(Entries), written : Nat, broken : BOOLEAN]

\* An event, a body and an update have a number.
Event(e) == e[1] = "event"
Answer(e) == e[1] \in {"body", "update"}

JournalInv(r) ==
    /\ r.written <= Len(r.journal)
    /\ \A n \in DOMAIN r.journal : r.journal[n][1] = "header" => n = 1
    /\ \A n \in DOMAIN r.journal : Event(r.journal[n]) => r.journal[n][2] < r.next
    /\ \A m, n \in DOMAIN r.journal :
         Event(r.journal[m]) /\ Event(r.journal[n]) /\ m < n => r.journal[m][2] < r.journal[n][2]
    /\ \A n \in DOMAIN r.journal : Answer(r.journal[n]) =>
         \E m \in DOMAIN r.journal : m < n /\ Event(r.journal[m]) /\ r.journal[m][2] = r.journal[n][2]

\* Each read, and each that waits, is of its own event, which the journal has.
Noted(r, job) ==
    /\ job.seq < r.next
    /\ r.durable /\ ~r.broken =>
         \E m \in DOMAIN r.journal : Event(r.journal[m]) /\ r.journal[m][2] = job.seq

JobsInv(r) ==
    /\ \A job \in r.reads : Noted(r, job)
    /\ \A n \in DOMAIN r.queue : Noted(r, r.queue[n])
    /\ \A n \in DOMAIN r.queue, job \in r.reads : job.seq < r.queue[n].seq
    /\ \A m, n \in DOMAIN r.queue : m < n => r.queue[m].seq < r.queue[n].seq
    /\ IsFiniteSet(r.reads) /\ Cardinality(r.reads) <= MaxReads
    /\ r.queue # <<>> => Cardinality(r.reads) = MaxReads

Ended(r) == \E n \in DOMAIN r.journal : r.journal[n][1] = "end"

EndInv(r) ==
    /\ \A n \in DOMAIN r.journal : r.journal[n][1] = "end" =>
         n = Len(r.journal) /\ r.stop \in {"journal", "done"}
    /\ r.stop \in {"journal", "done"} /\ r.durable /\ ~r.broken => Ended(r)

StopInv(r) ==
    /\ r.active => r.stop = "none" /\ r.reason = "none"
    /\ r.stop # "none" => r.reason # "none"

Core(r) == r \in Recordings /\ JournalInv(r) /\ JobsInv(r) /\ EndInv(r) /\ StopInv(r)

\* Where the three coroutines are at the same time.
Places(r) ==
    /\ r.active => r.start \notin Early
    /\ r.stop \in Late => r.start \in {"done", "failed"} /\ r.poll = "off"
    /\ r.start \in Early => /\ r.poll = "off" /\ r.kids = {} /\ r.reads = {}
                            /\ r.reason = "none" => r.journal = <<>>
    /\ r.start \in {"none", "network"} => r.nets = {}
    /\ r.poll \in {"joining", "child"} => Child \in r.kids
    /\ r.stop \in {"nets", "journal", "done"} => r.reads = {} /\ r.queue = <<>>
    /\ r.stop \in {"journal", "done"} => r.nets = {}
    /\ r.stop = "done" /\ ~r.broken => r.written = Len(r.journal)

PagesInv ==
    /\ page \in [Pages -> Recorders] /\ armed \subseteq rec.nets \union left.armed
    /\ \A t \in Pages : page[t].on => t \in rec.kids \union {Root} \union left.on
    /\ rec.stop = "pages" => \A t \in Pages : page[t].on /\ t \notin rec.todo => rec.gaps > 0 \/ t \in left.on
    /\ rec.stop \in Late \ {"pages"} => \A t \in Pages : page[t].on => rec.gaps > 0 \/ t \in left.on

RecordingInv == Core(rec) /\ Places(rec) /\ PagesInv

-----------------------------------------------------------------------------
(* What the helpers do to a recording                                         *)

SameFixed(r, s) ==
    /\ s.durable = r.durable /\ s.kept = r.kept /\ s.clearing = r.clearing /\ s.start = r.start
    /\ s.todo = r.todo /\ s.hand = r.hand /\ s.nets = r.nets /\ s.kids = r.kids
    /\ s.reads = r.reads /\ s.written = r.written
SameRun(r, s) ==
    /\ s.active = r.active /\ s.reason = r.reason /\ s.poll = r.poll /\ s.stop = r.stop
    /\ s.queue = r.queue
SameLog(r, s) == s.next = r.next /\ s.gaps = r.gaps /\ s.journal = r.journal /\ s.broken = r.broken

\* s is r after helpers: it may have stopped, and more is in the journal.
Recorded(r, s) ==
    /\ SameFixed(r, s)
    /\ s.gaps >= r.gaps /\ s.next >= r.next /\ (r.broken => s.broken)
    /\ s.poll = r.poll \/ s.poll = "off"
    /\ s.queue = r.queue \/ s.queue = <<>>
    /\ r.stop # "none" => s.stop = r.stop /\ s.active = r.active /\ s.reason = r.reason
                          /\ s.poll = r.poll
    /\ r.stop = "none" => \/ s.stop = "wait" /\ ~s.active /\ s.reason # "none"
                          \/ s.stop = "none" /\ s.active = r.active /\ s.reason = r.reason

LEMMA RecordedOrdered ==
    ASSUME NEW r \in Recordings, NEW s \in Recordings, NEW u \in Recordings
    PROVE  /\ Recorded(r, r)
           /\ Recorded(r, s) /\ Recorded(s, u) => Recorded(r, u)
<1>1. r.gaps \in Nat /\ r.next \in Nat /\ s.gaps \in Nat /\ s.next \in Nat /\ u.gaps \in Nat /\ u.next \in Nat
  BY DEF Recordings
<1>2. r.stop = "none" \/ r.stop # "none"
  OBVIOUS
<1>3. Recorded(r, r)
  BY <1>1 DEF Recorded, SameFixed
<1>4. ASSUME Recorded(r, s), Recorded(s, u) PROVE Recorded(r, u)
  <2>1. SameFixed(r, u)
    BY <1>4 DEF Recorded, SameFixed
  <2>2. u.gaps >= r.gaps /\ u.next >= r.next /\ (r.broken => u.broken)
    BY <1>1, <1>4 DEF Recorded
  <2>3. (u.poll = r.poll \/ u.poll = "off") /\ (u.queue = r.queue \/ u.queue = <<>>)
    BY <1>4 DEF Recorded
  <2>4. r.stop # "none" => u.stop = r.stop /\ u.active = r.active /\ u.reason = r.reason
                           /\ u.poll = r.poll
    BY <1>4 DEF Recorded
  <2>5. r.stop = "none" => \/ u.stop = "wait" /\ ~u.active /\ u.reason # "none"
                           \/ u.stop = "none" /\ u.active = r.active /\ u.reason = r.reason
    BY <1>4 DEF Recorded
  <2> QED
    BY <2>1, <2>2, <2>3, <2>4, <2>5 DEF Recorded
<1> QED
  BY <1>3, <1>4

\* One field at a time.
LEMMA RecordingFields ==
    ASSUME NEW r \in Recordings
    PROVE  /\ r.next \in Nat /\ r.gaps \in Nat /\ r.journal \in Seq(Entries) /\ r.written \in Nat
           /\ r.queue \in Seq(Jobs) /\ r.reads \subseteq Jobs /\ r.active \in BOOLEAN
           /\ r.broken \in BOOLEAN /\ r.durable \in BOOLEAN
  BY DEF Recordings

LEMMA BrokenField ==
    ASSUME NEW r \in Recordings, NEW s, s = [r EXCEPT !.broken = TRUE]
    PROVE  /\ s \in Recordings /\ SameFixed(r, s) /\ SameRun(r, s) /\ s.broken
           /\ s.next = r.next /\ s.gaps = r.gaps /\ s.journal = r.journal
<1>1. s \in Recordings
  BY DEF Recordings
<1>2. SameFixed(r, s)
  BY DEF Recordings, SameFixed
<1>3. SameRun(r, s)
  BY DEF Recordings, SameRun
<1>4. s.broken /\ s.next = r.next /\ s.gaps = r.gaps /\ s.journal = r.journal
  BY DEF Recordings
<1> QED
  BY <1>1, <1>2, <1>3, <1>4

LEMMA JournalField ==
    ASSUME NEW r \in Recordings, NEW j \in Seq(Entries), NEW s, s = [r EXCEPT !.journal = j]
    PROVE  /\ s \in Recordings /\ SameFixed(r, s) /\ SameRun(r, s) /\ s.journal = j
           /\ s.next = r.next /\ s.gaps = r.gaps /\ s.broken = r.broken
<1>1. s \in Recordings
  BY DEF Recordings
<1>2. SameFixed(r, s)
  BY DEF Recordings, SameFixed
<1>3. SameRun(r, s)
  BY DEF Recordings, SameRun
<1>4. s.broken = r.broken /\ s.next = r.next /\ s.gaps = r.gaps /\ s.journal = j
  BY DEF Recordings
<1> QED
  BY <1>1, <1>2, <1>3, <1>4

LEMMA NextField ==
    ASSUME NEW r \in Recordings, NEW s, s = [r EXCEPT !.next = @ + 1]
    PROVE  /\ s \in Recordings /\ SameFixed(r, s) /\ SameRun(r, s) /\ s.next = r.next + 1
           /\ s.gaps = r.gaps /\ s.journal = r.journal /\ s.broken = r.broken
<1> r.next + 1 \in Nat
  BY DEF Recordings
<1>1. s \in Recordings
  BY DEF Recordings
<1>2. SameFixed(r, s)
  BY DEF Recordings, SameFixed
<1>3. SameRun(r, s)
  BY DEF Recordings, SameRun
<1>4. s.broken = r.broken /\ s.next = r.next + 1 /\ s.gaps = r.gaps /\ s.journal = r.journal
  BY DEF Recordings
<1> QED
  BY <1>1, <1>2, <1>3, <1>4

LEMMA GapsField ==
    ASSUME NEW r \in Recordings, NEW s, s = [r EXCEPT !.gaps = @ + 1]
    PROVE  /\ s \in Recordings /\ SameFixed(r, s) /\ SameRun(r, s) /\ s.gaps = r.gaps + 1
           /\ s.next = r.next /\ s.journal = r.journal /\ s.broken = r.broken
<1> r.gaps + 1 \in Nat
  BY DEF Recordings
<1>1. s \in Recordings
  BY DEF Recordings
<1>2. SameFixed(r, s)
  BY DEF Recordings, SameFixed
<1>3. SameRun(r, s)
  BY DEF Recordings, SameRun
<1>4. s.broken = r.broken /\ s.next = r.next /\ s.gaps = r.gaps + 1 /\ s.journal = r.journal
  BY DEF Recordings
<1> QED
  BY <1>1, <1>2, <1>3, <1>4

LEMMA HaltFields ==
    ASSUME NEW r \in Recordings, NEW why \in Reasons \ {"none"}, NEW s, s = Halt(r, why)
    PROVE  /\ s \in Recordings /\ SameFixed(r, s) /\ SameLog(r, s)
           /\ r.stop # "none" => s = r
           /\ r.stop = "none" => /\ s.stop = "wait" /\ ~s.active /\ s.reason = why
                                 /\ s.poll = r.poll \/ s.poll = "off"
                                 /\ r.poll = "timer" => s.poll = "off"
                                 /\ s.queue = r.queue \/ s.queue = <<>>
<1>1. CASE r.stop # "none"
  BY <1>1 DEF Halt, SameFixed, SameLog
<1>2. CASE r.stop = "none"
  <2> DEFINE p == IF r.poll = "timer" THEN "off" ELSE r.poll
             q == IF why = "revoked" THEN <<>> ELSE r.queue
  <2>1. s = [r EXCEPT !.stop = "wait", !.active = FALSE, !.reason = why, !.poll = p, !.queue = q]
    BY <1>2 DEF Halt
  <2>2. /\ p \in {"off", "timer", "tabs", "joining", "child", "root", "got", "missing", "again"}
        /\ q \in Seq(Jobs)
        /\ p = r.poll \/ p = "off"
    BY DEF Recordings
  <2>3. (r.poll = "timer" => p = "off") /\ (q = r.queue \/ q = <<>>)
    OBVIOUS
  <2> HIDE DEF p, q
  <2>4. s \in Recordings
    BY <2>1, <2>2, ZenonT(30) DEF Recordings
  <2>5. SameFixed(r, s)
    BY <2>1 DEF Recordings, SameFixed
  <2>6. SameLog(r, s)
    BY <2>1 DEF Recordings, SameLog
  <2>7. s.stop = "wait" /\ ~s.active /\ s.reason = why
    BY <2>1 DEF Recordings
  <2>8. s.poll = p /\ s.queue = q
    BY <2>1 DEF Recordings
  <2> QED
    BY <1>2, <2>2, <2>3, <2>4, <2>5, <2>6, <2>7, <2>8
<1> QED
  BY <1>1, <1>2

\* What Core asks of the fields: they may change as long as this holds.
LEMMA CoreSame ==
    ASSUME NEW r, Core(r), NEW s \in Recordings,
           s.durable = r.durable, s.reads = r.reads, s.written = r.written,
           s.next = r.next, s.journal = r.journal, s.broken = r.broken,
           s.queue = r.queue \/ s.queue = <<>>, StopInv(s),
           s.stop \in {"journal", "done"} <=> r.stop \in {"journal", "done"}
    PROVE  Core(s)
<1>1. JournalInv(s)
  BY DEF Core, JournalInv
<1>2. JobsInv(s)
  <2>1. CASE s.queue = r.queue
    BY <2>1 DEF Core, JobsInv, Noted
  <2>2. CASE s.queue = <<>>
    BY <2>2 DEF Core, JobsInv, Noted
  <2> QED
    BY <2>1, <2>2
<1>3. EndInv(s)
  BY DEF Core, EndInv, Ended
<1> QED
  BY <1>1, <1>2, <1>3 DEF Core

LEMMA HaltCore ==
    ASSUME NEW r, Core(r), NEW why \in Reasons \ {"none"}, NEW s, s = Halt(r, why)
    PROVE  /\ Core(s) /\ Recorded(r, s) /\ s.gaps = r.gaps /\ s.stop # "none" /\ ~s.active
           /\ s.reason # "none"
<1>1. r \in Recordings /\ r.gaps \in Nat /\ r.next \in Nat
  BY RecordingFields DEF Core
<1>2. /\ s \in Recordings /\ SameFixed(r, s) /\ SameLog(r, s)
      /\ r.stop # "none" => s = r
      /\ r.stop = "none" => /\ s.stop = "wait" /\ ~s.active /\ s.reason = why
                            /\ s.poll = r.poll \/ s.poll = "off"
                            /\ s.queue = r.queue \/ s.queue = <<>>
  BY <1>1, HaltFields
<1>3. CASE r.stop # "none"
  <2>1. s = r /\ ~r.active /\ r.reason # "none"
    BY <1>2, <1>3 DEF Core, StopInv
  <2> QED
    BY <1>1, <1>3, <2>1, RecordedOrdered
<1>4. CASE r.stop = "none"
  <2>1. StopInv(s)
    BY <1>2, <1>4 DEF StopInv
  <2>2. Core(s)
    BY <1>2, <1>4, <2>1, CoreSame DEF SameFixed, SameLog
  <2>3. Recorded(r, s)
    BY <1>1, <1>2, <1>4 DEF Recorded, SameLog
  <2> QED
    BY <1>2, <1>4, <2>2, <2>3 DEF SameLog
<1> QED
  BY <1>3, <1>4

LEMMA Appended ==
    ASSUME NEW j \in Seq(Entries), NEW e \in Entries, NEW k, k = Append(j, e)
    PROVE  /\ k \in Seq(Entries) /\ Len(k) = Len(j) + 1 /\ Len(j) \in Nat
           /\ Len(k) \in DOMAIN k /\ k[Len(k)] = e
           /\ \A n \in DOMAIN j : n \in DOMAIN k /\ k[n] = j[n] /\ n < Len(k) /\ n \in Nat
           /\ \A n \in DOMAIN k : n \in DOMAIN j \/ n = Len(k)
<1>1. k \in Seq(Entries) /\ Len(k) = Len(j) + 1 /\ Len(j) \in Nat
  OBVIOUS
<1>2. DOMAIN j = 1..Len(j) /\ DOMAIN k = 1..Len(k)
  BY <1>1
<1>3. k[Len(k)] = e /\ \A n \in DOMAIN j : k[n] = j[n]
  BY <1>1, <1>2
<1> QED
  BY <1>1, <1>2, <1>3

\* An entry may follow what a journal has: an event a smaller number, an answer its event.
Follows(r, e) ==
    /\ e \in Entries /\ e[1] # "end"
    /\ e[1] = "header" => r.journal = <<>>
    /\ Event(e) => /\ e[2] < r.next
                   /\ \A n \in DOMAIN r.journal : Event(r.journal[n]) => r.journal[n][2] < e[2]
    /\ Answer(e) /\ r.durable /\ ~r.broken =>
         \E m \in DOMAIN r.journal : Event(r.journal[m]) /\ r.journal[m][2] = e[2]

LEMMA PersistCore ==
    ASSUME NEW r, Core(r), r.stop \notin {"journal", "done"}, NEW e, Follows(r, e),
           NEW s, s = Persist(r, e)
    PROVE  /\ Core(s) /\ Recorded(r, s) /\ s.next = r.next /\ s.gaps = r.gaps
           /\ \A m \in DOMAIN r.journal : m \in DOMAIN s.journal /\ s.journal[m] = r.journal[m]
           /\ s.durable /\ ~s.broken => \E m \in DOMAIN s.journal : s.journal[m] = e
<1>1. r \in Recordings /\ r.journal \in Seq(Entries) /\ r.next \in Nat /\ e \in Entries
      /\ r.gaps \in Nat /\ r.written \in Nat
  BY RecordingFields DEF Core, Follows
<1>2. CASE ~r.durable \/ r.broken
  <2>1. s = r
    BY <1>2 DEF Persist
  <2> QED
    BY <1>1, <1>2, <2>1, RecordedOrdered
<1>3. CASE r.durable /\ ~r.broken /\ Len(r.journal) - r.written >= MaxWaiting
  <2>1. PICK b : b = [r EXCEPT !.broken = TRUE]
    OBVIOUS
  <2>2. s = Halt(b, "journal_backpressure")
    BY <1>3, <2>1 DEF Persist
  <2>3. /\ b \in Recordings /\ SameFixed(r, b) /\ SameRun(r, b) /\ b.broken
        /\ b.next = r.next /\ b.gaps = r.gaps /\ b.journal = r.journal
    BY <1>1, <2>1, BrokenField
  <2>4. Core(b)
    <3>1. JournalInv(b)
      BY <2>3 DEF Core, JournalInv, SameFixed
    <3>2. JobsInv(b)
      BY <2>3 DEF Core, JobsInv, Noted, SameFixed, SameRun
    <3>3. EndInv(b) /\ StopInv(b)
      BY <2>3 DEF Core, EndInv, StopInv, Ended, SameRun
    <3> QED
      BY <2>3, <3>1, <3>2, <3>3 DEF Core
  <2>5. Recorded(r, b)
    BY <1>1, <2>3 DEF Recorded, SameRun
  <2>6. Core(s) /\ Recorded(b, s) /\ s.gaps = b.gaps
    BY <2>2, <2>4, HaltCore DEF Reasons
  <2>7. s \in Recordings /\ SameLog(b, s)
    BY <2>2, <2>3, HaltFields DEF Reasons
  <2>8. Recorded(r, s)
    BY <1>1, <2>3, <2>5, <2>6, <2>7, RecordedOrdered
  <2> QED
    BY <2>3, <2>6, <2>7, <2>8 DEF SameLog
<1>4. CASE r.durable /\ ~r.broken /\ ~(Len(r.journal) - r.written >= MaxWaiting)
  <2>1. PICK k : k = Append(r.journal, e)
    OBVIOUS
  <2>2. s = [r EXCEPT !.journal = k]
    BY <1>4, <2>1 DEF Persist
  <2>3. /\ k \in Seq(Entries) /\ Len(k) = Len(r.journal) + 1 /\ Len(r.journal) \in Nat
        /\ Len(k) \in DOMAIN k /\ k[Len(k)] = e
        /\ \A n \in DOMAIN r.journal : n \in DOMAIN k /\ k[n] = r.journal[n] /\ n < Len(k) /\ n \in Nat
        /\ \A n \in DOMAIN k : n \in DOMAIN r.journal \/ n = Len(k)
    <3> HIDE DEF Entries
    <3>1. PICK j : j = r.journal
      OBVIOUS
    <3>2. j \in Seq(Entries) /\ e \in Entries /\ k = Append(j, e)
      BY <1>1, <2>1, <3>1
    <3>3. /\ k \in Seq(Entries) /\ Len(k) = Len(j) + 1 /\ Len(j) \in Nat
          /\ Len(k) \in DOMAIN k /\ k[Len(k)] = e
          /\ \A n \in DOMAIN j : n \in DOMAIN k /\ k[n] = j[n] /\ n < Len(k) /\ n \in Nat
          /\ \A n \in DOMAIN k : n \in DOMAIN j \/ n = Len(k)
      BY ONLY <3>2, Appended
    <3> QED
      BY ONLY <3>1, <3>3
  <2>4. /\ s \in Recordings /\ SameFixed(r, s) /\ SameRun(r, s) /\ s.journal = k
        /\ s.next = r.next /\ s.gaps = r.gaps /\ s.broken = r.broken
    BY <1>1, <2>2, <2>3, JournalField
  <2>5. JournalInv(s)
    <3>1. s.written <= Len(k)
      BY <1>1, <2>3, <2>4 DEF Core, JournalInv, SameFixed
    <3>2. \A n \in DOMAIN k : k[n][1] = "header" => n = 1
      BY <2>3 DEF Core, JournalInv, Follows
    <3>3. \A n \in DOMAIN k : Event(k[n]) => k[n][2] < s.next
      BY <2>3, <2>4 DEF Core, JournalInv, Follows
    <3>4. ASSUME NEW m \in DOMAIN k, NEW n \in DOMAIN k, Event(k[m]), Event(k[n]), m < n
          PROVE  k[m][2] < k[n][2]
      <4>1. m \in DOMAIN r.journal
        BY <2>3, <3>4
      <4>2. CASE n \in DOMAIN r.journal
        BY <2>3, <3>4, <4>1, <4>2 DEF Core, JournalInv
      <4>3. CASE n = Len(k)
        BY <2>3, <3>4, <4>1, <4>3 DEF Follows
      <4> QED
        BY <2>3, <4>2, <4>3
    <3>5. ASSUME NEW n \in DOMAIN k, Answer(k[n])
          PROVE  \E m \in DOMAIN k : m < n /\ Event(k[m]) /\ k[m][2] = k[n][2]
      <4>1. CASE n \in DOMAIN r.journal
        <5>1. k[n] = r.journal[n]
          BY <2>3, <4>1
        <5>2. PICK m \in DOMAIN r.journal : m < n /\ Event(r.journal[m]) /\ r.journal[m][2] = r.journal[n][2]
          BY <3>5, <4>1, <5>1 DEF Core, JournalInv
        <5> QED
          BY <2>3, <5>1, <5>2
      <4>2. CASE n = Len(k)
        <5>1. PICK m \in DOMAIN r.journal : Event(r.journal[m]) /\ r.journal[m][2] = e[2]
          BY <1>4, <2>3, <3>5, <4>2 DEF Follows
        <5> QED
          BY <2>3, <4>2, <5>1
      <4> QED
        BY <2>3, <4>1, <4>2
    <3> QED
      BY <2>4, <3>1, <3>2, <3>3, <3>4, <3>5 DEF JournalInv
  <2>6. JobsInv(s)
    <3>1. ASSUME NEW job, Noted(r, job) PROVE Noted(s, job)
      BY <1>4, <2>3, <2>4, <3>1 DEF Noted, SameFixed
    <3> QED
      BY <2>4, <3>1 DEF Core, JobsInv, SameFixed, SameRun
  <2>7. EndInv(s) /\ StopInv(s)
    <3>1. \A n \in DOMAIN r.journal : r.journal[n][1] # "end"
      BY DEF Core, EndInv
    <3>2. \A n \in DOMAIN k : k[n][1] # "end"
      BY <2>3, <3>1 DEF Follows
    <3> QED
      BY <2>4, <3>2 DEF Core, EndInv, StopInv, SameRun
  <2>8. Core(s)
    BY <2>4, <2>5, <2>6, <2>7 DEF Core
  <2>9. Recorded(r, s)
    BY <1>1, <2>4 DEF Recorded, SameRun
  <2> QED
    BY <2>3, <2>4, <2>8, <2>9
<1> QED
  BY <1>2, <1>3, <1>4

LEMMA RecordsCore ==
    ASSUME NEW r, Core(r), r.stop \notin {"journal", "done"}, NEW s, s = Records(r)
    PROVE  /\ Core(s) /\ Recorded(r, s) /\ s.gaps = r.gaps
           /\ ~Full(r) => s.next = r.next + 1
           /\ ~Full(r) /\ s.durable /\ ~s.broken =>
                \E m \in DOMAIN s.journal : Event(s.journal[m]) /\ s.journal[m][2] = r.next
<1>1. r \in Recordings /\ r.next \in Nat /\ r.gaps \in Nat /\ r.journal \in Seq(Entries)
  BY RecordingFields DEF Core
<1>2. CASE Full(r) /\ r.active
  <2>1. s = Halt(r, "event_quota")
    BY <1>2 DEF Records
  <2> QED
    BY <1>2, <2>1, HaltCore DEF Reasons
<1>3. CASE Full(r) /\ ~r.active
  <2>1. s = r
    BY <1>3 DEF Records
  <2> QED
    BY <1>1, <1>3, <2>1, RecordedOrdered
<1>4. CASE ~Full(r)
  <2>1. PICK b : b = [r EXCEPT !.next = @ + 1]
    OBVIOUS
  <2>2. PICK e : e = <<"event", r.next>>
    OBVIOUS
  <2>3. s = Persist(b, e)
    BY <1>4, <2>1, <2>2 DEF Records
  <2>4. /\ b \in Recordings /\ SameFixed(r, b) /\ SameRun(r, b) /\ b.next = r.next + 1
        /\ b.gaps = r.gaps /\ b.journal = r.journal /\ b.broken = r.broken
    BY <1>1, <2>1, NextField
  <2>5. e \in Entries /\ e[1] = "event" /\ e[2] = r.next
    BY <1>1, <2>2 DEF Entries
  <2>6. Core(b)
    <3>1. JournalInv(b)
      <4>1. \A n \in DOMAIN r.journal : Event(r.journal[n]) => r.journal[n][2] < b.next
        <5> SUFFICES ASSUME NEW n \in DOMAIN r.journal, Event(r.journal[n])
                     PROVE  r.journal[n][2] < b.next
          OBVIOUS
        <5>1. r.journal[n] \in Entries
          BY <1>1
        <5>2. r.journal[n][2] \in Nat
          BY <5>1 DEF Entries, Event
        <5>3. r.journal[n][2] < r.next
          BY DEF Core, JournalInv
        <5> QED
          BY <1>1, <2>4, <5>2, <5>3
      <4> QED
        BY <2>4, <4>1 DEF Core, JournalInv, SameFixed
    <3>2. JobsInv(b)
      <4>1. ASSUME NEW job \in Jobs, Noted(r, job) PROVE Noted(b, job)
        <5>1. job.seq \in Nat /\ job.seq < b.next
          BY <1>1, <2>4, <4>1 DEF Noted, Jobs
        <5> QED
          BY <2>4, <4>1, <5>1 DEF Noted, SameFixed
      <4>2. r.reads \subseteq Jobs /\ \A n \in DOMAIN r.queue : r.queue[n] \in Jobs
        BY <1>1, RecordingFields
      <4> QED
        BY <2>4, <4>1, <4>2 DEF Core, JobsInv, SameFixed, SameRun
    <3>3. EndInv(b) /\ StopInv(b)
      BY <2>4 DEF Core, EndInv, StopInv, Ended, SameRun, SameFixed
    <3> QED
      BY <2>4, <3>1, <3>2, <3>3 DEF Core
  <2>7. Follows(b, e)
    BY <1>1, <2>4, <2>5 DEF Follows, Event, Answer, Core, JournalInv
  <2>8. Recorded(r, b)
    BY <1>1, <2>4 DEF Recorded, SameRun
  <2>9. b.stop \notin {"journal", "done"}
    BY <2>4 DEF SameRun
  <2>10. /\ Core(s) /\ Recorded(b, s) /\ s.next = b.next /\ s.gaps = b.gaps
         /\ s.durable /\ ~s.broken => \E m \in DOMAIN s.journal : s.journal[m] = e
    BY <2>3, <2>6, <2>7, <2>9, PersistCore
  <2>11. Recorded(r, s)
    BY <1>1, <2>4, <2>8, <2>10, RecordedOrdered DEF Core
  <2>12. s.durable /\ ~s.broken =>
           \E m \in DOMAIN s.journal : Event(s.journal[m]) /\ s.journal[m][2] = r.next
    BY <2>5, <2>10 DEF Event
  <2> QED
    BY <2>4, <2>10, <2>11, <2>12
<1> QED
  BY <1>2, <1>3, <1>4

LEMMA GapCore ==
    ASSUME NEW r, Core(r), r.stop \notin {"journal", "done"}, NEW s, s = Gap(r)
    PROVE  Core(s) /\ Recorded(r, s) /\ s.gaps > 0
<1>1. r \in Recordings /\ r.next \in Nat /\ r.gaps \in Nat
  BY RecordingFields DEF Core
<1>2. PICK b : b = [r EXCEPT !.gaps = @ + 1]
  OBVIOUS
<1>3. s = Records(b)
  BY <1>2 DEF Gap
<1>4. /\ b \in Recordings /\ SameFixed(r, b) /\ SameRun(r, b) /\ b.gaps = r.gaps + 1
      /\ b.next = r.next /\ b.journal = r.journal /\ b.broken = r.broken
  BY <1>1, <1>2, GapsField
<1>5. StopInv(b) /\ b.stop = r.stop
  BY <1>4 DEF Core, StopInv, SameRun
<1>6. Core(b)
  BY <1>4, <1>5, CoreSame DEF SameFixed, SameRun
<1>7. Core(s) /\ Recorded(b, s) /\ s.gaps = b.gaps
  BY <1>3, <1>5, <1>6, RecordsCore
<1>8. Recorded(r, b)
  BY <1>1, <1>4 DEF Recorded, SameRun
<1>9. Recorded(r, s)
  BY <1>1, <1>4, <1>7, <1>8, RecordedOrdered DEF Core
<1> QED
  BY <1>1, <1>4, <1>7, <1>9

LEMMA IngestsCore ==
    ASSUME NEW r, Core(r), r.stop \notin {"journal", "done"}, NEW got, NEW s, s = Ingests(r, got)
    PROVE  Core(s) /\ Recorded(r, s)
<1>1. r \in Recordings
  BY DEF Core
<1>2. PICK m : m = IF got.over THEN Gap(r) ELSE r
  OBVIOUS
<1>3. Core(m) /\ Recorded(r, m)
  BY <1>1, <1>2, GapCore, RecordedOrdered
<1>4. m.stop \notin {"journal", "done"}
  BY <1>3 DEF Recorded
<1>5. s = Records(m) \/ s = m
  BY <1>2 DEF Ingests
<1>6. Core(s) /\ (s = m \/ Recorded(m, s))
  BY <1>3, <1>4, <1>5, RecordsCore
<1> QED
  BY <1>1, <1>3, <1>6, RecordedOrdered DEF Core

SameData(r, s) ==
    /\ s.durable = r.durable /\ s.reads = r.reads /\ s.written = r.written /\ s.next = r.next
    /\ s.gaps = r.gaps /\ s.journal = r.journal /\ s.broken = r.broken /\ s.queue = r.queue
SameStop(r, s) == s.active = r.active /\ s.reason = r.reason /\ s.stop = r.stop /\ s.todo = r.todo
SameStart(r, s) == s.start = r.start /\ s.kept = r.kept /\ s.clearing = r.clearing
SameTabs(r, s) == s.nets = r.nets /\ s.kids = r.kids

LEMMA CoreKept ==
    ASSUME NEW r, Core(r), NEW s \in Recordings, SameData(r, s), SameStop(r, s)
    PROVE  Core(s)
<1>1. StopInv(s)
  BY DEF Core, StopInv, SameStop
<1> QED
  BY <1>1, CoreSame DEF SameData, SameStop

LEMMA RecorderTypes == NoRecorder \in Recorders /\ Recorder \in Recorders /\ ~NoRecorder.on
  BY DEF NoRecorder, Recorder, Recorders

\* A helper that records leaves the places as they were, and may stop the recording.
LEMMA PlacesRecorded ==
    ASSUME NEW r, NEW s, Core(r), Core(s), Places(r), Recorded(r, s), r.stop \notin {"journal", "done"},
           r.start \in Early => s.reason # "none"
    PROVE  Places(s)
<1>1. r.stop \in {"none", "wait"} \union Late /\ s.stop \in {"none", "wait"} \union Late
  BY DEF Core, Recordings
<1>2. s.stop = r.stop \/ s.stop \in {"none", "wait"}
  BY DEF Recorded
<1>3. s.active => r.active
  BY DEF Recorded
<1>4. s.start = r.start /\ s.kids = r.kids /\ s.nets = r.nets /\ s.reads = r.reads
  BY DEF Recorded, SameFixed
<1>5. (s.poll = r.poll \/ s.poll = "off") /\ (s.queue = r.queue \/ s.queue = <<>>)
  BY DEF Recorded
<1>6. s.active => s.start \notin Early
  BY <1>3, <1>4 DEF Places
<1>7. s.stop \in Late => s.start \in {"done", "failed"} /\ s.poll = "off"
  BY <1>2, <1>4, <1>5 DEF Places, Late
<1>8. s.start \in Early => /\ s.poll = "off" /\ s.kids = {} /\ s.reads = {}
                           /\ s.reason = "none" => s.journal = <<>>
  BY <1>4, <1>5 DEF Places
<1>9. /\ s.start \in {"none", "network"} => s.nets = {}
      /\ s.poll \in {"joining", "child"} => Child \in s.kids
  BY <1>4, <1>5 DEF Places
<1>10. s.stop \in {"nets", "journal", "done"} => s.reads = {} /\ s.queue = <<>>
  BY <1>2, <1>4, <1>5 DEF Places
<1>11. s.stop \notin {"journal", "done"}
  BY <1>2
<1> QED
  BY <1>6, <1>7, <1>8, <1>9, <1>10, <1>11 DEF Places

\* The pages: none is turned on, and the stop does not go on.
LEMMA PagesKept ==
    ASSUME PagesInv, rec.gaps \in Nat, rec'.gaps \in Nat,
           page' \in [Pages -> Recorders], \A t \in Pages : page'[t].on => page[t].on,
           armed' \subseteq rec'.nets \union left.armed, left' = left, rec'.kids = rec.kids, rec'.gaps >= rec.gaps,
           (rec'.stop = rec.stop /\ rec'.todo = rec.todo) \/ rec'.stop \in {"none", "wait"}
    PROVE  PagesInv'
  BY DEF PagesInv, Late

\* The pages, while no stop visits them.
LEMMA PagesOpen ==
    ASSUME page' \in [Pages -> Recorders], armed' \subseteq rec'.nets \union left'.armed,
           \A t \in Pages : page'[t].on => t \in rec'.kids \union {Root} \union left'.on,
           rec'.stop \notin Late
    PROVE  PagesInv'
  BY DEF PagesInv, Late

\* Only the recording changes, by helpers.
LEMMA RecordedKeeps ==
    ASSUME RecordingInv, Core(rec'), Recorded(rec, rec'), rec.stop \notin {"journal", "done"},
           rec.start \in Early => rec'.reason # "none",
           page' = page, armed' \subseteq armed /\ left' = left
    PROVE  RecordingInv'
<1>1. rec \in Recordings /\ rec' \in Recordings
  BY DEF RecordingInv, Core
<1>2. rec.gaps \in Nat /\ rec'.gaps \in Nat
  BY <1>1 DEF Recordings
<1>3. Places(rec')
  BY PlacesRecorded DEF RecordingInv
<1>4. armed' \subseteq rec'.nets \union left'.armed
  BY DEF RecordingInv, PagesInv, Recorded, SameFixed
<1>5. PagesInv'
  BY <1>2, <1>4, PagesKept DEF RecordingInv, PagesInv, Recorded, SameFixed
<1> QED
  BY <1>3, <1>5 DEF RecordingInv

LEMMA HaltKeeps ==
    ASSUME RecordingInv, NEW why \in Reasons \ {"none"}, rec' = Halt(rec, why),
           page' = page, armed' \subseteq armed /\ left' = left
    PROVE  RecordingInv'
<1>1. Core(rec') /\ Recorded(rec, rec') /\ rec'.reason # "none"
  BY HaltCore DEF RecordingInv
<1>2. CASE rec.stop \in {"journal", "done"}
  <2>1. rec' = rec
    BY <1>2 DEF Halt
  <2>2. PagesInv'
    BY <2>1 DEF RecordingInv, PagesInv
  <2> QED
    BY <2>1, <2>2 DEF RecordingInv
<1>3. CASE rec.stop \notin {"journal", "done"}
  BY <1>1, <1>3, RecordedKeeps
<1> QED
  BY <1>2, <1>3

-----------------------------------------------------------------------------
(* The start                                                                  *)

LEMMA StartsKeeps == ASSUME RecordingInv, Starts PROVE RecordingInv'
<1>1. /\ rec' = [rec EXCEPT !.start = "network", !.kept = TRUE] /\ rec.start = "none"
      /\ page' = page /\ armed' = armed /\ left' = left /\ rec \in Recordings
  BY DEF Starts, Inside, Outside, RecordingInv, Core
<1>2. rec' \in Recordings
  BY <1>1 DEF Recordings, Early
<1>3. SameData(rec, rec') /\ SameStop(rec, rec')
  BY <1>1 DEF Recordings, SameData, SameStop
<1>4. SameTabs(rec, rec') /\ rec'.poll = rec.poll /\ rec'.start = "network"
  BY <1>1 DEF Recordings, SameTabs
<1>5. Core(rec')
  BY <1>2, <1>3, CoreKept DEF RecordingInv
<1>6. Places(rec')
  BY <1>1, <1>3, <1>4 DEF RecordingInv, Places, Early, SameData, SameStop, SameTabs
<1>7. rec.gaps \in Nat
  BY <1>1 DEF Recordings
<1>8. PagesInv'
  BY <1>1, <1>3, <1>4, <1>7, PagesKept DEF RecordingInv, PagesInv, SameData, SameStop, SameTabs
<1> QED
  BY <1>5, <1>6, <1>8 DEF RecordingInv

\* Only where the start is changes.
LEMMA StartMoves ==
    ASSUME RecordingInv, NEW place \in Early \union {"journal", "failing", "done"},
           rec' = [rec EXCEPT !.start = place], page' \in [Pages -> Recorders], armed' = armed /\ left' = left,
           \/ rec.start \in {"network", "page", "activate"} /\ place = "failing"
           \/ rec.start \in {"page", "activate"} /\ place = "activate"
           \/ rec.start = "journal" /\ place \in {"failing", "done"},
           \A t \in Pages : page'[t].on => page[t].on \/ t = Root
    PROVE  RecordingInv'
<1>1. rec \in Recordings
  BY DEF RecordingInv, Core
<1>2. rec' \in Recordings
  BY <1>1 DEF Recordings
<1>3. SameData(rec, rec') /\ SameStop(rec, rec')
  BY <1>1 DEF Recordings, SameData, SameStop
<1>4. SameTabs(rec, rec') /\ rec'.poll = rec.poll /\ rec'.start = place
  BY <1>1 DEF Recordings, SameTabs
<1>5. Core(rec')
  BY <1>2, <1>3, CoreKept DEF RecordingInv
<1>6. rec.stop \notin Late
  BY DEF RecordingInv, Places
<1>7. Places(rec')
  BY <1>3, <1>4, <1>6 DEF RecordingInv, Places, Early, Late, SameData, SameStop, SameTabs
<1>8. PagesInv'
  BY <1>3, <1>4, <1>6, PagesOpen DEF RecordingInv, PagesInv, SameStop, SameTabs
<1> QED
  BY <1>5, <1>7, <1>8 DEF RecordingInv

LEMMA TakesNetworkKeeps == ASSUME RecordingInv, TakesNetwork PROVE RecordingInv'
<1>1. /\ page' = page /\ left' = left /\ rec.start = "network" /\ rec \in Recordings
      /\ page \in [Pages -> Recorders]
  BY DEF TakesNetwork, Outside, RecordingInv, Core, PagesInv
<1>2. CASE armed' = armed \union {Root} /\ rec' = [rec EXCEPT !.nets = {Root}, !.start = "page"]
  <2>1. rec' \in Recordings
    BY <1>1, <1>2 DEF Recordings, Early, Pages
  <2>2. SameData(rec, rec') /\ SameStop(rec, rec')
    BY <1>1, <1>2 DEF Recordings, SameData, SameStop
  <2>3. rec'.nets = {Root} /\ rec'.kids = rec.kids /\ rec'.poll = rec.poll /\ rec'.start = "page"
    BY <1>1, <1>2 DEF Recordings
  <2>4. Core(rec')
    BY <2>1, <2>2, CoreKept DEF RecordingInv
  <2>5. rec.stop \notin Late /\ rec.nets = {}
    BY <1>1 DEF RecordingInv, Places
  <2>6. Places(rec')
    BY <1>1, <2>2, <2>3, <2>5 DEF RecordingInv, Places, Early, Late, SameData, SameStop
  <2>7. PagesInv'
    BY <1>1, <1>2, <2>2, <2>3, <2>5, PagesOpen DEF RecordingInv, PagesInv, SameStop
  <2> QED
    BY <2>4, <2>6, <2>7 DEF RecordingInv
<1>3. CASE rec' = [rec EXCEPT !.start = "failing"] /\ armed' = armed /\ left' = left
  BY <1>1, <1>3, StartMoves
<1> QED
  BY <1>2, <1>3 DEF TakesNetwork, Outside

LEMMA StartsPageKeeps == ASSUME RecordingInv, StartsPage PROVE RecordingInv'
<1>1. armed' = armed /\ left' = left /\ rec.start = "page" /\ page \in [Pages -> Recorders]
  BY DEF StartsPage, Outside, RecordingInv, PagesInv
<1>2. CASE page' = [page EXCEPT ![Root] = Recorder] /\ rec' = [rec EXCEPT !.start = "activate"]
  <2>1. page' \in [Pages -> Recorders] /\ \A t \in Pages : t # Root => page'[t] = page[t]
    BY <1>1, <1>2, RecorderTypes
  <2> QED
    BY <1>1, <1>2, <2>1, StartMoves DEF Early
<1>3. CASE rec' = [rec EXCEPT !.start = "failing"] /\ page' = page
  BY <1>1, <1>3, StartMoves
<1> QED
  BY <1>2, <1>3 DEF StartsPage, Outside

LEMMA StartEndsKeeps == ASSUME RecordingInv, StartDone \/ StartRefused PROVE RecordingInv'
<1>1. page' = page /\ armed' = armed /\ left' = left /\ page \in [Pages -> Recorders]
  BY DEF StartDone, StartRefused, Inside, Outside, RecordingInv, PagesInv
<1>2. CASE StartDone
  <2>1. PICK place : place = IF rec.broken THEN "failing" ELSE "done"
    OBVIOUS
  <2>2. rec' = [rec EXCEPT !.start = place] /\ place \in {"failing", "done"} /\ rec.start = "journal"
    BY <1>2, <2>1 DEF StartDone
  <2> QED
    BY <1>1, <2>2, StartMoves
<1>3. CASE StartRefused
  <2>1. rec' = [rec EXCEPT !.start = "failing"] /\ rec.start \in {"network", "page", "activate"}
    BY <1>3 DEF StartRefused
  <2> QED
    BY <1>1, <2>1, StartMoves
<1> QED
  BY <1>2, <1>3

LEMMA StartFailsKeeps == ASSUME RecordingInv, StartFails PROVE RecordingInv'
<1>1. PICK h : h = Halt(rec, "start_failed")
  OBVIOUS
<1>2. /\ rec' = [h EXCEPT !.start = "failed", !.clearing = TRUE] /\ rec.start = "failing"
      /\ page' = page /\ armed' = armed /\ left' = left /\ rec \in Recordings /\ page \in [Pages -> Recorders]
  BY <1>1 DEF StartFails, Inside, Outside, RecordingInv, Core, PagesInv
<1>3. Core(h) /\ Recorded(rec, h) /\ h.gaps = rec.gaps /\ h.reason # "none" /\ ~h.active
  BY <1>1, HaltCore DEF RecordingInv, Reasons
<1>4. h \in Recordings
  BY <1>3 DEF Core
<1>5. rec' \in Recordings
  BY <1>2, <1>4 DEF Recordings
<1>6. SameData(h, rec') /\ SameStop(h, rec')
  BY <1>2, <1>4 DEF Recordings, SameData, SameStop
<1>7. SameTabs(h, rec') /\ rec'.poll = h.poll /\ rec'.start = "failed"
  BY <1>2, <1>4 DEF Recordings, SameTabs
<1>8. Core(rec')
  BY <1>3, <1>5, <1>6, CoreKept
<1>9. rec.stop \notin Late
  BY <1>2 DEF RecordingInv, Places
<1>10. h.stop \notin Late /\ h.nets = rec.nets /\ h.kids = rec.kids /\ (h.poll = rec.poll \/ h.poll = "off")
  BY <1>3, <1>9 DEF Recorded, Late, SameFixed
<1>11. Places(rec')
  BY <1>2, <1>3, <1>6, <1>7, <1>10 DEF RecordingInv, Places, Early, Late, SameData, SameStop, SameTabs
<1>12. PagesInv'
  BY <1>2, <1>6, <1>7, <1>10, PagesOpen DEF RecordingInv, PagesInv, SameStop, SameTabs
<1> QED
  BY <1>8, <1>11, <1>12 DEF RecordingInv

LEMMA ActivatesKeeps == ASSUME RecordingInv, Activates PROVE RecordingInv'
<1> DEFINE header == <<"header">>
<1>1. PICK b : b = [rec EXCEPT !.active = TRUE]
  OBVIOUS
<1>2. PICK p : p = Persist(b, header)
  OBVIOUS
<1>3. PICK begun : begun = Records(p)
  OBVIOUS
<1>4. /\ rec' = [begun EXCEPT !.start = "journal", !.poll = IF begun.active THEN "timer" ELSE "off"]
      /\ rec.start = "activate" /\ rec.reason = "none"
      /\ page' = page /\ armed' = armed /\ left' = left /\ rec \in Recordings /\ page \in [Pages -> Recorders]
  BY <1>1, <1>2, <1>3 DEF Activates, MayStart, Inside, Outside, RecordingInv, Core, PagesInv
<1>5. b \in Recordings
  BY <1>1, <1>4 DEF Recordings
<1>6. /\ SameData(rec, b) /\ SameTabs(rec, b)
      /\ b.reason = rec.reason /\ b.stop = rec.stop /\ b.active
  BY <1>1, <1>4 DEF Recordings, SameData, SameTabs
<1>7. rec.stop = "none" /\ rec.journal = <<>> /\ rec.kids = {}
  BY <1>4 DEF RecordingInv, Core, StopInv, Places, Early
<1>8. Core(b)
  <2>1. StopInv(b)
    BY <1>4, <1>6, <1>7 DEF StopInv
  <2> QED
    BY <1>5, <1>6, <2>1, CoreSame DEF RecordingInv, SameData
<1>9. Follows(b, header)
  <2>1. header \in Entries /\ header[1] = "header"
    BY DEF Entries
  <2> QED
    BY <1>6, <1>7, <2>1 DEF Follows, Event, Answer, SameData
<1> HIDE DEF header
<1>10. Core(p) /\ Recorded(b, p)
  BY <1>2, <1>6, <1>7, <1>8, <1>9, PersistCore
<1>11. p.stop \in {"none", "wait"}
  BY <1>6, <1>7, <1>10 DEF Recorded
<1>12. Core(begun) /\ Recorded(p, begun)
  BY <1>3, <1>10, <1>11, RecordsCore
<1>13. /\ begun.stop \in {"none", "wait"} /\ begun.nets = rec.nets /\ begun.kids = {} /\ begun \in Recordings
  BY <1>6, <1>7, <1>10, <1>11, <1>12 DEF Recorded, SameFixed, SameTabs, Core
<1>14. rec' \in Recordings
  BY <1>4, <1>13, ZenonT(30) DEF Recordings
<1>15. SameData(begun, rec') /\ SameStop(begun, rec')
  BY <1>4, <1>13 DEF Recordings, SameData, SameStop
<1>16. SameTabs(begun, rec') /\ rec'.start = "journal" /\ rec'.poll \in {"timer", "off"}
  BY <1>4, <1>13 DEF Recordings, SameTabs
<1>17. Core(rec')
  BY <1>12, <1>14, <1>15, CoreKept
<1>18. Places(rec')
  BY <1>13, <1>15, <1>16 DEF Places, Early, Late, SameStop
<1>19. PagesInv'
  BY <1>4, <1>7, <1>13, <1>15, <1>16, PagesOpen DEF RecordingInv, PagesInv, Late, SameStop, SameTabs
<1> QED
  BY <1>17, <1>18, <1>19 DEF RecordingInv

-----------------------------------------------------------------------------
(* The poll                                                                   *)

\* What a change of the poll alone keeps.
Control(x, s) ==
    /\ SameData(x, s) /\ SameTabs(x, s)
    /\ s.active = x.active /\ s.stop = x.stop /\ s.reason = x.reason /\ s.start = x.start

LEMMA Polling ==
    ASSUME RecordingInv, rec.poll # "off"
    PROVE  /\ rec.stop \in {"none", "wait"} /\ rec.start \notin Early /\ rec \in Recordings
           /\ Core(rec) /\ page \in [Pages -> Recorders] /\ armed \subseteq rec.nets \union left.armed
           /\ \A t \in Pages : page[t].on => t \in rec.kids \union {Root} \union left.on
           /\ Recorded(rec, rec)
<1>1. rec \in Recordings /\ Core(rec)
  BY DEF RecordingInv, Core
<1>2. rec.stop \in {"none", "wait"} /\ rec.start \notin Early
  BY <1>1 DEF RecordingInv, Places, Recordings
<1> QED
  BY <1>1, <1>2, RecordedOrdered DEF RecordingInv, PagesInv

LEMMA PollStep ==
    ASSUME RecordingInv, rec.poll # "off", NEW x, Core(x), x.start = rec.start,
           x.stop \in {"none", "wait"}, rec' \in Recordings, SameData(x, rec'),
           rec'.active = x.active, rec'.stop = x.stop, rec'.reason = x.reason, rec'.start = x.start,
           rec'.poll \in {"joining", "child"} => Child \in rec'.kids,
           page' \in [Pages -> Recorders], armed' \subseteq rec'.nets \union left'.armed,
           \A t \in Pages : page'[t].on => t \in rec'.kids \union {Root} \union left'.on
    PROVE  RecordingInv'
<1>1. rec.start \notin Early
  BY Polling
<1>2. StopInv(rec')
  BY DEF Core, StopInv
<1>3. Core(rec')
  BY <1>2, CoreSame DEF SameData
<1>4. rec'.stop \notin Late
  BY DEF Late
<1>5. Places(rec')
  BY <1>1, <1>4 DEF Places, Early, Late
<1>6. PagesInv'
  BY <1>4, PagesOpen
<1> QED
  BY <1>3, <1>5, <1>6 DEF RecordingInv

LEMMA PolledIs ==
    ASSUME NEW x \in Recordings, NEW s, s = Polled(x)
    PROVE  s \in Recordings /\ Control(x, s) /\ s.poll \in {"timer", "off"}
<1> DEFINE p == IF x.active THEN "timer" ELSE "off"
           td == IF x.stop = "none" THEN {} ELSE x.todo
<1>1. s = [x EXCEPT !.poll = p, !.todo = td, !.hand = NoRecorder]
  BY DEF Polled
<1>2. p \in {"timer", "off"} /\ td \in SUBSET Pages
  BY DEF Recordings
<1> HIDE DEF p, td
<1>3. s \in Recordings
  BY <1>1, <1>2, RecorderTypes, ZenonT(30) DEF Recordings
<1>4. SameData(x, s) /\ SameTabs(x, s)
  BY <1>1 DEF Recordings, SameData, SameTabs
<1>5. s.active = x.active /\ s.stop = x.stop /\ s.reason = x.reason /\ s.start = x.start /\ s.poll = p
  BY <1>1 DEF Recordings
<1> QED
  BY <1>2, <1>3, <1>4, <1>5 DEF Control

LEMMA FailsIs ==
    ASSUME NEW r, Core(r), r.stop \in {"none", "wait"}, NEW s, s = Fails(r)
    PROVE  \E x : /\ Core(x) /\ Recorded(r, x) /\ Control(x, s) /\ s \in Recordings
                  /\ s.poll \in {"timer", "off"}
<1>1. PICK g : g = Gap(r)
  OBVIOUS
<1>2. PICK x : x = Halt(g, "capture_unavailable")
  OBVIOUS
<1>3. s = Polled(x)
  BY <1>1, <1>2 DEF Fails
<1>4. Core(g) /\ Recorded(r, g)
  BY <1>1, GapCore
<1>5. Core(x) /\ Recorded(g, x)
  BY <1>2, <1>4, HaltCore DEF Reasons
<1>6. Recorded(r, x)
  BY <1>4, <1>5, RecordedOrdered DEF Core
<1> QED
  BY <1>3, <1>5, <1>6, PolledIs DEF Core

\* A poll goes on, or ends, after helpers; what a page turns on is the recording's.
LEMMA PollGoesOn ==
    ASSUME RecordingInv, rec.poll # "off", NEW x, Core(x), Recorded(rec, x), Control(x, rec'),
           rec' \in Recordings, rec'.poll \in {"joining", "child"} => Child \in rec.kids,
           page' \in [Pages -> Recorders], armed' \subseteq armed /\ left' = left,
           \A t \in Pages : page'[t].on => page[t].on \/ t = Root \/ t \in rec.kids
    PROVE  RecordingInv'
<1>1. x.stop \in {"none", "wait"} /\ x.start = rec.start /\ x.nets = rec.nets /\ x.kids = rec.kids
  BY Polling DEF Recorded, SameFixed
<1>2. armed' \subseteq rec'.nets \union left'.armed /\ rec'.kids = rec.kids
  BY <1>1, Polling DEF Control, SameTabs
<1>3. \A t \in Pages : page'[t].on => t \in rec'.kids \union {Root} \union left'.on
  BY <1>2, Polling
<1> QED
  BY <1>1, <1>2, <1>3, PollStep DEF Control

LEMMA FailsKeeps ==
    ASSUME RecordingInv, rec.poll # "off", rec' = Fails(rec), page' = page, armed' = armed /\ left' = left
    PROVE  RecordingInv'
<1>1. PICK x : /\ Core(x) /\ Recorded(rec, x) /\ Control(x, rec') /\ rec' \in Recordings
               /\ rec'.poll \in {"timer", "off"}
  BY FailsIs, Polling
<1>2. page' \in [Pages -> Recorders]
  BY Polling
<1> QED
  BY <1>1, <1>2, PollGoesOn

\* The poll alone moves.
LEMMA PollMoves ==
    ASSUME RecordingInv, rec.poll # "off", NEW x, Core(x), Recorded(rec, x),
           NEW p \in {"off", "timer", "tabs", "child", "root", "got", "missing", "again"},
           p = "child" => Child \in rec.kids,
           rec' = [x EXCEPT !.poll = p], page' \in [Pages -> Recorders], armed' = armed /\ left' = left,
           \A t \in Pages : page'[t].on => page[t].on \/ t = Root \/ t \in rec.kids
    PROVE  RecordingInv'
<1>1. x \in Recordings
  BY DEF Core
<1>2. rec' \in Recordings
  BY <1>1 DEF Recordings
<1>3. SameData(x, rec') /\ SameTabs(x, rec')
  BY <1>1 DEF Recordings, SameData, SameTabs
<1>4. rec'.active = x.active /\ rec'.stop = x.stop /\ rec'.reason = x.reason /\ rec'.start = x.start
      /\ rec'.poll = p
  BY <1>1 DEF Recordings
<1> QED
  BY <1>2, <1>3, <1>4, PollGoesOn DEF Control

LEMMA PollBeginsKeeps == ASSUME RecordingInv, PollBegins \/ TimesOut PROVE RecordingInv'
<1>1. page' = page /\ armed' = armed /\ left' = left /\ rec.poll = "timer"
  BY DEF PollBegins, TimesOut, Inside, Outside
<1>2. page' \in [Pages -> Recorders]
  BY <1>1, Polling
<1>3. CASE rec' = [rec EXCEPT !.poll = "tabs"]
  BY <1>1, <1>2, <1>3, Polling, PollMoves
<1>4. CASE rec' = Fails(rec)
  BY <1>1, <1>4, FailsKeeps
<1>5. CASE rec' = Halt(rec, "duration")
  BY <1>1, <1>5, HaltKeeps DEF Reasons
<1> QED
  BY <1>3, <1>4, <1>5 DEF PollBegins, TimesOut

LEMMA LosesChildKeeps == ASSUME RecordingInv, LosesChild PROVE RecordingInv'
<1>1. PICK b : b = [rec EXCEPT !.kids = {}, !.nets = @ \ {Child}]
  OBVIOUS
<1>2. rec' = Records(b) /\ rec.poll # "off"
  BY <1>1 DEF LosesChild
<1>12. PICK on \in SUBSET {Child}, net \in SUBSET (rec.nets \intersect {Child}) :
         /\ page' = IF on = {} THEN [page EXCEPT ![Child] = NoRecorder] ELSE page
         /\ armed' = armed \ ((rec.nets \intersect {Child}) \ net)
         /\ left' = [on |-> left.on \union on, armed |-> left.armed \union net]
  BY DEF LosesChild
<1> USE <1>2, Polling
<1>3. b \in Recordings
  BY <1>1 DEF Recordings
<1>4. SameData(rec, b) /\ SameStop(rec, b)
  BY <1>1 DEF Recordings, SameData, SameStop
<1>5. b.start = rec.start /\ b.poll = rec.poll /\ b.kids = {} /\ b.nets = rec.nets \ {Child}
  BY <1>1 DEF Recordings
<1>6. Core(b)
  BY <1>3, <1>4, CoreKept
<1>7. Core(rec') /\ Recorded(b, rec')
  BY <1>4, <1>6, RecordsCore DEF SameStop
<1>8. /\ rec'.start = rec.start /\ rec'.stop \in {"none", "wait"} /\ rec'.kids = {}
      /\ rec'.nets = rec.nets \ {Child} /\ rec' \in Recordings
  BY <1>4, <1>5, <1>7 DEF Recorded, SameFixed, SameStop, Core
<1>9. /\ page' \in [Pages -> Recorders]
      /\ \A t \in Pages : page'[t].on => t \in {Root} \union left'.on
      /\ armed' \subseteq rec'.nets \union left'.armed
  <2>1. rec.kids \subseteq {Child} /\ Child \in Pages
    BY DEF Recordings, Pages
  <2>2. left'.on = left.on \union on /\ left'.armed = left.armed \union net
    BY <1>12
  <2>3. armed' \subseteq rec'.nets \union left'.armed
    BY <1>8, <1>12, <2>2
  <2>4. CASE on = {}
    BY <1>12, <2>1, <2>2, <2>3, <2>4, RecorderTypes
  <2>5. CASE on = {Child}
    BY <1>12, <2>1, <2>2, <2>3, <2>5
  <2> QED
    BY <2>4, <2>5
<1>10. rec'.poll \notin {"joining", "child"}
  BY <1>5, <1>7 DEF Recorded, LosesChild
<1>11. SameData(rec', rec')
  BY DEF SameData
<1> QED
  BY <1>7, <1>8, <1>9, <1>10, <1>11, PollStep

LEMMA SeesChildKeeps == ASSUME RecordingInv, SeesChild PROVE RecordingInv'
<1>1. page' = page /\ armed' = armed /\ rec.poll # "off"
  BY DEF SeesChild
<1> USE <1>1, Polling
<1>2. CASE /\ rec' = [rec EXCEPT !.kids = {Child}, !.poll = "joining"]
           /\ left' = [on |-> left.on \ {Child}, armed |-> left.armed]
  <2>1. rec' \in Recordings
    BY <1>2 DEF Recordings
  <2>2. SameData(rec, rec') /\ SameStop(rec, rec')
    BY <1>2 DEF Recordings, SameData, SameStop
  <2>3. rec'.start = rec.start /\ rec'.kids = {Child} /\ rec'.nets = rec.nets
    BY <1>2 DEF Recordings
  <2>4. \A t \in Pages : page[t].on => t \in rec'.kids \union {Root} \union left'.on
    BY <2>3 DEF Recordings, Pages
  <2> QED
    BY <1>2, <2>1, <2>2, <2>3, <2>4, PollStep DEF SameStop
<1>3. CASE rec' = Fails(rec) /\ left' = left
  BY <1>3, FailsKeeps
<1> QED
  BY <1>2, <1>3 DEF SeesChild

LEMMA JoinsChildKeeps == ASSUME RecordingInv, JoinsChild PROVE RecordingInv'
<1>1. page' = page /\ rec.poll = "joining" /\ rec.poll # "off"
  BY DEF JoinsChild
<1> USE <1>1, Polling
<1>2. ASSUME NEW b, b = [rec EXCEPT !.nets = @ \union {Child}],
             rec' = [Records(b) EXCEPT !.poll = "tabs"], armed' = armed \union {Child},
             left' = [on |-> left.on, armed |-> left.armed \ {Child}]
      PROVE  RecordingInv'
  <2>1. b \in Recordings
    <3> rec.nets \union {Child} \in SUBSET Pages
      BY DEF Recordings, Pages
    <3> QED
      BY <1>2 DEF Recordings
  <2>2. SameData(rec, b) /\ SameStop(rec, b)
    BY <1>2 DEF Recordings, SameData, SameStop
  <2>3. b.start = rec.start /\ b.kids = rec.kids /\ b.nets = rec.nets \union {Child}
    BY <1>2 DEF Recordings
  <2>4. Core(b)
    BY <2>1, <2>2, CoreKept
  <2>5. PICK x : x = Records(b)
    OBVIOUS
  <2>6. Core(x) /\ Recorded(b, x)
    BY <2>2, <2>4, <2>5, RecordsCore DEF SameStop
  <2>7. /\ x.start = rec.start /\ x.stop \in {"none", "wait"} /\ x.kids = rec.kids
        /\ x.nets = rec.nets \union {Child} /\ x \in Recordings
    BY <2>2, <2>3, <2>6 DEF Recorded, SameFixed, SameStop, Core
  <2>8. rec' = [x EXCEPT !.poll = "tabs"]
    BY <1>2, <2>5
  <2>9. rec' \in Recordings
    BY <2>7, <2>8 DEF Recordings
  <2>10. SameData(x, rec') /\ SameStop(x, rec')
    BY <2>7, <2>8 DEF Recordings, SameData, SameStop
  <2>11. rec'.start = x.start /\ rec'.kids = x.kids /\ rec'.nets = x.nets /\ rec'.poll = "tabs"
    BY <2>7, <2>8 DEF Recordings
  <2> QED
    BY <1>2, <2>6, <2>7, <2>9, <2>10, <2>11, PollStep DEF SameStop
<1>3. CASE rec' = Fails(rec) /\ armed' = armed /\ left' = left
  BY <1>3, FailsKeeps
<1> QED
  BY <1>2, <1>3 DEF JoinsChild

LEMMA TabsSeenKeeps == ASSUME RecordingInv, TabsSeen PROVE RecordingInv'
<1>1. page' = page /\ armed' = armed /\ left' = left /\ rec.poll # "off"
  BY DEF TabsSeen, Inside, Outside
<1>2. PICK p : p = IF Child \in rec.kids THEN "child" ELSE "root"
  OBVIOUS
<1>3. rec' = [rec EXCEPT !.poll = p] /\ p \in {"child", "root"} /\ (p = "child" => Child \in rec.kids)
  BY <1>2 DEF TabsSeen
<1> QED
  BY <1>1, <1>3, Polling, PollMoves

LEMMA DrainsChildKeeps == ASSUME RecordingInv, DrainsChild PROVE RecordingInv'
<1>1. armed' = armed /\ left' = left /\ rec.poll # "off" /\ Child \in rec.kids
  BY DEF DrainsChild, Outside, RecordingInv, Places
<1> USE <1>1, Polling
<1>2. ASSUME NEW x, x = Ingests(rec, page[Child]), rec' = [x EXCEPT !.poll = "root"],
             page' = [page EXCEPT ![Child] = Recorder]
      PROVE  RecordingInv'
  <2>1. Core(x) /\ Recorded(rec, x)
    BY <1>2, IngestsCore
  <2>2. page' \in [Pages -> Recorders] /\ \A t \in Pages : t # Child => page'[t] = page[t]
    BY <1>2, RecorderTypes
  <2> QED
    BY <1>2, <2>1, <2>2, PollMoves
<1>3. CASE rec' = Fails(rec) /\ page' = page
  BY <1>3, FailsKeeps
<1> QED
  BY <1>2, <1>3 DEF DrainsChild, Outside

LEMMA DrainsRootKeeps == ASSUME RecordingInv, DrainsRoot PROVE RecordingInv'
<1>1. armed' = armed /\ left' = left /\ rec.poll # "off"
  BY DEF DrainsRoot, Outside
<1> USE <1>1, Polling
<1>2. ASSUME NEW p, p = IF page[Root].on THEN "got" ELSE "missing",
             rec' = [rec EXCEPT !.poll = p, !.hand = page[Root]],
             page' = [page EXCEPT ![Root] = [NoRecorder EXCEPT !.on = page[Root].on]]
      PROVE  RecordingInv'
  <2>1. p \in {"got", "missing"} /\ page[Root] \in Recorders
    BY <1>2 DEF Pages
  <2>2. rec' \in Recordings
    BY <1>2, <2>1 DEF Recordings
  <2>3. SameData(rec, rec') /\ SameTabs(rec, rec')
    BY <1>2 DEF Recordings, SameData, SameTabs
  <2>4. rec'.active = rec.active /\ rec'.stop = rec.stop /\ rec'.reason = rec.reason
        /\ rec'.start = rec.start /\ rec'.poll = p
    BY <1>2 DEF Recordings
  <2>5. [NoRecorder EXCEPT !.on = page[Root].on] \in Recorders
    BY <2>1 DEF NoRecorder, Recorders
  <2>6. page' \in [Pages -> Recorders] /\ \A t \in Pages : t # Root => page'[t] = page[t]
    BY <1>2, <2>5
  <2> QED
    BY <2>1, <2>2, <2>3, <2>4, <2>6, PollGoesOn DEF Control
<1>3. CASE rec' = Fails(rec) /\ page' = page
  BY <1>3, FailsKeeps
<1> QED
  BY <1>2, <1>3 DEF DrainsRoot, Outside

\* A poll ends, after helpers.
LEMMA PollEnds ==
    ASSUME RecordingInv, rec.poll # "off", NEW x, Core(x), Recorded(rec, x), rec' = Polled(x),
           page' \in [Pages -> Recorders], armed' = armed /\ left' = left,
           \A t \in Pages : page'[t].on => page[t].on \/ t = Root
    PROVE  RecordingInv'
<1>1. rec' \in Recordings /\ Control(x, rec') /\ rec'.poll \in {"timer", "off"}
  BY PolledIs DEF Core
<1> QED
  BY <1>1, PollGoesOn

LEMMA TakesInKeeps == ASSUME RecordingInv, TakesIn \/ Restarts \/ PollCut PROVE RecordingInv'
<1>1. page' = page /\ armed' = armed /\ left' = left /\ rec.poll # "off"
  BY DEF TakesIn, Restarts, PollCut, Inside, Outside
<1> USE <1>1, Polling
<1>2. CASE TakesIn
  <2>1. PICK x : x = Ingests(rec, rec.hand)
    OBVIOUS
  <2>2. Core(x) /\ Recorded(rec, x) /\ rec' = Polled(x)
    BY <1>2, <2>1, IngestsCore DEF TakesIn
  <2> QED
    BY <2>2, PollEnds
<1>3. CASE Restarts
  <2>1. PICK x : x = Gap(rec)
    OBVIOUS
  <2>2. Core(x) /\ Recorded(rec, x) /\ rec' = [x EXCEPT !.poll = "again"]
    BY <1>3, <2>1, GapCore DEF Restarts
  <2> QED
    BY <2>2, PollMoves
<1>4. CASE rec' = Polled(rec)
  BY <1>4, PollEnds
<1>5. CASE rec' = Fails(rec)
  BY <1>5, FailsKeeps
<1> QED
  BY <1>2, <1>3, <1>4, <1>5 DEF PollCut

LEMMA RestartedKeeps == ASSUME RecordingInv, Restarted PROVE RecordingInv'
<1>1. armed' = armed /\ left' = left /\ rec.poll # "off"
  BY DEF Restarted, Outside
<1> USE <1>1, Polling
<1>2. CASE page' = [page EXCEPT ![Root] = Recorder] /\ rec' = Polled(rec)
  <2>1. page' \in [Pages -> Recorders] /\ \A t \in Pages : t # Root => page'[t] = page[t]
    BY <1>2, RecorderTypes
  <2> QED
    BY <1>2, <2>1, PollEnds
<1>3. CASE rec' = Fails(rec) /\ page' = page
  BY <1>3, FailsKeeps
<1> QED
  BY <1>2, <1>3 DEF Restarted, Outside

-----------------------------------------------------------------------------
(* Body reads and the journal                                                 *)

LooseJobs(q) ==
    /\ \A job \in q.reads : Noted(q, job)
    /\ \A n \in DOMAIN q.queue : Noted(q, q.queue[n])
    /\ \A n \in DOMAIN q.queue, job \in q.reads : job.seq < q.queue[n].seq
    /\ \A m, n \in DOMAIN q.queue : m < n => q.queue[m].seq < q.queue[n].seq
    /\ IsFiniteSet(q.reads) /\ Cardinality(q.reads) <= MaxReads
    /\ q.queue # <<>> => \/ Cardinality(q.reads) = MaxReads \/ Cardinality(q.reads) + 1 = MaxReads
                         \/ Len(q.queue) = 1

LEMMA QueueTail ==
    ASSUME NEW q \in Seq(Jobs), q # <<>>, NEW t, t = Tail(q)
    PROVE  /\ Head(q) = q[1] /\ 1 \in DOMAIN q /\ q[1] \in Jobs /\ t \in Seq(Jobs)
           /\ \A n \in DOMAIN t : n + 1 \in DOMAIN q /\ t[n] = q[n + 1] /\ n \in Nat /\ 1 < n + 1
           /\ Len(q) = 1 => t = <<>>
  OBVIOUS

LEMMA PumpedCore ==
    ASSUME NEW q \in Recordings, JournalInv(q), EndInv(q), StopInv(q), LooseJobs(q),
           NEW s, s = Pumped(q)
    PROVE  /\ Core(s) /\ SameStop(q, s) /\ SameStart(q, s) /\ SameTabs(q, s) /\ s.poll = q.poll
           /\ s.gaps = q.gaps /\ s.journal = q.journal /\ s.written = q.written
           /\ s.broken = q.broken
<1>1. q.queue \in Seq(Jobs) /\ q.reads \subseteq Jobs /\ MaxReads \in Nat \ {0}
  BY ReadsAssumption DEF Recordings
<1>2. Cardinality(q.reads) \in Nat /\ IsFiniteSet(q.reads)
  BY FS_CardinalityType DEF LooseJobs
<1>3. CASE q.queue = <<>> \/ Cardinality(q.reads) >= MaxReads
  <2>1. s = q
    BY <1>3 DEF Pumped
  <2>2. JobsInv(q)
    BY <1>1, <1>2, <1>3 DEF LooseJobs, JobsInv
  <2> QED
    BY <2>1, <2>2 DEF Core, SameStop, SameStart, SameTabs
<1>4. CASE q.queue # <<>> /\ ~(Cardinality(q.reads) >= MaxReads)
  <2>1. PICK t : t = Tail(q.queue)
    OBVIOUS
  <2>2. PICK h : h = q.queue[1]
    OBVIOUS
  <2>3. /\ Head(q.queue) = h /\ 1 \in DOMAIN q.queue /\ h \in Jobs /\ t \in Seq(Jobs)
        /\ \A n \in DOMAIN t : n + 1 \in DOMAIN q.queue /\ t[n] = q.queue[n + 1] /\ n \in Nat /\ 1 < n + 1
        /\ Len(q.queue) = 1 => t = <<>>
    BY <1>1, <1>4, <2>1, <2>2, QueueTail
  <2>4. s = [q EXCEPT !.reads = @ \union {h}, !.queue = t]
    BY <1>4, <2>1, <2>3 DEF Pumped
  <2>5. q.reads \union {h} \in SUBSET Jobs
    BY <1>1, <2>3
  <2>6. s \in Recordings
    BY <2>3, <2>4, <2>5, ZenonT(30) DEF Recordings
  <2>7. SameStop(q, s) /\ SameStart(q, s) /\ SameTabs(q, s)
    BY <2>4 DEF Recordings, SameStop, SameStart, SameTabs
  <2>8. s.reads = q.reads \union {h} /\ s.queue = t /\ s.poll = q.poll
    BY <2>4 DEF Recordings
  <2>9. /\ s.durable = q.durable /\ s.next = q.next /\ s.gaps = q.gaps /\ s.journal = q.journal
        /\ s.written = q.written /\ s.broken = q.broken
    BY <2>4 DEF Recordings
  <2>10. JobsInv(s)
    <3>1. h \notin q.reads
      <4>1. h \in q.reads => h.seq < h.seq
        BY <2>2, <2>3 DEF LooseJobs
      <4>2. h.seq \in Nat
        BY <2>3 DEF Jobs
      <4> QED
        BY <4>1, <4>2
    <3>2. IsFiniteSet(s.reads) /\ Cardinality(s.reads) = Cardinality(q.reads) + 1
      BY <1>2, <2>8, <3>1, FS_AddElement, SMTT(30)
    <3>3. ASSUME NEW job, Noted(q, job) PROVE Noted(s, job)
      BY <2>9, <3>3 DEF Noted
    <3>4. \A job \in s.reads : Noted(s, job)
      BY <2>2, <2>3, <2>8, <3>3 DEF LooseJobs
    <3>5. \A n \in DOMAIN t : Noted(s, t[n])
      BY <2>3, <3>3 DEF LooseJobs
    <3>6. \A n \in DOMAIN t, job \in s.reads : job.seq < t[n].seq
      BY <2>2, <2>3, <2>8 DEF LooseJobs
    <3>7. \A m, n \in DOMAIN t : m < n => t[m].seq < t[n].seq
      <4> SUFFICES ASSUME NEW m \in DOMAIN t, NEW n \in DOMAIN t, m < n PROVE t[m].seq < t[n].seq
        OBVIOUS
      <4>1. m + 1 < n + 1
        BY <2>3
      <4> QED
        BY <2>3, <4>1 DEF LooseJobs
    <3>8. Cardinality(s.reads) <= MaxReads
      BY <1>1, <1>2, <1>4, <3>2
    <3>9. t # <<>> => Cardinality(s.reads) = MaxReads
      BY <1>1, <1>2, <1>4, <2>3, <3>2 DEF LooseJobs
    <3> QED
      BY <2>8, <3>2, <3>4, <3>5, <3>6, <3>7, <3>8, <3>9 DEF JobsInv
  <2>11. JournalInv(s) /\ EndInv(s) /\ StopInv(s)
    BY <2>7, <2>9 DEF JournalInv, EndInv, Ended, StopInv, SameStop
  <2> QED
    BY <2>6, <2>7, <2>8, <2>9, <2>10, <2>11 DEF Core
<1> QED
  BY <1>3, <1>4

LEMMA LoadKeeps == ASSUME RecordingInv, NEW t \in Pages, Load(t) PROVE RecordingInv'
<1>1. PICK r : r = Records(rec)
  OBVIOUS
<1>2. PICK job : job = [seq |-> rec.next, tab |-> t]
  OBVIOUS
<1>3. /\ rec.active /\ page' = page /\ armed' = armed /\ left' = left
      /\ rec' = IF Full(rec) \/ Len(rec.queue) >= MaxQueued THEN r
                ELSE Pumped([r EXCEPT !.queue = Append(@, job)])
  BY <1>1, <1>2 DEF Load
<1>4. /\ rec \in Recordings /\ rec.stop = "none" /\ rec.start \notin Early /\ Core(rec)
      /\ rec.next \in Nat /\ page \in [Pages -> Recorders]
  BY <1>3 DEF RecordingInv, Core, StopInv, Places, PagesInv, Recordings
<1>5. Core(r) /\ Recorded(rec, r) /\ r \in Recordings
  BY <1>1, <1>4, RecordsCore DEF Core
<1>6. CASE rec' = r
  BY <1>3, <1>4, <1>5, <1>6, RecordedKeeps
<1>7. CASE ~Full(rec) /\ rec' = Pumped([r EXCEPT !.queue = Append(@, job)])
  <2>1. /\ r.next = rec.next + 1
        /\ r.durable /\ ~r.broken =>
             \E m \in DOMAIN r.journal : Event(r.journal[m]) /\ r.journal[m][2] = rec.next
    BY <1>1, <1>4, <1>7, RecordsCore
  <2>2. job \in Jobs /\ job.seq = rec.next
    BY <1>2, <1>4 DEF Jobs
  <2>3. PICK k : k = Append(r.queue, job)
    OBVIOUS
  <2>4. r.queue \in Seq(Jobs) /\ rec.queue \in Seq(Jobs) /\ rec.reads \subseteq Jobs
    BY <1>4, <1>5 DEF Recordings
  <2>5. /\ k \in Seq(Jobs) /\ Len(k) = Len(r.queue) + 1 /\ Len(r.queue) \in Nat
        /\ k[Len(k)] = job
        /\ \A n \in DOMAIN r.queue : k[n] = r.queue[n] /\ r.queue[n] \in Jobs /\ n < Len(k)
        /\ \A n \in DOMAIN k : (n \in DOMAIN r.queue \/ n = Len(k)) /\ n \in Nat /\ n <= Len(k)
    <3>1. PICK u : u = r.queue
      OBVIOUS
    <3>2. u \in Seq(Jobs) /\ k = Append(u, job)
      BY <2>3, <2>4, <3>1
    <3> HIDE DEF Jobs
    <3>3. /\ k \in Seq(Jobs) /\ Len(k) = Len(u) + 1 /\ Len(u) \in Nat
          /\ k[Len(k)] = job
          /\ \A n \in DOMAIN u : k[n] = u[n] /\ u[n] \in Jobs /\ n < Len(k)
          /\ \A n \in DOMAIN k : (n \in DOMAIN u \/ n = Len(k)) /\ n \in Nat /\ n <= Len(k)
      BY ONLY <2>2, <3>2
    <3> QED
      BY ONLY <3>1, <3>3
  <2>6. PICK q : q = [r EXCEPT !.queue = k]
    OBVIOUS
  <2>7. rec' = Pumped(q)
    BY <1>7, <2>3, <2>6
  <2>8. q \in Recordings
    BY <1>5, <2>5, <2>6 DEF Recordings
  <2>9. SameStop(r, q) /\ SameStart(r, q) /\ SameTabs(r, q)
    BY <1>5, <2>6 DEF Recordings, SameStop, SameStart, SameTabs
  <2>10. /\ q.durable = r.durable /\ q.next = r.next /\ q.gaps = r.gaps /\ q.journal = r.journal
         /\ q.written = r.written /\ q.broken = r.broken
    BY <1>5, <2>6 DEF Recordings
  <2>11. q.reads = r.reads /\ q.queue = k /\ q.poll = r.poll
    BY <1>5, <2>6 DEF Recordings
  <2>12. Noted(q, job)
    <3>1. job.seq < q.next
      BY <1>4, <2>1, <2>2, <2>10
    <3>2. ASSUME q.durable, ~q.broken
          PROVE  \E m \in DOMAIN q.journal : Event(q.journal[m]) /\ q.journal[m][2] = job.seq
      BY <2>1, <2>2, <2>10, <3>2
    <3> QED
      BY <3>1, <3>2 DEF Noted
  <2>13. ASSUME NEW old, Noted(r, old) PROVE Noted(q, old)
    BY <2>10, <2>13 DEF Noted
  <2>14. r.reads = rec.reads /\ (r.queue = rec.queue \/ r.queue = <<>>)
    BY <1>5 DEF Recorded, SameFixed
  <2>15. /\ \A old \in r.reads : old.seq < job.seq
         /\ \A n \in DOMAIN r.queue : r.queue[n].seq < job.seq
    BY <1>4, <2>2, <2>14 DEF Core, JobsInv, Noted
  <2>16. LooseJobs(q)
    <3>1. \A old \in q.reads : Noted(q, old)
      BY <1>5, <2>11, <2>13 DEF Core, JobsInv
    <3>2. \A n \in DOMAIN k : Noted(q, k[n])
      BY <1>5, <2>5, <2>12, <2>13 DEF Core, JobsInv
    <3>3. \A n \in DOMAIN k, old \in r.reads : old.seq < k[n].seq
      BY <1>5, <2>5, <2>15 DEF Core, JobsInv
    <3>4. \A m, n \in DOMAIN k : m < n => k[m].seq < k[n].seq
      <4> SUFFICES ASSUME NEW m \in DOMAIN k, NEW n \in DOMAIN k, m < n PROVE k[m].seq < k[n].seq
        OBVIOUS
      <4>1. m \in DOMAIN r.queue
        BY <2>5
      <4>2. CASE n \in DOMAIN r.queue
        BY <1>5, <2>5, <4>1, <4>2 DEF Core, JobsInv
      <4>3. CASE n = Len(k)
        BY <2>5, <2>15, <4>1, <4>3
      <4> QED
        BY <2>5, <4>2, <4>3
    <3>5. /\ IsFiniteSet(r.reads) /\ Cardinality(r.reads) <= MaxReads
          /\ r.queue # <<>> => Cardinality(r.reads) = MaxReads
      BY <1>5 DEF Core, JobsInv
    <3>6. r.queue = <<>> => Len(k) = 1
      BY <2>5
    <3> QED
      BY <2>11, <3>1, <3>2, <3>3, <3>4, <3>5, <3>6 DEF LooseJobs
  <2>17. JournalInv(q) /\ EndInv(q) /\ StopInv(q)
    BY <1>5, <2>9, <2>10 DEF Core, JournalInv, EndInv, Ended, StopInv, SameStop
  <2>18. /\ Core(rec') /\ SameStop(q, rec') /\ SameStart(q, rec') /\ SameTabs(q, rec')
         /\ rec'.poll = q.poll
    BY <2>7, <2>8, <2>16, <2>17, PumpedCore
  <2>19. /\ rec'.stop \in {"none", "wait"} /\ rec'.start = rec.start /\ rec'.kids = rec.kids
         /\ rec'.nets = rec.nets /\ (rec'.poll = rec.poll \/ rec'.poll = "off")
    BY <1>4, <1>5, <2>9, <2>11, <2>18 DEF Recorded, SameFixed, SameStop, SameStart, SameTabs
  <2>20. Places(rec')
    BY <1>4, <2>19 DEF RecordingInv, Places, Early, Late
  <2>21. PagesInv'
    BY <1>3, <1>4, <2>19, PagesOpen DEF RecordingInv, PagesInv, Late
  <2> QED
    BY <2>18, <2>20, <2>21 DEF RecordingInv
<1> QED
  BY <1>3, <1>6, <1>7

LEMMA ReadEndsKeeps == ASSUME RecordingInv, NEW j \in rec.reads, ReadEnds(j) PROVE RecordingInv'
<1>1. PICK body : body = <<"body", j.seq>>
  OBVIOUS
<1>2. PICK update : update = <<"update", j.seq>>
  OBVIOUS
<1>3. PICK r : /\ r = rec \/ r = Persist(rec, body)
               /\ rec' = Pumped([Persist(r, update) EXCEPT !.reads = @ \ {j}])
  BY <1>1, <1>2 DEF ReadEnds
<1>4. PICK u : u = Persist(r, update)
  OBVIOUS
<1>5. PICK q : q = [u EXCEPT !.reads = @ \ {j}]
  OBVIOUS
<1>6. rec' = Pumped(q) /\ page' = page /\ armed' = armed /\ left' = left
  BY <1>3, <1>4, <1>5 DEF ReadEnds, Inside, Outside
<1>7. /\ Core(rec) /\ rec \in Recordings /\ j \in Jobs /\ j.seq \in Nat /\ Noted(rec, j)
      /\ rec.stop \notin {"nets", "journal", "done"} /\ rec.start \notin Early
      /\ page \in [Pages -> Recorders]
  BY DEF RecordingInv, Core, JobsInv, Places, PagesInv, Recordings, Jobs
<1>8. body \in Entries /\ body[1] = "body" /\ body[2] = j.seq
      /\ update \in Entries /\ update[1] = "update" /\ update[2] = j.seq
  BY <1>1, <1>2, <1>7 DEF Entries
<1>9. Follows(rec, body)
  BY <1>7, <1>8 DEF Follows, Event, Answer, Noted
<1>10. /\ Core(r) /\ Recorded(rec, r)
       /\ \A m \in DOMAIN rec.journal : m \in DOMAIN r.journal /\ r.journal[m] = rec.journal[m]
  BY <1>3, <1>7, <1>9, PersistCore, RecordedOrdered
<1>11. Follows(r, update)
  <2>1. ASSUME r.durable, ~r.broken
        PROVE  \E m \in DOMAIN r.journal : Event(r.journal[m]) /\ r.journal[m][2] = j.seq
    <3>1. rec.durable /\ ~rec.broken
      BY <1>10, <2>1 DEF Recorded, SameFixed
    <3>2. PICK m \in DOMAIN rec.journal : Event(rec.journal[m]) /\ rec.journal[m][2] = j.seq
      BY <1>7, <3>1 DEF Noted
    <3> QED
      BY <1>10, <3>2
  <2> QED
    BY <1>8, <2>1 DEF Follows, Event, Answer
<1>12. r.stop \notin {"nets", "journal", "done"}
  BY <1>7, <1>10 DEF Recorded
<1>13. Core(u) /\ Recorded(r, u) /\ u \in Recordings
  BY <1>4, <1>10, <1>11, <1>12, PersistCore DEF Core
<1>14. Recorded(rec, u) /\ u.stop \notin {"nets", "journal", "done"}
  BY <1>7, <1>10, <1>12, <1>13, RecordedOrdered DEF Core, Recorded
<1>15. j \in u.reads /\ u.reads \subseteq Jobs
  BY <1>13, <1>14 DEF Recorded, SameFixed, Recordings
<1>16. q \in Recordings
  <2> u.reads \ {j} \in SUBSET Jobs
    BY <1>15
  <2> QED
    BY <1>5, <1>13 DEF Recordings
<1>17. SameStop(u, q) /\ SameStart(u, q) /\ SameTabs(u, q)
  BY <1>5, <1>13 DEF Recordings, SameStop, SameStart, SameTabs
<1>18. /\ q.durable = u.durable /\ q.next = u.next /\ q.gaps = u.gaps /\ q.journal = u.journal
       /\ q.written = u.written /\ q.broken = u.broken
  BY <1>5, <1>13 DEF Recordings
<1>19. q.reads = u.reads \ {j} /\ q.queue = u.queue /\ q.poll = u.poll
  BY <1>5, <1>13 DEF Recordings
<1>20. LooseJobs(q)
  <2>1. ASSUME NEW old, Noted(u, old) PROVE Noted(q, old)
    BY <1>18, <2>1 DEF Noted
  <2>2. /\ \A job \in q.reads : Noted(q, job)
        /\ \A n \in DOMAIN q.queue : Noted(q, q.queue[n])
        /\ \A n \in DOMAIN q.queue, job \in q.reads : job.seq < q.queue[n].seq
        /\ \A m, n \in DOMAIN q.queue : m < n => q.queue[m].seq < q.queue[n].seq
    BY <1>13, <1>19, <2>1 DEF Core, JobsInv
  <2>3. /\ IsFiniteSet(u.reads) /\ Cardinality(u.reads) <= MaxReads
        /\ u.queue # <<>> => Cardinality(u.reads) = MaxReads
    BY <1>13 DEF Core, JobsInv
  <2>4. /\ IsFiniteSet(q.reads) /\ Cardinality(q.reads) = Cardinality(u.reads) - 1
        /\ Cardinality(u.reads) \in Nat
    BY <1>15, <1>19, <2>3, FS_RemoveElement, FS_CardinalityType
  <2>5. MaxReads \in Nat
    BY ReadsAssumption
  <2>6. Cardinality(q.reads) <= MaxReads /\ (q.queue # <<>> => Cardinality(q.reads) + 1 = MaxReads)
    BY <1>19, <2>3, <2>4, <2>5
  <2> QED
    BY <2>2, <2>4, <2>6 DEF LooseJobs
<1>21. JournalInv(q) /\ EndInv(q) /\ StopInv(q)
  BY <1>13, <1>17, <1>18 DEF Core, JournalInv, EndInv, Ended, StopInv, SameStop
<1>22. /\ Core(rec') /\ SameStop(q, rec') /\ SameStart(q, rec') /\ SameTabs(q, rec')
       /\ rec'.poll = q.poll /\ rec'.gaps = q.gaps
  BY <1>6, <1>16, <1>20, <1>21, PumpedCore
<1>23. Places(u)
  BY <1>7, <1>13, <1>14, PlacesRecorded DEF RecordingInv
<1>24. Places(rec')
  <2>1. /\ rec'.active = u.active /\ rec'.start = u.start /\ rec'.stop = u.stop /\ rec'.poll = u.poll
        /\ rec'.kids = u.kids /\ rec'.nets = u.nets
    BY <1>17, <1>19, <1>22 DEF SameStop, SameStart, SameTabs
  <2>2. u.start \notin Early
    BY <1>7, <1>14 DEF Recorded, SameFixed
  <2> QED
    BY <1>14, <1>23, <2>1, <2>2 DEF Places, Early
<1>25. PagesInv'
  <2>1. rec.gaps \in Nat /\ rec'.gaps \in Nat
    BY <1>7, <1>22 DEF Core, Recordings
  <2>2. /\ rec'.gaps >= rec.gaps /\ rec'.kids = rec.kids /\ rec'.nets = rec.nets /\ rec'.todo = rec.todo
        /\ rec'.stop = u.stop
    BY <1>14, <1>17, <1>18, <1>22 DEF Recorded, SameFixed, SameStop, SameTabs
  <2>3. rec'.stop = rec.stop \/ rec'.stop \in {"none", "wait"}
    BY <1>14, <2>2 DEF Recorded
  <2> QED
    BY <1>6, <1>7, <2>1, <2>2, <2>3, PagesKept DEF RecordingInv, PagesInv
<1> QED
  BY <1>22, <1>24, <1>25 DEF RecordingInv

LEMMA JournalWritesKeeps == ASSUME RecordingInv, JournalWrites PROVE RecordingInv'
<1>1. /\ page' = page /\ armed' = armed /\ left' = left /\ rec \in Recordings /\ Core(rec)
      /\ page \in [Pages -> Recorders] /\ ~rec.broken /\ rec.written # Len(rec.journal)
  BY DEF JournalWrites, Outside, Flushed, RecordingInv, Core, PagesInv
<1>2. rec.stop # "done" /\ rec.gaps \in Nat
  BY <1>1 DEF RecordingInv, Places, Recordings
<1>3. CASE rec' = [rec EXCEPT !.written = @ + 1]
  <2>1. /\ rec.written \in Nat /\ Len(rec.journal) \in Nat /\ rec.written <= Len(rec.journal)
    BY <1>1 DEF Recordings, Core, JournalInv
  <2>2. rec.written + 1 \in Nat /\ rec.written + 1 <= Len(rec.journal)
    BY <1>1, <2>1
  <2>3. rec' \in Recordings
    BY <1>1, <1>3, <2>2 DEF Recordings
  <2>4. SameStop(rec, rec') /\ SameStart(rec, rec') /\ SameTabs(rec, rec')
    BY <1>1, <1>3 DEF Recordings, SameStop, SameStart, SameTabs
  <2>5. /\ rec'.durable = rec.durable /\ rec'.next = rec.next /\ rec'.gaps = rec.gaps
        /\ rec'.journal = rec.journal /\ rec'.broken = rec.broken
    BY <1>1, <1>3 DEF Recordings
  <2>6. /\ rec'.written = rec.written + 1 /\ rec'.poll = rec.poll /\ rec'.reads = rec.reads
        /\ rec'.queue = rec.queue
    BY <1>1, <1>3 DEF Recordings
  <2>7. JournalInv(rec')
    BY <1>1, <2>2, <2>5, <2>6 DEF Core, JournalInv
  <2>8. JobsInv(rec')
    BY <1>1, <2>5, <2>6 DEF Core, JobsInv, Noted
  <2>9. EndInv(rec') /\ StopInv(rec')
    BY <1>1, <2>4, <2>5 DEF Core, EndInv, Ended, StopInv, SameStop
  <2>10. Places(rec')
    BY <1>2, <2>4, <2>5, <2>6 DEF RecordingInv, Places, SameStop, SameStart, SameTabs
  <2>11. PagesInv'
    BY <1>1, <1>2, <2>4, <2>5, PagesKept DEF RecordingInv, PagesInv, SameStop, SameTabs
  <2> QED
    BY <2>3, <2>7, <2>8, <2>9, <2>10, <2>11 DEF RecordingInv, Core
<1>4. CASE rec' = Halt([rec EXCEPT !.broken = TRUE], "journal_write_failed")
  <2>1. PICK b : b = [rec EXCEPT !.broken = TRUE]
    OBVIOUS
  <2>2. rec' = Halt(b, "journal_write_failed")
    BY <1>4, <2>1
  <2>3. /\ b \in Recordings /\ SameFixed(rec, b) /\ SameRun(rec, b) /\ b.broken
        /\ b.next = rec.next /\ b.gaps = rec.gaps /\ b.journal = rec.journal
    BY <1>1, <2>1, BrokenField
  <2>4. Core(b)
    <3>1. JournalInv(b)
      BY <1>1, <2>3 DEF Core, JournalInv, SameFixed
    <3>2. JobsInv(b)
      BY <1>1, <2>3 DEF Core, JobsInv, Noted, SameFixed, SameRun
    <3>3. EndInv(b) /\ StopInv(b)
      BY <1>1, <2>3 DEF Core, EndInv, StopInv, Ended, SameRun
    <3> QED
      BY <2>3, <3>1, <3>2, <3>3 DEF Core
  <2>5. CASE rec.stop # "none"
    <3>1. rec' = b
      BY <2>2, <2>3, <2>5 DEF Halt, SameRun
    <3>2. Places(b)
      BY <1>2, <2>3 DEF RecordingInv, Places, SameFixed, SameRun
    <3>3. PagesInv'
      BY <1>1, <1>2, <2>3, <3>1, PagesKept DEF RecordingInv, PagesInv, SameFixed, SameRun
    <3> QED
      BY <2>4, <3>1, <3>2, <3>3 DEF RecordingInv
  <2>6. CASE rec.stop = "none"
    <3>1. rec.next \in Nat
      BY <1>1 DEF Recordings
    <3>2. Recorded(rec, b)
      BY <1>1, <1>2, <2>3, <3>1 DEF Recorded, SameRun
    <3>3. Core(rec') /\ Recorded(b, rec') /\ rec'.reason # "none"
      BY <2>2, <2>4, HaltCore DEF Reasons
    <3>4. Recorded(rec, rec')
      BY <1>1, <2>3, <3>2, <3>3, RecordedOrdered DEF Core
    <3> QED
      BY <1>1, <2>6, <3>3, <3>4, RecordedKeeps
  <2> QED
    BY <2>5, <2>6
<1> QED
  BY <1>3, <1>4 DEF JournalWrites, Outside

-----------------------------------------------------------------------------
(* The stop                                                                   *)

LEMMA StopBeginsKeeps == ASSUME RecordingInv, StopBegins PROVE RecordingInv'
<1>1. /\ rec.stop = "wait" /\ rec.start \in {"done", "failed"} /\ rec.poll = "off"
      /\ page' = page /\ armed' = armed /\ left' = left /\ rec \in Recordings /\ Core(rec)
      /\ rec' = [rec EXCEPT !.stop = "pages", !.todo = rec.kids \union {Root}]
  BY DEF StopBegins, Quiet, Inside, Outside, RecordingInv, Core
<1>2. rec.kids \union {Root} \in SUBSET Pages
  BY <1>1 DEF Recordings, Pages
<1>3. rec' \in Recordings
  BY <1>1, <1>2 DEF Recordings, Late
<1>4. SameData(rec, rec') /\ SameStart(rec, rec') /\ SameTabs(rec, rec')
  BY <1>1 DEF Recordings, SameData, SameStart, SameTabs
<1>5. /\ rec'.stop = "pages" /\ rec'.todo = rec.kids \union {Root} /\ rec'.poll = rec.poll
      /\ rec'.active = rec.active /\ rec'.reason = rec.reason
  BY <1>1 DEF Recordings
<1>6. Core(rec')
  <2>1. StopInv(rec')
    BY <1>1, <1>5 DEF Core, StopInv
  <2> QED
    BY <1>1, <1>3, <1>4, <1>5, <2>1, CoreSame DEF SameData
<1>7. Places(rec')
  BY <1>1, <1>4, <1>5 DEF RecordingInv, Places, Early, SameData, SameStart, SameTabs
<1>8. PagesInv'
  BY <1>1, <1>4, <1>5 DEF RecordingInv, PagesInv, SameTabs
<1> QED
  BY <1>6, <1>7, <1>8 DEF RecordingInv

LEMMA StopsPageKeeps == ASSUME RecordingInv, NEW t \in Pages, StopsPage(t) PROVE RecordingInv'
<1>1. PICK place : place = IF t = Root THEN "bodies" ELSE rec.stop
  OBVIOUS
<1>2. PICK r : r = [rec EXCEPT !.todo = @ \ {t}, !.stop = place]
  OBVIOUS
<1>3. /\ rec.stop = "pages" /\ t \in rec.todo /\ (t = Root => rec.todo = {Root})
      /\ armed' = armed /\ left' = left /\ rec \in Recordings /\ Core(rec) /\ page \in [Pages -> Recorders]
      /\ \/ rec' = Ingests(r, page[t]) /\ page' = [page EXCEPT ![t] = NoRecorder]
         \/ rec' = Gap(r) /\ page' = page
  <2>1. rec.stop = "pages" /\ r = [rec EXCEPT !.todo = @ \ {t}, !.stop = IF t = Root THEN "bodies" ELSE @]
    BY <1>1, <1>2 DEF StopsPage, Outside
  <2> QED
    BY <2>1 DEF StopsPage, Outside, RecordingInv, Core, PagesInv
<1>4. place \in {"pages", "bodies"} /\ rec.gaps \in Nat
  BY <1>1, <1>3 DEF Recordings
<1>5. r \in Recordings
  <2> rec.todo \ {t} \in SUBSET Pages
    BY <1>3 DEF Recordings
  <2> QED
    BY <1>2, <1>3, <1>4 DEF Recordings, Late
<1>6. SameData(rec, r) /\ SameStart(rec, r) /\ SameTabs(rec, r)
  BY <1>2, <1>3 DEF Recordings, SameData, SameStart, SameTabs
<1>7. /\ r.stop = place /\ r.todo = rec.todo \ {t} /\ r.poll = rec.poll
      /\ r.active = rec.active /\ r.reason = rec.reason
  BY <1>2, <1>3 DEF Recordings
<1>8. Core(r)
  <2>1. StopInv(r)
    BY <1>3, <1>4, <1>7 DEF Core, StopInv
  <2> QED
    BY <1>3, <1>4, <1>5, <1>6, <1>7, <2>1, CoreSame DEF SameData
<1>9. rec.start \in {"done", "failed"} /\ rec.poll = "off"
  BY <1>3 DEF RecordingInv, Places, Late
<1>10. Places(r)
  BY <1>4, <1>6, <1>7, <1>9 DEF RecordingInv, Places, Early, SameData, SameStart, SameTabs
<1>11. /\ Core(rec') /\ Recorded(r, rec') /\ (page' = page => rec'.gaps > 0 \/ rec' = Ingests(r, page[t]))
       /\ rec' = Gap(r) => rec'.gaps > 0
  BY <1>3, <1>4, <1>7, <1>8, IngestsCore, GapCore
<1>12. Places(rec')
  BY <1>4, <1>6, <1>7, <1>8, <1>9, <1>10, <1>11, PlacesRecorded DEF Early, SameStart
<1>13. /\ rec'.stop = place /\ rec'.todo = rec.todo \ {t} /\ rec'.kids = rec.kids /\ rec'.nets = rec.nets
       /\ rec'.gaps >= rec.gaps /\ rec'.gaps \in Nat
  BY <1>4, <1>6, <1>7, <1>11 DEF Recorded, SameFixed, SameData, SameTabs, Core, Recordings
<1>14. /\ page' \in [Pages -> Recorders]
       /\ \A u \in Pages : page'[u].on => page[u].on
       /\ ~page'[t].on \/ rec'.gaps > 0
  BY <1>3, <1>11, RecorderTypes
<1>15. \A u \in Pages : page[u].on /\ u \notin rec.todo => rec'.gaps > 0 \/ u \in left.on
  BY <1>3, <1>4, <1>13 DEF RecordingInv, PagesInv
<1>16. PagesInv'
  <2>1. \A u \in Pages : page'[u].on /\ u \notin rec'.todo => rec'.gaps > 0 \/ u \in left'.on
    BY <1>3, <1>13, <1>14, <1>15
  <2>2. t = Root => \A u \in Pages : page'[u].on => rec'.gaps > 0 \/ u \in left'.on
    BY <1>3, <1>14, <1>15
  <2>3. rec'.stop = "bodies" => t = Root
    BY <1>1, <1>3, <1>13
  <2>4. rec'.stop \in {"pages", "bodies"}
    BY <1>4, <1>13
  <2> QED
    BY <1>3, <1>13, <1>14, <2>1, <2>2, <2>3, <2>4 DEF RecordingInv, PagesInv, Late
<1> QED
  BY <1>11, <1>12, <1>16 DEF RecordingInv

LEMMA BodiesReadKeeps == ASSUME RecordingInv, BodiesRead PROVE RecordingInv'
<1>1. /\ rec.stop = "bodies" /\ rec.reads = {} /\ rec' = [rec EXCEPT !.stop = "nets"]
      /\ page' = page /\ armed' = armed /\ left' = left /\ rec \in Recordings /\ Core(rec)
  BY DEF BodiesRead, Inside, Outside, RecordingInv, Core
<1>2. rec' \in Recordings
  BY <1>1 DEF Recordings, Late
<1>3. SameData(rec, rec') /\ SameStart(rec, rec') /\ SameTabs(rec, rec')
  BY <1>1 DEF Recordings, SameData, SameStart, SameTabs
<1>4. /\ rec'.stop = "nets" /\ rec'.poll = rec.poll /\ rec'.active = rec.active
      /\ rec'.reason = rec.reason
  BY <1>1 DEF Recordings
<1>5. rec.queue = <<>>
  BY <1>1, FS_EmptySet, ReadsAssumption DEF Core, JobsInv
<1>6. Core(rec')
  <2>1. StopInv(rec')
    BY <1>1, <1>4 DEF Core, StopInv
  <2> QED
    BY <1>1, <1>2, <1>3, <1>4, <2>1, CoreSame DEF SameData
<1>7. Places(rec')
  BY <1>1, <1>3, <1>4, <1>5 DEF RecordingInv, Places, Late, SameData, SameStart, SameTabs
<1>8. PagesInv'
  BY <1>1, <1>3, <1>4 DEF RecordingInv, PagesInv, Late, SameData, SameTabs
<1> QED
  BY <1>6, <1>7, <1>8 DEF RecordingInv

LEMMA ReleasesNetKeeps == ASSUME RecordingInv, NEW t \in Pages, ReleasesNet(t) PROVE RecordingInv'
<1>1. /\ rec.stop = "nets" /\ page' = page /\ left' = left /\ rec \in Recordings /\ Core(rec)
      /\ page \in [Pages -> Recorders]
  BY DEF ReleasesNet, Outside, RecordingInv, Core, PagesInv
<1>2. rec.start \in {"done", "failed"} /\ rec.poll = "off" /\ rec.reads = {} /\ rec.queue = <<>>
  BY <1>1 DEF RecordingInv, Places, Late
<1>3. CASE armed' = armed \ {t} /\ rec' = [rec EXCEPT !.nets = @ \ {t}]
  <2>1. rec' \in Recordings
    <3> rec.nets \ {t} \in SUBSET Pages
      BY <1>1 DEF Recordings
    <3> QED
      BY <1>1, <1>3 DEF Recordings
  <2>2. SameData(rec, rec') /\ SameStart(rec, rec') /\ SameStop(rec, rec')
    BY <1>1, <1>3 DEF Recordings, SameData, SameStart, SameStop
  <2>3. rec'.nets = rec.nets \ {t} /\ rec'.kids = rec.kids /\ rec'.poll = rec.poll
    BY <1>1, <1>3 DEF Recordings
  <2>4. Core(rec')
    BY <1>1, <2>1, <2>2, CoreKept
  <2>5. Places(rec')
    BY <1>1, <1>2, <2>2, <2>3 DEF RecordingInv, Places, Early, Late, SameData, SameStart, SameStop
  <2>6. PagesInv'
    BY <1>1, <1>3, <2>2, <2>3 DEF RecordingInv, PagesInv, Late, SameData, SameStop
  <2> QED
    BY <2>4, <2>5, <2>6 DEF RecordingInv
<1>4. CASE rec' = [rec EXCEPT !.stop = "none", !.reason = "stop_failed"] /\ armed' = armed /\ left' = left
  <2>1. rec' \in Recordings
    BY <1>1, <1>4 DEF Recordings, Reasons
  <2>2. SameData(rec, rec') /\ SameStart(rec, rec') /\ SameTabs(rec, rec')
    BY <1>1, <1>4 DEF Recordings, SameData, SameStart, SameTabs
  <2>3. rec'.stop = "none" /\ rec'.poll = rec.poll /\ rec'.active = rec.active
    BY <1>1, <1>4 DEF Recordings
  <2>4. ~rec.active
    BY <1>1 DEF Core, StopInv
  <2>5. Core(rec')
    <3>1. StopInv(rec')
      BY <2>3, <2>4 DEF StopInv
    <3> QED
      BY <1>1, <2>1, <2>2, <2>3, <3>1, CoreSame DEF SameData
  <2>6. Places(rec')
    BY <1>2, <2>2, <2>3, <2>4 DEF Places, Early, Late, SameStart
  <2>7. PagesInv'
    BY <1>1, <1>4, <2>2, <2>3, PagesOpen DEF RecordingInv, PagesInv, Late, SameTabs
  <2> QED
    BY <2>5, <2>6, <2>7 DEF RecordingInv
<1> QED
  BY <1>3, <1>4 DEF ReleasesNet, Outside

\* The recording with the end in its journal, or not when nothing is written any more.
Closes(r) == [Persist(r, <<"end">>) EXCEPT !.stop = "journal"]

\* The end of the journal: written last, once, and the stop waits for it.
LEMMA EndPersisted ==
    ASSUME NEW r, Core(r), r.stop = "nets", NEW s, s = Closes(r)
    PROVE  /\ Core(s) /\ s.stop = "journal" /\ SameStart(r, s) /\ SameTabs(r, s)
           /\ s.poll = r.poll /\ s.gaps = r.gaps /\ s.active = r.active
           /\ s.reads = r.reads /\ s.queue = r.queue
<1>8. PICK e : e = <<"end">>
  OBVIOUS
<1>9. s = [Persist(r, e) EXCEPT !.stop = "journal"]
  BY <1>8 DEF Closes
<1>1. r \in Recordings /\ r.journal \in Seq(Entries) /\ r.next \in Nat /\ r.written \in Nat
      /\ ~r.active /\ r.reason # "none"
  BY RecordingFields DEF Core, StopInv
<1>2. e \in Entries /\ e[1] = "end"
  BY <1>8 DEF Entries
<1>3. \A n \in DOMAIN r.journal : r.journal[n][1] # "end"
  BY DEF Core, EndInv
\* The cases differ in the journal and in broken.
<1>4. ASSUME NEW p \in Recordings, s = [p EXCEPT !.stop = "journal"], SameFixed(r, p), SameRun(r, p),
             p.next = r.next, p.gaps = r.gaps,
             JournalInv(p), JobsInv(p),
             \A n \in DOMAIN p.journal : p.journal[n][1] = "end" => n = Len(p.journal),
             p.durable /\ ~p.broken => Ended(p)
      PROVE  /\ Core(s) /\ s.stop = "journal" /\ SameStart(r, s) /\ SameTabs(r, s)
             /\ s.poll = r.poll /\ s.gaps = r.gaps /\ s.active = r.active
             /\ s.reads = r.reads /\ s.queue = r.queue
  <2>1. s \in Recordings
    BY <1>4 DEF Recordings, Late
  <2>2. SameData(p, s) /\ SameStart(p, s) /\ SameTabs(p, s)
    BY <1>4 DEF Recordings, SameData, SameStart, SameTabs
  <2>3. s.stop = "journal" /\ s.poll = p.poll /\ s.active = p.active /\ s.reason = p.reason
    BY <1>4 DEF Recordings
  <2>4. JournalInv(s)
    BY <1>4, <2>2 DEF JournalInv, SameData
  <2>5. JobsInv(s)
    BY <1>4, <2>2 DEF JobsInv, Noted, SameData
  <2>6. EndInv(s) /\ StopInv(s)
    BY <1>1, <1>4, <2>2, <2>3 DEF EndInv, Ended, StopInv, SameData, SameRun
  <2>7. Core(s)
    BY <2>1, <2>4, <2>5, <2>6 DEF Core
  <2> QED
    BY <1>4, <2>2, <2>3, <2>7 DEF SameFixed, SameRun, SameStart, SameTabs, SameData
<1>5. CASE ~r.durable \/ r.broken
  <2>1. Persist(r, e) = r
    BY <1>5 DEF Persist
  <2>2. s = [r EXCEPT !.stop = "journal"]
    BY <1>9, <2>1
  <2>3. SameFixed(r, r) /\ SameRun(r, r) /\ JournalInv(r) /\ JobsInv(r)
    BY DEF Core, SameFixed, SameRun
  <2>4. r.durable /\ ~r.broken => Ended(r)
    BY <1>5
  <2>5. \A n \in DOMAIN r.journal : r.journal[n][1] = "end" => n = Len(r.journal)
    BY <1>3
  <2> QED
    BY <1>1, <1>4, <2>2, <2>3, <2>4, <2>5
<1>6. CASE r.durable /\ ~r.broken /\ Len(r.journal) - r.written >= MaxWaiting
  <2>1. PICK b : b = [r EXCEPT !.broken = TRUE]
    OBVIOUS
  <2>2. /\ b \in Recordings /\ SameFixed(r, b) /\ SameRun(r, b) /\ b.broken
        /\ b.next = r.next /\ b.gaps = r.gaps /\ b.journal = r.journal
    BY <1>1, <2>1, BrokenField
  <2>3. Persist(r, e) = b
    BY <1>6, <2>1, <2>2 DEF Persist, Halt, SameRun
  <2>4. JournalInv(b)
    BY <2>2 DEF Core, JournalInv, SameFixed
  <2>5. JobsInv(b)
    BY <2>2 DEF Core, JobsInv, Noted, SameFixed, SameRun
  <2> QED
    BY <1>3, <1>4, <1>9, <2>2, <2>3, <2>4, <2>5
<1>7. CASE r.durable /\ ~r.broken /\ ~(Len(r.journal) - r.written >= MaxWaiting)
  <2>1. PICK k : k = Append(r.journal, e)
    OBVIOUS
  <2>2. PICK p : p = [r EXCEPT !.journal = k]
    OBVIOUS
  <2>3. Persist(r, e) = p
    BY <1>7, <2>1, <2>2 DEF Persist
  <2>4. /\ k \in Seq(Entries) /\ Len(k) = Len(r.journal) + 1 /\ Len(r.journal) \in Nat
        /\ Len(k) \in DOMAIN k /\ k[Len(k)] = e
        /\ \A n \in DOMAIN r.journal : n \in DOMAIN k /\ k[n] = r.journal[n] /\ n < Len(k) /\ n \in Nat
        /\ \A n \in DOMAIN k : n \in DOMAIN r.journal \/ n = Len(k)
    <3> HIDE DEF Entries
    <3>1. PICK j : j = r.journal
      OBVIOUS
    <3>2. j \in Seq(Entries) /\ e \in Entries /\ k = Append(j, e)
      BY <1>1, <1>2, <2>1, <3>1
    <3>3. /\ k \in Seq(Entries) /\ Len(k) = Len(j) + 1 /\ Len(j) \in Nat
          /\ Len(k) \in DOMAIN k /\ k[Len(k)] = e
          /\ \A n \in DOMAIN j : n \in DOMAIN k /\ k[n] = j[n] /\ n < Len(k) /\ n \in Nat
          /\ \A n \in DOMAIN k : n \in DOMAIN j \/ n = Len(k)
      BY ONLY <3>2, Appended
    <3> QED
      BY ONLY <3>1, <3>3
  <2>5. /\ p \in Recordings /\ SameFixed(r, p) /\ SameRun(r, p) /\ p.journal = k
        /\ p.next = r.next /\ p.gaps = r.gaps /\ p.broken = r.broken
    BY <1>1, <2>2, <2>4, JournalField
  <2>6. JournalInv(p)
    <3>1. p.written <= Len(k)
      BY <1>1, <2>4, <2>5 DEF Core, JournalInv, SameFixed
    <3>2. \A n \in DOMAIN k : k[n][1] # "end" => n \in DOMAIN r.journal /\ k[n] = r.journal[n]
      BY <1>2, <2>4
    <3>3. \A n \in DOMAIN k : k[n][1] = "header" => n = 1
      BY <3>2 DEF Core, JournalInv
    <3>4. \A n \in DOMAIN k : Event(k[n]) => k[n][2] < p.next
      BY <2>5, <3>2 DEF Core, JournalInv, Event
    <3>5. \A m, n \in DOMAIN k : Event(k[m]) /\ Event(k[n]) /\ m < n => k[m][2] < k[n][2]
      <4> SUFFICES ASSUME NEW m \in DOMAIN k, NEW n \in DOMAIN k, Event(k[m]), Event(k[n]), m < n
                   PROVE  k[m][2] < k[n][2]
        OBVIOUS
      <4>1. /\ m \in DOMAIN r.journal /\ k[m] = r.journal[m]
            /\ n \in DOMAIN r.journal /\ k[n] = r.journal[n]
        BY <3>2 DEF Event
      <4> QED
        BY <4>1 DEF Core, JournalInv
    <3>6. \A n \in DOMAIN k : Answer(k[n]) =>
            \E m \in DOMAIN k : m < n /\ Event(k[m]) /\ k[m][2] = k[n][2]
      <4> SUFFICES ASSUME NEW n \in DOMAIN k, Answer(k[n])
                   PROVE  \E m \in DOMAIN k : m < n /\ Event(k[m]) /\ k[m][2] = k[n][2]
        OBVIOUS
      <4>1. n \in DOMAIN r.journal /\ k[n] = r.journal[n]
        BY <3>2 DEF Answer
      <4>2. PICK m \in DOMAIN r.journal : m < n /\ Event(r.journal[m]) /\ r.journal[m][2] = r.journal[n][2]
        BY <4>1 DEF Core, JournalInv
      <4> QED
        BY <2>4, <4>1, <4>2
    <3> QED
      BY <2>5, <3>1, <3>3, <3>4, <3>5, <3>6 DEF JournalInv
  <2>7. JobsInv(p)
    <3>1. ASSUME NEW job, Noted(r, job) PROVE Noted(p, job)
      BY <1>7, <2>4, <2>5, <3>1 DEF Noted, SameFixed
    <3> QED
      BY <2>5, <3>1 DEF Core, JobsInv, SameFixed, SameRun
  <2>8. \A n \in DOMAIN p.journal : p.journal[n][1] = "end" => n = Len(p.journal)
    BY <1>3, <2>4, <2>5
  <2>9. Ended(p)
    BY <1>2, <2>4, <2>5 DEF Ended
  <2> QED
    BY <1>4, <1>9, <2>3, <2>5, <2>6, <2>7, <2>8, <2>9
<1> QED
  BY <1>5, <1>6, <1>7

LEMMA StopRecordsKeeps == ASSUME RecordingInv, StopRecords PROVE RecordingInv'
<1>1. PICK r : r = Records(rec)
  OBVIOUS
<1>3. /\ rec.stop = "nets" /\ rec.nets = {} /\ rec' = Closes(r)
      /\ page' = page /\ armed' = armed /\ left' = left /\ rec \in Recordings /\ Core(rec)
  BY <1>1 DEF StopRecords, Closes, Inside, Outside, RecordingInv, Core
<1>4. Core(r) /\ Recorded(rec, r) /\ r.gaps = rec.gaps
  BY <1>1, <1>3, RecordsCore
<1>5. /\ r.stop = "nets" /\ r.start = rec.start /\ r.poll = rec.poll /\ r.nets = {}
      /\ r.kids = rec.kids /\ r.reads = rec.reads /\ (r.queue = rec.queue \/ r.queue = <<>>)
  BY <1>3, <1>4 DEF Recorded, SameFixed
<1>2. PICK s : s = Closes(r)
  OBVIOUS
<1>10. /\ Core(s) /\ s.stop = "journal" /\ SameStart(r, s) /\ SameTabs(r, s)
       /\ s.poll = r.poll /\ s.gaps = r.gaps /\ s.active = r.active
       /\ s.reads = r.reads /\ s.queue = r.queue
  BY <1>2, <1>4, <1>5, EndPersisted
<1>11. rec' = s
  BY <1>2, <1>3
<1>6. /\ Core(rec') /\ rec'.stop = "journal" /\ SameStart(r, rec') /\ SameTabs(r, rec')
      /\ rec'.poll = r.poll /\ rec'.gaps = r.gaps /\ rec'.active = r.active
      /\ rec'.reads = r.reads /\ rec'.queue = r.queue
  BY <1>10, <1>11
<1>7. ~rec'.active
  BY <1>6 DEF Core, StopInv
<1>8. Places(rec')
  BY <1>3, <1>5, <1>6, <1>7 DEF RecordingInv, Places, Early, Late, SameStart, SameTabs
<1>9. PagesInv'
  BY <1>3, <1>4, <1>5, <1>6 DEF RecordingInv, PagesInv, Late, SameTabs
<1> QED
  BY <1>6, <1>8, <1>9 DEF RecordingInv

LEMMA StopDoneKeeps == ASSUME RecordingInv, StopDone PROVE RecordingInv'
<1>1. /\ rec.stop = "journal" /\ (rec.broken \/ rec.written = Len(rec.journal))
      /\ rec' = [rec EXCEPT !.stop = "done"]
      /\ page' = page /\ armed' = armed /\ left' = left /\ rec \in Recordings /\ Core(rec)
  BY DEF StopDone, Flushed, Inside, Outside, RecordingInv, Core
<1>2. rec' \in Recordings
  BY <1>1 DEF Recordings, Late
<1>3. SameData(rec, rec') /\ SameStart(rec, rec') /\ SameTabs(rec, rec')
  BY <1>1 DEF Recordings, SameData, SameStart, SameTabs
<1>4. /\ rec'.stop = "done" /\ rec'.poll = rec.poll /\ rec'.active = rec.active
      /\ rec'.reason = rec.reason
  BY <1>1 DEF Recordings
<1>5. Core(rec')
  <2>1. StopInv(rec')
    BY <1>1, <1>4 DEF Core, StopInv
  <2> QED
    BY <1>1, <1>2, <1>3, <1>4, <2>1, CoreSame DEF SameData
<1>6. Places(rec')
  BY <1>1, <1>3, <1>4 DEF RecordingInv, Places, Late, SameData, SameStart, SameTabs
<1>7. PagesInv'
  BY <1>1, <1>3, <1>4 DEF RecordingInv, PagesInv, Late, SameData, SameTabs
<1> QED
  BY <1>5, <1>6, <1>7 DEF RecordingInv

\* Only the marks of a recording that ends change.
LEMMA MarksKeep ==
    ASSUME RecordingInv, rec' \in Recordings, SameData(rec, rec'), SameStop(rec, rec'),
           SameTabs(rec, rec'), rec'.start = rec.start, rec'.poll = rec.poll,
           page' = page, armed' = armed /\ left' = left
    PROVE  RecordingInv'
<1>1. Core(rec')
  BY CoreKept DEF RecordingInv
<1>2. Places(rec')
  BY DEF RecordingInv, Places, SameData, SameStop, SameTabs
<1>3. PagesInv'
  BY DEF RecordingInv, PagesInv, SameData, SameStop, SameTabs
<1> QED
  BY <1>1, <1>2, <1>3 DEF RecordingInv

LEMMA ForgetsKeeps == ASSUME RecordingInv, Forgets PROVE RecordingInv'
<1>1. rec' = [rec EXCEPT !.kept = FALSE, !.clearing = FALSE] /\ page' = page /\ armed' = armed /\ left' = left
      /\ rec \in Recordings
  BY DEF Forgets, Inside, Outside, RecordingInv, Core
<1>2. rec' \in Recordings
  BY <1>1 DEF Recordings
<1>3. SameData(rec, rec') /\ SameStop(rec, rec')
  BY <1>1 DEF Recordings, SameData, SameStop
<1>4. SameTabs(rec, rec') /\ rec'.start = rec.start /\ rec'.poll = rec.poll
  BY <1>1 DEF Recordings, SameTabs
<1> QED
  BY <1>1, <1>2, <1>3, <1>4, MarksKeep

-----------------------------------------------------------------------------
(* Agents, users, pages, Chrome                                               *)

LEMMA StopAskedKeeps == ASSUME RecordingInv, StopAsked PROVE RecordingInv'
<1>1. rec' = Halt(rec, "requested") /\ page' = page /\ armed' = armed /\ left' = left
  BY DEF StopAsked, Inside, Outside
<1> QED
  BY <1>1, HaltKeeps DEF Reasons

LEMMA ClearAskedKeeps == ASSUME RecordingInv, ClearAsked PROVE RecordingInv'
<1>1. PICK h : h = Halt(rec, "revoked")
  OBVIOUS
<1>2. rec' = [h EXCEPT !.clearing = TRUE] /\ page' = page /\ armed' = armed /\ left' = left
      /\ rec \in Recordings /\ Core(rec) /\ page \in [Pages -> Recorders]
  BY <1>1 DEF ClearAsked, Inside, Outside, RecordingInv, Core, PagesInv
<1>3. Core(h) /\ Recorded(rec, h) /\ h.reason # "none" /\ h \in Recordings /\ h.gaps = rec.gaps
  BY <1>1, <1>2, HaltCore DEF Reasons, Core
<1>4. Places(h)
  <2>1. CASE rec.stop # "none"
    BY <1>1, <2>1 DEF Halt, RecordingInv
  <2>2. CASE rec.stop = "none"
    BY <1>2, <1>3, <2>2, PlacesRecorded DEF RecordingInv
  <2> QED
    BY <2>1, <2>2
<1>5. rec' \in Recordings
  BY <1>2, <1>3 DEF Recordings
<1>6. SameData(h, rec') /\ SameStop(h, rec')
  BY <1>2, <1>3 DEF Recordings, SameData, SameStop
<1>7. SameTabs(h, rec') /\ rec'.start = h.start /\ rec'.poll = h.poll
  BY <1>2, <1>3 DEF Recordings, SameTabs
<1>8. Core(rec')
  BY <1>3, <1>5, <1>6, CoreKept
<1>9. Places(rec')
  BY <1>4, <1>6, <1>7 DEF Places, SameData, SameStop, SameTabs
<1>10. PagesInv'
  <2>1. rec.gaps \in Nat /\ rec'.gaps = rec.gaps
    BY <1>2, <1>3, <1>6 DEF Recordings, SameData
  <2>2. rec'.nets = rec.nets /\ rec'.kids = rec.kids
    BY <1>3, <1>7 DEF Recorded, SameFixed, SameTabs
  <2>3. (rec'.stop = rec.stop /\ rec'.todo = rec.todo) \/ rec'.stop \in {"none", "wait"}
    BY <1>3, <1>6 DEF Recorded, SameFixed, SameStop
  <2> QED
    BY <1>2, <2>1, <2>2, <2>3, PagesKept DEF RecordingInv, PagesInv
<1> QED
  BY <1>8, <1>9, <1>10 DEF RecordingInv

LEMMA PagesMoveKeeps ==
    ASSUME RecordingInv,
           AccessEnds \/ ChildMoves \/ \E t \in Pages : PageActs(t) \/ PageNavigates(t) \/ CaptureExpires(t)
    PROVE  RecordingInv'
<1>1. rec' = rec /\ rec \in Recordings /\ page \in [Pages -> Recorders] /\ armed' \subseteq armed /\ left' = left
  BY DEF AccessEnds, ChildMoves, PageActs, PageNavigates, CaptureExpires, Outside, RecordingInv, Core, PagesInv
<1>2. page' \in [Pages -> Recorders] /\ \A t \in Pages : page'[t].on => page[t].on
  <2>1. CASE page' = page
    BY <1>1, <2>1
  <2>2. ASSUME NEW t \in Pages, page' = [page EXCEPT ![t] = NoRecorder]
        PROVE  page' \in [Pages -> Recorders] /\ \A u \in Pages : page'[u].on => page[u].on
    BY <1>1, <2>2, RecorderTypes
  <2>3. ASSUME NEW t \in Pages, PageActs(t)
        PROVE  page' \in [Pages -> Recorders] /\ \A u \in Pages : page'[u].on => page[u].on
    <3>1. PICK p : p = [on |-> TRUE, held |-> 1, over |-> page[t].over \/ page[t].held = 1]
      OBVIOUS
    <3>2. page' = [page EXCEPT ![t] = p] /\ page[t].on /\ page[t] \in Recorders
      BY <1>1, <2>3, <3>1 DEF PageActs
    <3>3. p \in Recorders
      <4> (page[t].over \/ page[t].held = 1) \in BOOLEAN
        OBVIOUS
      <4> QED
        BY <3>1, <3>2 DEF Recorders
    <3> QED
      BY <1>1, <3>2, <3>3
  <2>4. Child \in Pages
    BY DEF Pages
  <2> QED
    BY <2>1, <2>2, <2>3, <2>4 DEF AccessEnds, CaptureExpires, ChildMoves, PageNavigates
<1>3. rec.gaps \in Nat
  BY <1>1 DEF Recordings
<1>4. armed' \subseteq rec.nets \union left.armed
  BY <1>1 DEF RecordingInv, PagesInv
<1>5. PagesInv'
  BY <1>1, <1>2, <1>3, <1>4, PagesKept DEF RecordingInv
<1> QED
  BY <1>1, <1>5 DEF RecordingInv

LEMMA DetachKeeps == ASSUME RecordingInv, NEW t \in Pages, Detach(t) PROVE RecordingInv'
<1>1. /\ armed' = armed \ {t} /\ page' = page /\ left' = left /\ rec \in Recordings /\ Core(rec)
      /\ Places(rec)
      /\ page \in [Pages -> Recorders] /\ armed \subseteq rec.nets \union left.armed
  BY DEF Detach, Outside, RecordingInv, Core, PagesInv
<1>2. CASE rec' = rec
  BY <1>1, <1>2 DEF RecordingInv, PagesInv
<1>3. CASE rec' # rec
  <2>1. PICK g : g = Gap(rec)
    OBVIOUS
  <2>2. PICK b : b = [g EXCEPT !.nets = @ \ {t}]
    OBVIOUS
  <2>3. rec.stop = "none" /\ rec' = Halt(b, "debugger_detached")
    BY <1>3, <2>1, <2>2 DEF Detach, Outside
  <2>4. Core(g) /\ Recorded(rec, g) /\ g \in Recordings
    BY <1>1, <2>1, <2>3, GapCore DEF Core
  <2>5. b \in Recordings
    <3> g.nets \ {t} \in SUBSET Pages
      BY <2>4 DEF Recordings
    <3> QED
      BY <2>2, <2>4 DEF Recordings
  <2>6. SameData(g, b) /\ SameStop(g, b)
    BY <2>2, <2>4 DEF Recordings, SameData, SameStop
  <2>7. b.start = g.start /\ b.poll = g.poll /\ b.kids = g.kids /\ b.nets = g.nets \ {t}
    BY <2>2, <2>4 DEF Recordings
  <2>8. Core(b)
    BY <2>4, <2>5, <2>6, CoreKept
  <2>9. /\ Core(rec') /\ Recorded(b, rec') /\ rec'.stop # "none" /\ ~rec'.active
        /\ rec'.reason # "none"
    BY <2>3, <2>8, HaltCore DEF Reasons
  <2>10. /\ rec'.start = rec.start /\ rec'.kids = rec.kids /\ rec'.nets = rec.nets \ {t}
         /\ rec'.reads = rec.reads /\ (rec'.poll = rec.poll \/ rec'.poll = "off")
         /\ rec'.stop \in {"none", "wait"}
    BY <2>3, <2>4, <2>6, <2>7, <2>9 DEF Recorded, SameFixed, SameData, SameStop
  <2>11. Places(rec')
    BY <1>1, <2>9, <2>10 DEF Places, Late
  <2>12. PagesInv'
    BY <1>1, <2>10, PagesOpen DEF RecordingInv, PagesInv, Late
  <2> QED
    BY <2>9, <2>11, <2>12 DEF RecordingInv
<1> QED
  BY <1>2, <1>3

-----------------------------------------------------------------------------
(* The theorem                                                                *)

LEMMA RecordingInvStays == RecordingInv /\ [RecordingNext]_recordingVars => RecordingInv'
<1> SUFFICES ASSUME RecordingInv, [RecordingNext]_recordingVars PROVE RecordingInv'
  OBVIOUS
<1>1. CASE UNCHANGED recordingVars
  BY <1>1 DEF recordingVars, RecordingInv, PagesInv
<1>2. CASE Starts \/ TakesNetwork \/ StartsPage \/ Activates \/ StartDone \/ StartRefused \/ StartFails
  BY <1>2, StartsKeeps, TakesNetworkKeeps, StartsPageKeeps, ActivatesKeeps, StartEndsKeeps, StartFailsKeeps
<1>3. CASE PollBegins \/ TimesOut \/ LosesChild \/ SeesChild \/ JoinsChild \/ TabsSeen \/ DrainsChild
           \/ DrainsRoot \/ TakesIn \/ Restarts \/ Restarted \/ PollCut
  BY <1>3, PollBeginsKeeps, LosesChildKeeps, SeesChildKeeps, JoinsChildKeeps, TabsSeenKeeps,
     DrainsChildKeeps, DrainsRootKeeps, TakesInKeeps, RestartedKeeps
<1>4. ASSUME NEW t \in Pages,
             Load(t) \/ StopsPage(t) \/ ReleasesNet(t) \/ PageActs(t) \/ PageNavigates(t) \/ Detach(t)
               \/ CaptureExpires(t)
      PROVE  RecordingInv'
  BY <1>4, LoadKeeps, StopsPageKeeps, ReleasesNetKeeps, PagesMoveKeeps, DetachKeeps
<1>5. ASSUME NEW j \in rec.reads, ReadEnds(j) PROVE RecordingInv'
  BY <1>5, ReadEndsKeeps
<1>6. CASE JournalWrites \/ StopBegins \/ BodiesRead \/ StopRecords \/ StopDone \/ Forgets
           \/ StopAsked \/ ClearAsked \/ AccessEnds \/ ChildMoves
  BY <1>6, JournalWritesKeeps, StopBeginsKeeps, BodiesReadKeeps, StopRecordsKeeps, StopDoneKeeps,
     ForgetsKeeps, StopAskedKeeps, ClearAskedKeeps, PagesMoveKeeps
<1> QED
  BY <1>1, <1>2, <1>3, <1>4, <1>5, <1>6 DEF RecordingNext

\* However start, poll, body reads, journal, stop and Chrome's interference are
\* ordered: a stopped recording holds nothing but what a poll failed to stop in a tab
\* that it let go, its journal can be replayed, and the
\* network is let go of after the last body was read (background-recording.ts).
THEOREM RecordingsKept == RecordingSpec => []RecordingKept
<1>1. RecordingInit => RecordingInv
  <2> SUFFICES ASSUME RecordingInit PROVE RecordingInv
    OBVIOUS
  <2>1. PICK durable \in BOOLEAN :
         rec = [durable |-> durable, kept |-> FALSE, clearing |-> FALSE,
                active |-> FALSE, reason |-> "none",
                start |-> "none", poll |-> "off", stop |-> "none", todo |-> {}, hand |-> NoRecorder,
                nets |-> {}, kids |-> {}, next |-> 0, gaps |-> 0, queue |-> <<>>, reads |-> {},
                journal |-> <<>>, written |-> 0, broken |-> FALSE]
    BY DEF RecordingInit
  <2>2. rec \in Recordings
    BY <2>1, RecorderTypes DEF Recordings, Reasons, Early
  <2>3. /\ ~rec.active /\ rec.reason = "none" /\ rec.start = "none" /\ rec.poll = "off"
        /\ rec.stop = "none" /\ rec.nets = {} /\ rec.kids = {}
    BY <2>1
  <2>4. /\ rec.queue = <<>> /\ rec.reads = {} /\ rec.journal = <<>> /\ rec.written = 0
    BY <2>1
  <2>5. JournalInv(rec)
    BY <2>4 DEF JournalInv
  <2>6. JobsInv(rec)
    BY <2>4, FS_EmptySet, ReadsAssumption DEF JobsInv
  <2>7. EndInv(rec) /\ StopInv(rec)
    BY <2>3, <2>4 DEF EndInv, StopInv
  <2>8. Places(rec)
    BY <2>3, <2>4 DEF Places, Early, Late
  <2>9. PagesInv
    BY <2>3, RecorderTypes DEF RecordingInit, PagesInv, Late
  <2> QED
    BY <2>2, <2>5, <2>6, <2>7, <2>8, <2>9 DEF RecordingInv, Core
<1>2. RecordingInv => RecordingKept
  <2> SUFFICES ASSUME RecordingInv PROVE RecordingKept
    OBVIOUS
  <2>1. StoppedHoldsNothing
    BY DEF RecordingInv, Places, PagesInv, StoppedHoldsNothing, Late
  <2>2. BodiesInTime
    BY DEF RecordingInv, Places, BodiesInTime
  <2>3. JournalReplays
    <3>1. {n \in DOMAIN rec.journal : rec.journal[n][1] = "header"} \subseteq {1}
      BY DEF RecordingInv, Core, JournalInv
    <3>2. {n \in DOMAIN rec.journal : rec.journal[n][1] = "end"} \subseteq {Len(rec.journal)}
      BY DEF RecordingInv, Core, EndInv
    <3>3. \A m, n \in {n \in DOMAIN rec.journal : rec.journal[n][1] = "event"} :
            m < n => rec.journal[m][2] < rec.journal[n][2]
      BY DEF RecordingInv, Core, JournalInv, Event
    <3>4. \A n \in {n \in DOMAIN rec.journal : rec.journal[n][1] = "body"}
                   \union {n \in DOMAIN rec.journal : rec.journal[n][1] = "update"} :
            \E m \in {n1 \in DOMAIN rec.journal : rec.journal[n1][1] = "event"} :
              m < n /\ rec.journal[m][2] = rec.journal[n][2]
      BY DEF RecordingInv, Core, JournalInv, Event, Answer
    <3>5. rec.stop = "done" /\ rec.durable /\ ~rec.broken =>
            rec.written = Len(rec.journal)
              /\ {n \in DOMAIN rec.journal : rec.journal[n][1] = "end"} # {}
      BY DEF RecordingInv, Places, Core, EndInv, Ended
    <3> QED
      BY <3>1, <3>2, <3>3, <3>4, <3>5 DEF JournalReplays
  <2> QED
    BY <2>1, <2>2, <2>3 DEF RecordingKept
<1> QED
  BY <1>1, <1>2, RecordingInvStays, PTL DEF RecordingSpec

-----------------------------------------------------------------------------
(* Input through the debugger.                                               *)

\* What happens between a press and its release.
Between == {"hold", "look", "move"}
InputStep == Message \union Command \union {"hold"}

GestureRecord ==
    [stage : {"none", "queued", "running", "over"}, todo : Seq(InputStep),
     sent : InputStep \union {"none"}, down : BOOLEAN, observed : BOOLEAN, typed : BOOLEAN,
     barred : BOOLEAN, interrupted : BOOLEAN, unreleased : BOOLEAN, excess : BOOLEAN]

\* The next thing but waiting and moving is a release.
NextUp(s) == \E j \in DOMAIN s : s[j] = "up" /\ \A k \in 1..(j - 1) : s[k] \in Between

\* Every press is followed by its release before anything that may end the script.
Released(s) ==
    \A i \in DOMAIN s : s[i] = "down" =>
        \E j \in DOMAIN s : j > i /\ s[j] = "up" /\ \A k \in (i + 1)..(j - 1) : s[k] \in Between

\* An observation is begun first and ended last.
Framed(s) ==
    /\ \A i \in DOMAIN s : s[i] = "observe" => i = 1 /\ Len(s) >= 2 /\ s[Len(s)] = "unobserve"
    /\ \A i \in DOMAIN s : s[i] = "unobserve" => i = Len(s)

EndsObserved(s) == s # <<>> /\ s[Len(s)] = "unobserve" /\ s[1] # "observe"

\* What a call knows of its gesture wherever it is.
GestureOK(r) ==
    /\ r \in GestureRecord /\ Released(r.todo) /\ Framed(r.todo)
    /\ r.sent # "none" => r.stage = "running" /\ r.todo # <<>> /\ r.sent = r.todo[1]
    /\ ~r.excess
    /\ r.stage \in {"none", "queued"} => ~r.down /\ ~r.observed
    /\ r.stage = "over" => r.todo = <<>>
    /\ r.down /\ ~r.unreleased => NextUp(r.todo)
    /\ r.observed => EndsObserved(r.todo)

\* The debugger's queue holds the calls that are not over, each once; the first runs.
InputQueueOK ==
    /\ inputQueue \in Seq(Gesture)
    /\ \A g \in Gesture : gesture[g].stage \in {"queued", "running"} <=>
                             \E i \in DOMAIN inputQueue : inputQueue[i] = g
    /\ \A i, j \in DOMAIN inputQueue : inputQueue[i] = inputQueue[j] => i = j
    /\ \A g \in Gesture : gesture[g].stage = "running" => inputQueue[1] = g

InputInv ==
    /\ DOMAIN gesture = Gesture /\ gesture = [g \in Gesture |-> gesture[g]]
    /\ \A g \in Gesture : GestureOK(gesture[g])
    /\ InputQueueOK

-----------------------------------------------------------------------------
(* Scripts.                                                                   *)

\* A stretch of a script that presses and lets go.
Part(s) == /\ s \in Seq(InputStep \ {"observe", "unobserve"}) /\ Released(s)

LEMMA PartsJoin == ASSUME NEW s, NEW t, Part(s), Part(t) PROVE Part(s \o t)
<1> DEFINE u == s \o t
<1>1. s \in Seq(InputStep) /\ t \in Seq(InputStep) /\ u \in Seq(InputStep \ {"observe", "unobserve"})
  BY DEF Part
<1>2. /\ Len(u) = Len(s) + Len(t)
      /\ \A i \in 1..Len(s) : u[i] = s[i]
      /\ \A i \in 1..Len(t) : u[i + Len(s)] = t[i]
  BY DEF Part
<1>l. Len(s) \in Nat /\ Len(t) \in Nat /\ DOMAIN u = 1..Len(u) /\ DOMAIN s = 1..Len(s) /\ DOMAIN t = 1..Len(t)
  BY <1>1
<1> HIDE DEF u
<1>3. ASSUME NEW i \in 1..Len(u), u[i] = "down"
      PROVE \E j \in 1..Len(u) : j > i /\ u[j] = "up" /\ \A k \in (i + 1)..(j - 1) : u[k] \in Between
  <2>1. CASE i <= Len(s)
    <3>0. i \in DOMAIN s /\ s[i] = "down"
      BY <2>1, <1>2, <1>3, <1>l
    <3>1. PICK j \in DOMAIN s : j > i /\ s[j] = "up" /\ \A k \in (i + 1)..(j - 1) : s[k] \in Between
      BY <3>0 DEF Part, Released
    <3> QED
      BY <3>1, <2>1, <1>2, <1>l
  <2>2. CASE i > Len(s)
    <3> DEFINE h == i - Len(s)
    <3>0. h \in DOMAIN t /\ t[h] = "down" /\ h + Len(s) = i
      <4>1. h \in 1..Len(t) /\ h + Len(s) = i
        BY <2>2, <1>2, <1>3, <1>l
      <4> QED
        BY <4>1, <1>2, <1>3, <1>l
    <3> HIDE DEF h
    <3>1. PICK j \in DOMAIN t : j > h /\ t[j] = "up" /\ \A k \in (h + 1)..(j - 1) : t[k] \in Between
      BY <3>0 DEF Part, Released
    <3> DEFINE m == j + Len(s)
    <3>2. m \in 1..Len(u) /\ m > i /\ u[m] = "up" /\ i \in Nat
      BY <3>1, <3>0, <1>2, <1>l
    <3>3. ASSUME NEW k \in (i + 1)..(m - 1) PROVE u[k] \in Between
      <4> DEFINE n == k - Len(s)
      <4>1. n \in (h + 1)..(j - 1) /\ n \in 1..Len(t) /\ n + Len(s) = k
        BY <3>1, <3>0, <1>l, <3>2
      <4> HIDE DEF n
      <4> QED
        BY <4>1, <3>1, <1>2
    <3> QED
      BY <3>2, <3>3
  <2> QED
    BY <2>1, <2>2, <1>3, <1>l
<1> QED
  BY <1>1, <1>3, <1>l DEF Part, Released, u

\* A stretch without presses.
LEMMA PlainPart == ASSUME NEW s \in Seq(InputStep \ {"observe", "unobserve", "down"}) PROVE Part(s)
  BY DEF Part, Released

LEMMA PressPart == ASSUME NEW s \in Seq(Between) PROVE Part(Press(s))
<1> DEFINE u == Press(s)
<1>1. /\ u \in Seq(InputStep \ {"observe", "unobserve"}) /\ DOMAIN u = 1..Len(u)
      /\ Len(u) = Len(s) + 2 /\ Len(s) \in Nat
      /\ u[1] = "down" /\ u[Len(s) + 2] = "up"
      /\ \A i \in 2..(Len(s) + 1) : u[i] = s[i - 1]
  BY DEF Press, Between, InputStep, Message, Command
<1>2. \A i \in 2..(Len(s) + 1) : u[i] \in Between
  BY <1>1
<1> HIDE DEF u
<1>3. ASSUME NEW i \in DOMAIN u, u[i] = "down"
      PROVE \E j \in DOMAIN u : j > i /\ u[j] = "up" /\ \A k \in (i + 1)..(j - 1) : u[k] \in Between
  <2>1. i = 1
    BY <1>1, <1>2, <1>3 DEF Between
  <2> QED
    BY <2>1, <1>1, <1>2
<1> QED
  BY <1>1, <1>3 DEF Part, Released, u

LEMMA ScriptParts == ASSUME NEW s \in Scripts PROVE Part(s) /\ s # <<>>
<1> DEFINE P(x) == Part(x) /\ x # <<>>
<1>0. /\ \A x, y : P(x) /\ P(y) => P(x \o y)
      /\ \A x \in Seq(Between) : P(Press(x))
  <2>1. ASSUME NEW x, NEW y, P(x), P(y) PROVE P(x \o y)
    <3>1. Part(x \o y)
      BY <2>1, PartsJoin
    <3>2. x \in Seq(InputStep) /\ y \in Seq(InputStep) /\ x # <<>>
      BY <2>1 DEF Part
    <3> QED
      BY <3>1, <3>2
  <2>2. ASSUME NEW x \in Seq(Between) PROVE Press(x) # <<>>
    BY DEF Press
  <2> QED
    BY <2>1, <2>2, PressPart
<1>1. \A x \in Seq(InputStep \ {"observe", "unobserve", "down"}) : x # <<>> => P(x)
  BY PlainPart
<1>2. /\ <<>> \in Seq(Between) /\ <<"hold">> \in Seq(Between)
      /\ <<"look", "move">> \in Seq(Between) /\ <<"hold", "move">> \in Seq(Between)
  BY DEF Between
<1>3. /\ P(<<"look", "move">>) /\ P(<<"look">>) /\ P(<<"look", "move", "hold">>)
      /\ P(<<"look", "check">>) /\ P(<<"check", "insert", "check">>) /\ P(<<"read">>)
      /\ P(<<"look", "check", "insert", "read">>)
  <2>1. /\ <<"look", "move">> \in Seq(InputStep \ {"observe", "unobserve", "down"})
        /\ <<"look">> \in Seq(InputStep \ {"observe", "unobserve", "down"})
        /\ <<"look", "move", "hold">> \in Seq(InputStep \ {"observe", "unobserve", "down"})
        /\ <<"look", "check">> \in Seq(InputStep \ {"observe", "unobserve", "down"})
        /\ <<"check", "insert", "check">> \in Seq(InputStep \ {"observe", "unobserve", "down"})
        /\ <<"read">> \in Seq(InputStep \ {"observe", "unobserve", "down"})
        /\ <<"look", "check", "insert", "read">> \in Seq(InputStep \ {"observe", "unobserve", "down"})
    BY DEF InputStep, Message, Command
  <2> HIDE DEF P
  <2> QED
    BY <2>1, <1>1
<1>4. /\ P(Press(<<>>)) /\ P(Press(<<"hold">>)) /\ P(Press(<<"look", "move">>)) /\ P(Press(<<"hold", "move">>))
  BY <1>0, <1>2
<1> HIDE DEF P
<1>5. s \in Scripts
  OBVIOUS
<1>6. P(s)
  BY <1>0, <1>3, <1>4, <1>5, Zenon DEF Scripts, Typing
<1> QED
  BY <1>6 DEF P

-----------------------------------------------------------------------------
(* A gesture goes on, or fails.                                               *)

LEMMA TailIs ==
  ASSUME NEW s \in Seq(InputStep), s # <<>>
  PROVE  /\ Tail(s) \in Seq(InputStep) /\ Len(s) \in Nat \ {0} /\ Len(Tail(s)) = Len(s) - 1
         /\ DOMAIN s = 1..Len(s) /\ DOMAIN Tail(s) = 1..(Len(s) - 1)
         /\ \A i \in 1..(Len(s) - 1) : Tail(s)[i] = s[i + 1]
  OBVIOUS

LEMMA TailReleased ==
  ASSUME NEW s \in Seq(InputStep), s # <<>>, Released(s)
  PROVE  Released(Tail(s)) /\ (s[1] = "down" => NextUp(Tail(s)))
<1> DEFINE u == Tail(s)
<1>1. /\ u \in Seq(InputStep) /\ Len(s) \in Nat \ {0} /\ Len(u) = Len(s) - 1
      /\ DOMAIN s = 1..Len(s) /\ DOMAIN u = 1..(Len(s) - 1)
      /\ \A i \in 1..(Len(s) - 1) : u[i] = s[i + 1]
  BY TailIs
<1> HIDE DEF u
<1>2. ASSUME NEW i \in DOMAIN u, u[i] = "down"
      PROVE \E j \in DOMAIN u : j > i /\ u[j] = "up" /\ \A k \in (i + 1)..(j - 1) : u[k] \in Between
  <2>1. i + 1 \in DOMAIN s /\ s[i + 1] = "down" /\ i \in Nat
    BY <1>1, <1>2
  <2>2. PICK j \in DOMAIN s : j > i + 1 /\ s[j] = "up" /\ \A k \in (i + 2)..(j - 1) : s[k] \in Between
    <3>1. \E j \in DOMAIN s : j > i + 1 /\ s[j] = "up" /\ \A k \in ((i + 1) + 1)..(j - 1) : s[k] \in Between
      BY <2>1 DEF Released
    <3>2. (i + 1) + 1 = i + 2
      BY <2>1
    <3> QED
      BY <3>1, <3>2
  <2> DEFINE m == j - 1
  <2>3. m \in DOMAIN u /\ m > i /\ u[m] = "up"
    BY <2>2, <1>1, <2>1
  <2>4. ASSUME NEW k \in (i + 1)..(m - 1) PROVE u[k] \in Between
    <3>1. k + 1 \in (i + 2)..(j - 1) /\ k \in 1..(Len(s) - 1)
      BY <2>1, <2>2, <1>1
    <3> QED
      BY <3>1, <2>2, <1>1
  <2> QED
    BY <2>3, <2>4
<1>3. ASSUME s[1] = "down" PROVE NextUp(u)
  <2>1. PICK j \in DOMAIN s : j > 1 /\ s[j] = "up" /\ \A k \in 2..(j - 1) : s[k] \in Between
    <3>1. \E j \in DOMAIN s : j > 1 /\ s[j] = "up" /\ \A k \in (1 + 1)..(j - 1) : s[k] \in Between
      BY <1>3, <1>1 DEF Released
    <3> QED
      BY <3>1
  <2> DEFINE m == j - 1
  <2>2. m \in DOMAIN u /\ u[m] = "up"
    BY <2>1, <1>1
  <2>3. ASSUME NEW k \in 1..(m - 1) PROVE u[k] \in Between
    <3>1. k + 1 \in 2..(j - 1) /\ k \in 1..(Len(s) - 1)
      BY <2>1, <1>1
    <3> QED
      BY <3>1, <2>1, <1>1
  <2> QED
    BY <2>2, <2>3 DEF NextUp
<1> QED
  BY <1>2, <1>3 DEF Released, u

LEMMA TailUp ==
  ASSUME NEW s \in Seq(InputStep), s # <<>>, NextUp(s), s[1] # "up"
  PROVE  NextUp(Tail(s))
<1> DEFINE u == Tail(s)
<1>1. /\ u \in Seq(InputStep) /\ Len(s) \in Nat \ {0} /\ Len(u) = Len(s) - 1
      /\ DOMAIN s = 1..Len(s) /\ DOMAIN u = 1..(Len(s) - 1)
      /\ \A i \in 1..(Len(s) - 1) : u[i] = s[i + 1]
  BY TailIs
<1> HIDE DEF u
<1>2. PICK j \in DOMAIN s : s[j] = "up" /\ \A k \in 1..(j - 1) : s[k] \in Between
  BY DEF NextUp
<1> DEFINE m == j - 1
<1>3. m \in DOMAIN u /\ u[m] = "up"
  BY <1>1, <1>2
<1>4. ASSUME NEW k \in 1..(m - 1) PROVE u[k] \in Between
  <2>1. k + 1 \in 1..(j - 1) /\ k \in 1..(Len(s) - 1)
    BY <1>1, <1>2
  <2> QED
    BY <2>1, <1>1, <1>2
<1>5. NextUp(u)
  BY <1>3, <1>4 DEF NextUp
<1> QED
  BY <1>5 DEF u

LEMMA TailFramed ==
  ASSUME NEW s \in Seq(InputStep), s # <<>>, Framed(s)
  PROVE  /\ Framed(Tail(s)) /\ \A i \in DOMAIN Tail(s) : Tail(s)[i] # "observe"
         /\ EndsObserved(s) /\ s[1] # "unobserve" => EndsObserved(Tail(s))
         /\ s[1] = "observe" => EndsObserved(Tail(s))
<1> DEFINE u == Tail(s)
<1>1. /\ u \in Seq(InputStep) /\ Len(s) \in Nat \ {0} /\ Len(u) = Len(s) - 1
      /\ DOMAIN s = 1..Len(s) /\ DOMAIN u = 1..(Len(s) - 1)
      /\ \A i \in 1..(Len(s) - 1) : u[i] = s[i + 1]
  BY TailIs
<1> HIDE DEF u
<1>2. Framed(u) /\ \A i \in DOMAIN u : u[i] # "observe"
  <2>1. ASSUME NEW i \in DOMAIN u, u[i] = "observe" PROVE FALSE
    <3>1. i + 1 \in DOMAIN s /\ s[i + 1] = "observe" /\ i + 1 # 1
      BY <1>1, <2>1
    <3> QED
      BY <3>1 DEF Framed
  <2>2. ASSUME NEW i \in DOMAIN u, u[i] = "unobserve" PROVE i = Len(u)
    <3>1. i + 1 \in DOMAIN s /\ s[i + 1] = "unobserve"
      BY <1>1, <2>2
    <3>2. i + 1 = Len(s)
      BY <3>1 DEF Framed
    <3> QED
      BY <3>2, <1>1
  <2> QED
    BY <2>1, <2>2 DEF Framed
<1>3. ASSUME Len(s) > 1, s[Len(s)] = "unobserve" PROVE EndsObserved(u)
  BY <1>1, <1>2, <1>3 DEF EndsObserved
<1>4. EndsObserved(s) /\ s[1] # "unobserve" => EndsObserved(u)
  BY <1>1, <1>3 DEF EndsObserved
<1>5. s[1] = "observe" => EndsObserved(u)
  BY <1>1, <1>3 DEF Framed
<1> QED
  BY <1>2, <1>4, <1>5 DEF u

\* The observation could not begin: it need not end.
LEMMA FrontOK ==
  ASSUME NEW s \in Seq(InputStep), s # <<>>, Released(s), Framed(s), s[Len(s)] = "unobserve",
         \A i \in DOMAIN s : s[i] # "observe"
  PROVE  Front(s) \in Seq(InputStep) /\ Released(Front(s)) /\ Framed(Front(s))
<1> DEFINE u == Front(s)
<1>1. /\ u \in Seq(InputStep) /\ Len(s) \in Nat \ {0} /\ Len(u) = Len(s) - 1
      /\ DOMAIN s = 1..Len(s) /\ DOMAIN u = 1..(Len(s) - 1)
      /\ \A i \in 1..(Len(s) - 1) : u[i] = s[i]
  <2> DEFINE n == Len(s) - 1
  <2>1. n \in Nat /\ DOMAIN s = 1..Len(s) /\ Len(s) \in Nat \ {0} /\ u = SubSeq(s, 1, n)
    BY DEF Front
  <2> HIDE DEF n, u
  <2>2. \A i \in 1..n : s[i] \in InputStep
    BY <2>1 DEF n
  <2>3. /\ u \in Seq(InputStep) /\ Len(u) = (IF 1 <= n THEN n - 1 + 1 ELSE 0)
        /\ \A i \in 1..(n - 1 + 1) : u[i] = s[1 + i - 1]
    BY <2>1, <2>2, SubSeqProperties
  <2>4. DOMAIN u = 1..Len(u)
    BY <2>3
  <2> QED
    BY <2>1, <2>3, <2>4 DEF n
<1> HIDE DEF u
<1>2. Released(u)
  <2>1. ASSUME NEW i \in DOMAIN u, u[i] = "down"
        PROVE \E j \in DOMAIN u : j > i /\ u[j] = "up" /\ \A k \in (i + 1)..(j - 1) : u[k] \in Between
    <3>1. PICK j \in DOMAIN s : j > i /\ s[j] = "up" /\ \A k \in (i + 1)..(j - 1) : s[k] \in Between
      BY <1>1, <2>1 DEF Released
    <3>2. j \in DOMAIN u
      <4>1. j # Len(s) /\ j \in 1..Len(s)
        BY <3>1, <1>1
      <4> QED
        BY <3>1, <4>1, <1>1
    <3>3. i \in Nat /\ j \in Nat /\ j <= Len(s) - 1
      BY <2>1, <3>2, <1>1
    <3>4. ASSUME NEW k \in (i + 1)..(j - 1) PROVE u[k] \in Between
      <4>1. k \in 1..(Len(s) - 1)
        BY <3>3, <1>1
      <4> QED
        BY <4>1, <3>1, <1>1
    <3>5. u[j] = "up"
      BY <3>1, <3>2, <1>1
    <3> QED
      BY <3>1, <3>2, <3>4, <3>5
  <2> QED
    BY <2>1 DEF Released
<1>3. \A i \in DOMAIN u : u[i] # "unobserve"
  BY <1>1 DEF Framed
<1> QED
  BY <1>1, <1>2, <1>3 DEF Framed, u

LEMMA Advances ==
  ASSUME NEW r, GestureOK(r), r.todo # <<>>,
         NEW n \in GestureRecord, n.todo = Tail(r.todo), n.sent = "none", n.stage = "running", ~n.excess,
         n.down /\ ~n.unreleased => \/ r.todo[1] = "down"
                                    \/ r.down /\ ~r.unreleased /\ r.todo[1] # "up",
         n.observed => \/ r.observed /\ r.todo[1] # "unobserve"
                       \/ r.todo[1] = "observe"
  PROVE  GestureOK(n)
<1>1. r.todo \in Seq(InputStep) /\ Released(r.todo) /\ Framed(r.todo)
  BY DEF GestureOK, GestureRecord
<1>2. Released(Tail(r.todo)) /\ Framed(Tail(r.todo))
  BY <1>1, TailReleased, TailFramed
<1>3. n.down /\ ~n.unreleased => NextUp(n.todo)
  <2>1. CASE r.todo[1] = "down"
    BY <2>1, <1>1, TailReleased
  <2>2. CASE r.down /\ ~r.unreleased /\ r.todo[1] # "up"
    <3>1. NextUp(r.todo)
      BY <2>2 DEF GestureOK
    <3> QED
      BY <3>1, <2>2, <1>1, TailUp
  <2> QED
    BY <2>1, <2>2
<1>4. n.observed => EndsObserved(n.todo)
  <2>1. CASE r.observed /\ r.todo[1] # "unobserve"
    <3>1. EndsObserved(r.todo)
      BY <2>1 DEF GestureOK
    <3> QED
      BY <3>1, <2>1, <1>1, TailFramed
  <2>2. CASE r.todo[1] = "observe"
    BY <2>2, <1>1, TailFramed
  <2> QED
    BY <2>1, <2>2
<1> QED
  BY <1>2, <1>3, <1>4 DEF GestureOK

\* What an error leaves to do: a release, the end of the observation, or both.
LEMMA LeftOver ==
  ASSUME NEW s \in {<<>>, <<"up">>, <<"unobserve">>, <<"up", "unobserve">>}
  PROVE  /\ s \in Seq(InputStep) /\ Released(s) /\ Framed(s)
         /\ s \in {<<"up">>, <<"up", "unobserve">>} => NextUp(s)
         /\ s \in {<<"unobserve">>, <<"up", "unobserve">>} => EndsObserved(s)
<1>1. CASE s = <<>>
  <2>1. s \in Seq(InputStep) /\ DOMAIN s = {}
    BY <1>1
  <2> QED
    BY <1>1, <2>1 DEF Released, Framed
<1>2. CASE s = <<"up">>
  <2>1. s \in Seq(InputStep) /\ DOMAIN s = 1..1 /\ Len(s) = 1 /\ s[1] = "up"
    BY <1>2 DEF InputStep, Command
  <2> QED
    BY <1>2, <2>1 DEF Released, Framed, NextUp
<1>3. CASE s = <<"unobserve">>
  <2>1. s \in Seq(InputStep) /\ DOMAIN s = 1..1 /\ Len(s) = 1 /\ s[1] = "unobserve"
    BY <1>3 DEF InputStep, Message
  <2> QED
    BY <1>3, <2>1 DEF Released, Framed, EndsObserved
<1>4. CASE s = <<"up", "unobserve">>
  <2>1. s \in Seq(InputStep) /\ DOMAIN s = 1..2 /\ Len(s) = 2 /\ s[1] = "up" /\ s[2] = "unobserve"
    BY <1>4 DEF InputStep, Message, Command
  <2> QED
    BY <1>4, <2>1 DEF Released, Framed, EndsObserved, NextUp
<1> QED
  BY <1>1, <1>2, <1>3, <1>4

\* After a failure what is down is released and the observation ended.
LEMMA GestureFails ==
  ASSUME NEW r \in GestureRecord, ~r.excess, r.stage \in {"queued", "running"},
         r.down /\ ~r.unreleased => r.todo[1] # "up"
  PROVE  /\ GestureOK([Failed(r) EXCEPT !.stage = "running"])
         /\ r.stage = "running" => Failed(r) = [Failed(r) EXCEPT !.stage = "running"]
<1> DEFINE releases == r.down /\ Head(r.todo) # "up"
           todo == (IF releases THEN <<"up">> ELSE <<>>) \o (IF r.observed THEN <<"unobserve">> ELSE <<>>)
           n == [Failed(r) EXCEPT !.stage = "running"]
<1>c. /\ <<"up">> \o <<>> = <<"up">> /\ <<>> \o <<"unobserve">> = <<"unobserve">>
      /\ <<>> \o <<>> = <<>> /\ <<"up">> \o <<"unobserve">> = <<"up", "unobserve">>
  <2>1. <<"up">> \in Seq({"up", "unobserve"}) /\ <<"unobserve">> \in Seq({"up", "unobserve"})
        /\ <<>> \in Seq({"up", "unobserve"})
    OBVIOUS
  <2>2. /\ <<"up">> \o <<>> = <<"up">> /\ <<>> \o <<"unobserve">> = <<"unobserve">>
        /\ <<>> \o <<>> = <<>>
    BY <2>1, ConcatEmptySeq, Zenon
  <2>3. <<"up">> \o <<"unobserve">> = <<"up", "unobserve">>
    <3> DEFINE s == <<"up">> \o <<"unobserve">>
               w == <<"up", "unobserve">>
    <3>1. s \in Seq({"up", "unobserve"}) /\ Len(s) = 2 /\ s[1] = "up" /\ s[2] = "unobserve"
      OBVIOUS
    <3>2. w \in Seq({"up", "unobserve"}) /\ Len(w) = 2 /\ w[1] = "up" /\ w[2] = "unobserve"
      OBVIOUS
    <3> HIDE DEF s, w
    <3>3. s = w
      <4>1. \A i \in 1..Len(s) : s[i] = w[i]
        BY <3>1, <3>2
      <4> QED
        BY <3>1, <3>2, <4>1, SeqEqual
    <3> QED
      BY <3>3 DEF s, w
  <2> QED
    BY <2>2, <2>3
<1>2. /\ todo \in {<<>>, <<"up">>, <<"unobserve">>, <<"up", "unobserve">>}
      /\ releases => todo \in {<<"up">>, <<"up", "unobserve">>}
      /\ r.observed => todo \in {<<"unobserve">>, <<"up", "unobserve">>}
  <2>1. CASE releases
    BY <1>c, <2>1
  <2>2. CASE ~releases
    BY <1>c, <2>2
  <2> QED
    BY <2>1, <2>2
<1>0. n = [r EXCEPT !.sent = "none", !.todo = todo, !.stage = "running"]
  BY DEF Failed, GestureRecord
<1> HIDE DEF todo
<1>3. /\ todo \in Seq(InputStep) /\ Released(todo) /\ Framed(todo)
      /\ releases => NextUp(todo)
      /\ r.observed => EndsObserved(todo)
  BY <1>2, LeftOver
<1> HIDE DEF n
<1>1. /\ n \in GestureRecord /\ n.todo = todo /\ n.sent = "none" /\ n.stage = "running"
      /\ n.down = r.down /\ n.observed = r.observed /\ n.unreleased = r.unreleased /\ n.excess = r.excess
  BY <1>0, <1>3 DEF GestureRecord
<1>4. r.down /\ ~r.unreleased => releases
  <2>1. Head(r.todo) = r.todo[1]
    OBVIOUS
  <2> QED
    BY <2>1 DEF GestureRecord
<1>7. GestureOK(n)
  BY <1>1, <1>3, <1>4 DEF GestureOK
<1>8. r.stage = "running" => Failed(r) = n
  BY DEF Failed, GestureRecord, n
<1> QED
  BY <1>7, <1>8 DEF n

-----------------------------------------------------------------------------
(* Every step.                                                                *)

\* One gesture changes and stays where it is in the debugger's queue.
LEMMA GestureChanges ==
  ASSUME InputInv, NEW g \in Gesture, NEW n, GestureOK(n), Becomes(g, n), UNCHANGED inputQueue,
         \/ n.stage = gesture[g].stage
         \/ gesture[g].stage = "queued" /\ n.stage = "running" /\ inputQueue[1] = g
  PROVE  InputInv'
<1>1. /\ DOMAIN gesture' = Gesture /\ gesture' = [h \in Gesture |-> gesture'[h]]
      /\ gesture'[g] = n /\ \A h \in Gesture : h # g => gesture'[h] = gesture[h]
  BY DEF InputInv, Becomes
<1>2. \A h \in Gesture : GestureOK(gesture'[h])
  BY <1>1 DEF InputInv
<1>3. \A h \in Gesture :
        \/ gesture'[h].stage = gesture[h].stage
        \/ h = g /\ gesture[h].stage = "queued" /\ gesture'[h].stage = "running" /\ inputQueue[1] = h
  BY <1>1
<1>4. InputQueueOK'
  BY <1>3 DEF InputInv, InputQueueOK
<1> QED
  BY <1>1, <1>2, <1>4 DEF InputInv

LEMMA InputBegins == InputInit => InputInv
<1> SUFFICES ASSUME InputInit PROVE InputInv
  OBVIOUS
<1>1. GestureOK(NoGesture)
  BY DEF GestureOK, GestureRecord, NoGesture, Released, Framed, InputStep, Message, Command
<1> QED
  BY <1>1 DEF InputInit, InputInv, InputQueueOK, NoGesture

LEMMA CalledKeeps == ASSUME InputInv, NEW g \in Gesture, InputCalled(g) PROVE InputInv'
<1>1. PICK script \in Scripts, observe \in BOOLEAN :
        Becomes(g, [NoGesture EXCEPT
           !.stage = "queued",
           !.todo = IF observe THEN <<"observe">> \o script \o <<"unobserve">> ELSE script])
  BY DEF InputCalled
<1> DEFINE todo == IF observe THEN <<"observe">> \o script \o <<"unobserve">> ELSE script
           n == [NoGesture EXCEPT !.stage = "queued", !.todo = todo]
<1>2. Part(script) /\ script # <<>>
  BY ScriptParts
<1>3. todo \in Seq(InputStep) /\ Released(todo) /\ Framed(todo)
  <2>1. script \in Seq(InputStep \ {"observe", "unobserve"}) /\ Released(script)
    BY <1>2 DEF Part
  <2>2. CASE ~observe
    BY <2>1, <2>2 DEF Framed
  <2>3. CASE observe
    <3> DEFINE u == <<"observe">> \o script \o <<"unobserve">>
    <3>1. /\ u \in Seq(InputStep) /\ Len(u) = Len(script) + 2 /\ Len(script) \in Nat
          /\ DOMAIN u = 1..Len(u) /\ DOMAIN script = 1..Len(script)
          /\ u[1] = "observe" /\ u[Len(u)] = "unobserve"
          /\ \A i \in 1..Len(script) : u[i + 1] = script[i]
      BY <2>1 DEF InputStep, Message
    <3>2. \A i \in DOMAIN script : script[i] \notin {"observe", "unobserve"}
      BY <2>1
    <3> HIDE DEF u
    <3>3. \A i \in DOMAIN u : i = 1 \/ i = Len(u) \/ (i - 1 \in DOMAIN script /\ u[i] = script[i - 1])
      <4> TAKE i \in DOMAIN u
      <4>1. i = 1 \/ i = Len(u) \/ i - 1 \in 1..Len(script)
        BY <3>1
      <4>2. i - 1 \in 1..Len(script) => u[(i - 1) + 1] = script[i - 1]
        BY <3>1
      <4>3. (i - 1) + 1 = i
        BY <3>1
      <4> QED
        BY <4>1, <4>2, <4>3, <3>1
    <3>4. Framed(u)
      <4>1. ASSUME NEW i \in DOMAIN u, u[i] = "observe" PROVE i = 1
        BY <3>1, <3>2, <3>3, <4>1
      <4>2. ASSUME NEW i \in DOMAIN u, u[i] = "unobserve" PROVE i = Len(u)
        BY <3>1, <3>2, <3>3, <4>2
      <4> QED
        BY <4>1, <4>2, <3>1 DEF Framed
    <3>5. Released(u)
      <4>1. ASSUME NEW i \in DOMAIN u, u[i] = "down"
            PROVE \E j \in DOMAIN u : j > i /\ u[j] = "up" /\ \A k \in (i + 1)..(j - 1) : u[k] \in Between
        <5> DEFINE h == i - 1
        <5>1. h \in DOMAIN script /\ script[h] = "down" /\ i = h + 1
          BY <4>1, <3>1, <3>3
        <5>2. PICK j \in DOMAIN script : j > h /\ script[j] = "up" /\ \A k \in (h + 1)..(j - 1) : script[k] \in Between
          BY <5>1, <2>1 DEF Released
        <5> DEFINE m == j + 1
        <5>3. m \in DOMAIN u /\ m > i /\ u[m] = "up"
          BY <5>1, <5>2, <3>1
        <5>4. ASSUME NEW k \in (i + 1)..(m - 1) PROVE u[k] \in Between
          <6>1. k - 1 \in (h + 1)..(j - 1) /\ k - 1 \in 1..Len(script) /\ (k - 1) + 1 = k
            BY <5>1, <5>2, <3>1
          <6> QED
            BY <6>1, <5>2, <3>1
        <5> QED
          BY <5>3, <5>4
      <4> QED
        BY <4>1 DEF Released
    <3> QED
      BY <2>3, <3>1, <3>4, <3>5 DEF u
  <2> QED
    BY <2>2, <2>3
<1> HIDE DEF todo
<1>4. n \in GestureRecord /\ n.todo = todo /\ n.stage = "queued" /\ n.sent = "none"
      /\ ~n.down /\ ~n.observed /\ ~n.excess
  BY <1>3 DEF NoGesture, GestureRecord
<1> HIDE DEF n
<1>5. GestureOK(n)
  BY <1>3, <1>4 DEF GestureOK
<1>6. Becomes(g, n)
  BY <1>1 DEF n, todo
<1>7. /\ DOMAIN gesture' = Gesture /\ gesture' = [h \in Gesture |-> gesture'[h]]
      /\ gesture'[g] = n /\ \A h \in Gesture : h # g => gesture'[h] = gesture[h]
  BY <1>6 DEF InputInv, Becomes
<1>8. inputQueue' = Append(inputQueue, g) /\ gesture[g].stage = "none"
  BY DEF InputCalled
<1>9. InputQueueOK'
  <2>1. /\ inputQueue' \in Seq(Gesture) /\ Len(inputQueue') = Len(inputQueue) + 1 /\ Len(inputQueue) \in Nat
        /\ DOMAIN inputQueue' = 1..(Len(inputQueue) + 1) /\ DOMAIN inputQueue = 1..Len(inputQueue)
        /\ inputQueue'[Len(inputQueue) + 1] = g
        /\ \A i \in 1..Len(inputQueue) : inputQueue'[i] = inputQueue[i]
    BY <1>8 DEF InputInv, InputQueueOK
  <2>2. \A i \in DOMAIN inputQueue : inputQueue[i] # g
    BY <1>8 DEF InputInv, InputQueueOK
  <2>3. \A h \in Gesture : gesture'[h].stage \in {"queued", "running"} <=> \E i \in DOMAIN inputQueue' : inputQueue'[i] = h
    <3>1. \A h \in Gesture : gesture[h].stage \in {"queued", "running"} <=> \E i \in DOMAIN inputQueue : inputQueue[i] = h
      BY DEF InputInv, InputQueueOK
    <3>2. \A h \in Gesture : (\E i \in DOMAIN inputQueue' : inputQueue'[i] = h)
                               <=> (h = g \/ \E i \in DOMAIN inputQueue : inputQueue[i] = h)
      BY <2>1
    <3> QED
      BY <3>1, <3>2, <1>7, <1>4
  <2>4. \A i, j \in DOMAIN inputQueue' : inputQueue'[i] = inputQueue'[j] => i = j
    <3>1. \A i, j \in DOMAIN inputQueue : inputQueue[i] = inputQueue[j] => i = j
      BY DEF InputInv, InputQueueOK
    <3> QED
      BY <3>1, <2>1, <2>2
  <2>5. \A h \in Gesture : gesture'[h].stage = "running" => inputQueue'[1] = h
    <3>1. ASSUME NEW h \in Gesture, gesture'[h].stage = "running" PROVE inputQueue'[1] = h
      <4>1. h # g /\ gesture[h].stage = "running"
        BY <3>1, <1>7, <1>4
      <4>2. inputQueue[1] = h /\ \E i \in DOMAIN inputQueue : inputQueue[i] = h
        BY <4>1 DEF InputInv, InputQueueOK
      <4> QED
        BY <4>2, <2>1
    <3> QED
      BY <3>1
  <2> QED
    BY <2>1, <2>3, <2>4, <2>5 DEF InputQueueOK
<1> QED
  BY <1>5, <1>7, <1>9 DEF InputInv

LEMMA BeginsKeeps == ASSUME InputInv, NEW g \in Gesture, GestureBegins(g) PROVE InputInv'
<1>1. GestureOK(gesture[g]) /\ gesture[g].stage = "queued" /\ Head(inputQueue) = g /\ UNCHANGED inputQueue
  BY DEF InputInv, GestureBegins
<1>2. /\ gesture[g] \in GestureRecord /\ ~gesture[g].excess /\ ~gesture[g].down /\ ~gesture[g].observed
      /\ gesture[g].sent = "none"
  BY <1>1 DEF GestureOK
<1>3. GestureOK([Failed(gesture[g]) EXCEPT !.stage = "running"])
  BY <1>1, <1>2, GestureFails
<1>4. GestureOK([gesture[g] EXCEPT !.stage = "running"])
  <2> DEFINE n == [gesture[g] EXCEPT !.stage = "running"]
  <2>1. n \in GestureRecord /\ n.todo = gesture[g].todo /\ n.stage = "running" /\ n.sent = "none"
        /\ ~n.down /\ ~n.observed /\ ~n.excess
    BY <1>2 DEF GestureRecord
  <2> HIDE DEF n
  <2>2. GestureOK(n)
    BY <2>1, <1>1 DEF GestureOK
  <2> QED
    BY <2>2 DEF n
<1>5. \/ Becomes(g, [Failed(gesture[g]) EXCEPT !.stage = "running"])
      \/ Becomes(g, [gesture[g] EXCEPT !.stage = "running"])
  BY DEF GestureBegins
<1>6. /\ [Failed(gesture[g]) EXCEPT !.stage = "running"].stage = "running"
      /\ [gesture[g] EXCEPT !.stage = "running"].stage = "running"
  BY <1>2 DEF Failed, GestureRecord
<1>7. inputQueue[1] = g
  BY <1>1 DEF InputInv, InputQueueOK
<1> QED
  BY <1>1, <1>3, <1>4, <1>5, <1>6, <1>7, GestureChanges

\* A change of a gesture that leaves what it presses and what is left to do.
LEMMA Marked ==
  ASSUME NEW r, GestureOK(r), NEW n \in GestureRecord, n.todo = r.todo, n.stage = r.stage,
         n.down = r.down, n.observed = r.observed, n.unreleased = r.unreleased, ~n.excess,
         n.sent = r.sent \/ (r.stage = "running" /\ r.todo # <<>> /\ n.sent = r.todo[1])
  PROVE  GestureOK(n)
  BY DEF GestureOK

LEMMA SendsKeeps ==
  ASSUME InputInv, NEW g \in Gesture, SendsMessage(g) \/ SendsCommand(g) \/ Holds(g) PROVE InputInv'
<1> DEFINE r == gesture[g]
<1>1. GestureOK(r) /\ r \in GestureRecord /\ ~r.excess
  BY DEF InputInv, GestureOK
<1>2. r.stage = "running" /\ r.sent = "none" /\ r.todo # <<>> /\ UNCHANGED inputQueue
  BY DEF SendsMessage, SendsCommand, Holds, Acting
<1>3. r.todo \in Seq(InputStep) /\ Head(r.todo) = r.todo[1] /\ r.todo[1] \in InputStep
  BY <1>1, <1>2 DEF GestureRecord
<1>s. ASSUME NEW e \in BOOLEAN, ~e
      PROVE  /\ [r EXCEPT !.sent = Step(g), !.excess = e] \in GestureRecord
             /\ GestureOK([r EXCEPT !.sent = Step(g), !.excess = e])
             /\ [r EXCEPT !.sent = Step(g), !.excess = e].stage = r.stage
  <2> DEFINE n == [r EXCEPT !.sent = Step(g), !.excess = e]
  <2>1. /\ n \in GestureRecord /\ n.todo = r.todo /\ n.stage = r.stage /\ n.down = r.down
        /\ n.observed = r.observed /\ n.unreleased = r.unreleased /\ n.excess = e /\ n.sent = r.todo[1]
    BY <1>1, <1>3 DEF Step, GestureRecord
  <2> HIDE DEF n, r
  <2>2. GestureOK(n)
    BY <2>1, <1>s, <1>1, <1>2, Marked
  <2> QED
    BY <2>1, <2>2 DEF n
<1>4. CASE SendsMessage(g)
  <2>1. \/ Becomes(g, Failed(r)) /\ Step(g) = "observe"
        \/ Becomes(g, [r EXCEPT !.sent = Step(g)])
    BY <1>4 DEF SendsMessage
  <2>2. CASE Becomes(g, Failed(r)) /\ Step(g) = "observe"
    <3>1. r.todo[1] # "up"
      BY <2>2, <1>3 DEF Step
    <3>2. GestureOK(Failed(r)) /\ Failed(r).stage = r.stage
      <4>1. GestureOK([Failed(r) EXCEPT !.stage = "running"]) /\ Failed(r) = [Failed(r) EXCEPT !.stage = "running"]
        BY <1>1, <1>2, <3>1, GestureFails
      <4>2. Failed(r).stage = r.stage
        BY <1>1 DEF Failed, GestureRecord
      <4> QED
        BY <4>1, <4>2
    <3> QED
      BY <2>2, <3>2, <1>2, GestureChanges
  <2>3. CASE Becomes(g, [r EXCEPT !.sent = Step(g)])
    <3>1. [r EXCEPT !.sent = Step(g)] = [r EXCEPT !.sent = Step(g), !.excess = FALSE]
      BY <1>1 DEF GestureRecord
    <3> QED
      BY <3>1, <2>3, <1>s, <1>2, GestureChanges
  <2> QED
    BY <2>1, <2>2, <2>3
<1>5. CASE SendsCommand(g)
  <2> DEFINE e == r.excess \/ (Step(g) # "up" /\ (r.interrupted \/ r.barred))
  <2>1. \/ Becomes(g, Failed(r)) /\ Step(g) # "up"
        \/ Becomes(g, [r EXCEPT !.sent = Step(g), !.excess = e]) /\ ~(Barred(r) /\ Step(g) # "up")
    BY <1>5 DEF SendsCommand, IsRelease
  <2>2. CASE Becomes(g, Failed(r)) /\ Step(g) # "up"
    <3>1. r.todo[1] # "up"
      BY <2>2, <1>3 DEF Step
    <3>2. GestureOK(Failed(r)) /\ Failed(r).stage = r.stage
      <4>1. GestureOK([Failed(r) EXCEPT !.stage = "running"]) /\ Failed(r) = [Failed(r) EXCEPT !.stage = "running"]
        BY <1>1, <1>2, <3>1, GestureFails
      <4>2. Failed(r).stage = r.stage
        BY <1>1 DEF Failed, GestureRecord
      <4> QED
        BY <4>1, <4>2
    <3> QED
      BY <2>2, <3>2, <1>2, GestureChanges
  <2>3. CASE Becomes(g, [r EXCEPT !.sent = Step(g), !.excess = e]) /\ ~(Barred(r) /\ Step(g) # "up")
    <3>1. e \in BOOLEAN /\ ~e
      BY <2>3, <1>1 DEF Barred
    <3>2. Becomes(g, [r EXCEPT !.sent = Step(g), !.excess = e])
      BY <2>3
    <3> HIDE DEF e
    <3> QED
      BY <3>1, <3>2, <1>s, <1>2, GestureChanges
  <2> QED
    BY <2>1, <2>2, <2>3
<1>6. CASE Holds(g)
  <2> DEFINE n == [r EXCEPT !.todo = Tail(@)]
  <2>1. Becomes(g, n) /\ r.todo[1] = "hold"
    BY <1>6, <1>3 DEF Holds, Step
  <2>2. /\ n \in GestureRecord /\ n.todo = Tail(r.todo) /\ n.stage = "running" /\ n.sent = "none"
        /\ n.down = r.down /\ n.observed = r.observed /\ n.unreleased = r.unreleased /\ ~n.excess
    BY <1>1, <1>2, <1>3 DEF GestureRecord
  <2> HIDE DEF n, r
  <2>3. GestureOK(n)
    BY <2>1, <2>2, <1>1, <1>2, Advances
  <2> QED
    BY <2>1, <2>2, <2>3, <1>2, GestureChanges DEF r
<1> QED
  BY <1>4, <1>5, <1>6

LEMMA AnswersKeep ==
  ASSUME InputInv, NEW g \in Gesture, NEW step \in InputStep,
         \/ MessageAnswered(g, step) /\ step \in Message
         \/ CommandAnswered(g, step) /\ step \in Command
  PROVE  InputInv'
<1> DEFINE r == gesture[g]
<1>1. GestureOK(r) /\ r \in GestureRecord /\ ~r.excess
  BY DEF InputInv, GestureOK
<1>2. r.stage = "running" /\ r.sent = step /\ step # "none" /\ UNCHANGED inputQueue
  BY DEF MessageAnswered, CommandAnswered, Answered, InputStep, Message, Command
<1>3. r.todo # <<>> /\ r.todo[1] = step /\ r.todo \in Seq(InputStep)
  BY <1>1, <1>2 DEF GestureOK, GestureRecord
<1>4. /\ Tail(r.todo) \in Seq(InputStep) /\ Released(Tail(r.todo)) /\ Framed(Tail(r.todo))
      /\ Released(r.todo) /\ Framed(r.todo)
  <2>1. Released(r.todo) /\ Framed(r.todo)
    BY <1>1 DEF GestureOK
  <2> QED
    BY <2>1, <1>3, TailIs, TailReleased, TailFramed
\* Nothing is pressed where a script may end.
<1>5. step \notin Between \union {"up"} => ~(r.down /\ ~r.unreleased)
  <2> SUFFICES ASSUME step \notin Between \union {"up"}, r.down, ~r.unreleased PROVE FALSE
    OBVIOUS
  <2>1. PICK j \in DOMAIN r.todo : r.todo[j] = "up" /\ \A k \in 1..(j - 1) : r.todo[k] \in Between
    BY <1>1 DEF GestureOK, NextUp
  <2>2. j = 1 \/ 1 \in 1..(j - 1)
    BY <2>1, <1>3
  <2> QED
    BY <2>1, <2>2, <1>3
\* The step is done.
<1>d. ASSUME NEW down \in BOOLEAN, NEW observed \in BOOLEAN, NEW typed \in BOOLEAN,
             down => (r.down /\ step # "up") \/ step = "down",
             observed => (r.observed /\ step # "unobserve") \/ step = "observe"
      PROVE  LET n == [r EXCEPT !.sent = "none", !.todo = Tail(@), !.down = down,
                                !.observed = observed, !.typed = typed]
             IN  GestureOK(n) /\ n.stage = r.stage
  <2> DEFINE n == [r EXCEPT !.sent = "none", !.todo = Tail(@), !.down = down,
                            !.observed = observed, !.typed = typed]
  <2>1. /\ n \in GestureRecord /\ n.todo = Tail(r.todo) /\ n.stage = "running" /\ n.sent = "none"
        /\ n.down = down /\ n.observed = observed /\ n.unreleased = r.unreleased /\ ~n.excess
        /\ n.stage = r.stage
    BY <1>1, <1>2, <1>4 DEF GestureRecord
  <2>2. GestureOK(n)
    <3> HIDE DEF n, r
    <3>1. n.down /\ ~n.unreleased => \/ r.todo[1] = "down"
                                     \/ r.down /\ ~r.unreleased /\ r.todo[1] # "up"
      BY <2>1, <1>d, <1>3
    <3>2. n.observed => \/ r.observed /\ r.todo[1] # "unobserve"
                        \/ r.todo[1] = "observe"
      BY <2>1, <1>d, <1>3
    <3>3. n \in GestureRecord /\ n.todo = Tail(r.todo) /\ n.sent = "none" /\ n.stage = "running" /\ ~n.excess
      BY <2>1
    <3>4. GestureOK(r) /\ r.todo # <<>>
      BY <1>1, <1>3
    <3> QED
      BY <3>1, <3>2, <3>3, <3>4, Advances
  <2> QED
    BY <2>1, <2>2
\* It failed.
<1>f. ASSUME NEW n, n \in GestureRecord, ~n.excess, n.stage = "running", n.todo = r.todo,
             n.down /\ ~n.unreleased => step # "up"
      PROVE  GestureOK(Failed(n)) /\ Failed(n).stage = r.stage
  <2>1. GestureOK([Failed(n) EXCEPT !.stage = "running"]) /\ Failed(n) = [Failed(n) EXCEPT !.stage = "running"]
    BY <1>f, <1>3, GestureFails
  <2>2. Failed(n).stage = n.stage
    BY <1>f DEF Failed, GestureRecord
  <2> QED
    BY <2>1, <2>2, <1>f, <1>2
<1>6. ASSUME NEW n, Becomes(g, n), GestureOK(n), n.stage = r.stage PROVE InputInv'
  BY <1>6, <1>2, GestureChanges
<1>r. r = [stage |-> r.stage, todo |-> r.todo, sent |-> r.sent, down |-> r.down, observed |-> r.observed,
           typed |-> r.typed, barred |-> r.barred, interrupted |-> r.interrupted,
           unreleased |-> r.unreleased, excess |-> r.excess]
      /\ r.down \in BOOLEAN /\ r.observed \in BOOLEAN /\ r.typed \in BOOLEAN
  BY <1>1 DEF GestureRecord
<1>7. CASE CommandAnswered(g, step) /\ step \in Command
  <2>1. \/ Becomes(g, CASE step = "down" -> [Done(r) EXCEPT !.down = TRUE]
                        [] step = "up" -> [Done(r) EXCEPT !.down = FALSE, !.typed = TRUE]
                        [] step = "insert" -> [Done(r) EXCEPT !.typed = TRUE]
                        [] OTHER -> Done(r))
        \/ Becomes(g, IF step = "up" THEN Failed([r EXCEPT !.unreleased = TRUE]) ELSE Failed(r))
    BY <1>7 DEF CommandAnswered
  <2>2. CASE Becomes(g, CASE step = "down" -> [Done(r) EXCEPT !.down = TRUE]
                          [] step = "up" -> [Done(r) EXCEPT !.down = FALSE, !.typed = TRUE]
                          [] step = "insert" -> [Done(r) EXCEPT !.typed = TRUE]
                          [] OTHER -> Done(r))
    <3> DEFINE down == IF step = "down" THEN TRUE ELSE IF step = "up" THEN FALSE ELSE r.down
               typed == IF step \in {"up", "insert"} THEN TRUE ELSE r.typed
               n == [r EXCEPT !.sent = "none", !.todo = Tail(@), !.down = down,
                              !.observed = r.observed, !.typed = typed]
    <3>1. (CASE step = "down" -> [Done(r) EXCEPT !.down = TRUE]
             [] step = "up" -> [Done(r) EXCEPT !.down = FALSE, !.typed = TRUE]
             [] step = "insert" -> [Done(r) EXCEPT !.typed = TRUE]
             [] OTHER -> Done(r)) = n
      BY <1>r DEF Done
    <3>2. step # "unobserve"
      BY <1>7 DEF Command
    <3>3. /\ down \in BOOLEAN /\ typed \in BOOLEAN
          /\ down => (r.down /\ step # "up") \/ step = "down"
      BY <1>r
    <3>4. GestureOK(n) /\ n.stage = r.stage
      BY <3>2, <3>3, <1>d, <1>r
    <3> QED
      BY <3>1, <3>4, <2>2, <1>6
  <2>3. CASE Becomes(g, IF step = "up" THEN Failed([r EXCEPT !.unreleased = TRUE]) ELSE Failed(r))
    <3>1. CASE step = "up"
      <4> DEFINE n == [r EXCEPT !.unreleased = TRUE]
      <4>1. n \in GestureRecord /\ ~n.excess /\ n.stage = "running" /\ n.todo = r.todo /\ n.unreleased
        BY <1>1, <1>2 DEF GestureRecord
      <4>2. GestureOK(Failed(n)) /\ Failed(n).stage = r.stage
        BY <4>1, <1>f
      <4> QED
        BY <4>2, <3>1, <2>3, <1>6
    <3>2. CASE step # "up"
      BY <3>2, <1>1, <1>2, <1>f, <2>3, <1>6
    <3> QED
      BY <3>1, <3>2
  <2> QED
    BY <2>1, <2>2, <2>3
<1>8. CASE MessageAnswered(g, step) /\ step \in Message
  <2>m. step \in {"observe", "look", "check", "read", "unobserve"}
    BY <1>8 DEF Message
  <2>1. \/ Becomes(g, CASE step = "observe" -> IF r.barred THEN Failed([r EXCEPT !.observed = TRUE])
                                               ELSE [Done(r) EXCEPT !.observed = TRUE]
                        [] step = "unobserve" -> [Done(r) EXCEPT !.observed = FALSE]
                        [] OTHER -> Done(r))
        \/ Becomes(g, CASE step = "observe" -> [Done(r) EXCEPT !.todo = Front(@)]
                        [] step = "unobserve" -> [Done(r) EXCEPT !.observed = FALSE]
                        [] step \in {"check", "read"} /\ r.typed ->
                               [r EXCEPT !.sent = "none",
                                         !.todo = IF r.observed THEN <<"unobserve">> ELSE <<>>]
                        [] OTHER -> Failed(r))
    BY <1>8 DEF MessageAnswered
  <2>2. ASSUME NEW observed \in BOOLEAN,
               observed => (r.observed /\ step # "unobserve") \/ step = "observe",
               Becomes(g, [r EXCEPT !.sent = "none", !.todo = Tail(@), !.observed = observed])
        PROVE  InputInv'
    <3> DEFINE n == [r EXCEPT !.sent = "none", !.todo = Tail(@), !.down = r.down,
                              !.observed = observed, !.typed = r.typed]
    <3>1. [r EXCEPT !.sent = "none", !.todo = Tail(@), !.observed = observed] = n
      BY <1>r
    <3>2. r.down => (r.down /\ step # "up") \/ step = "down"
      BY <2>m
    <3>3. GestureOK(n) /\ n.stage = r.stage
      BY <2>2, <3>2, <1>d, <1>r
    <3> QED
      BY <3>1, <3>3, <2>2, <1>6
  <2>3. CASE Becomes(g, CASE step = "observe" -> IF r.barred THEN Failed([r EXCEPT !.observed = TRUE])
                                                 ELSE [Done(r) EXCEPT !.observed = TRUE]
                          [] step = "unobserve" -> [Done(r) EXCEPT !.observed = FALSE]
                          [] OTHER -> Done(r))
    <3>1. CASE step = "observe" /\ r.barred
      <4> DEFINE n == [r EXCEPT !.observed = TRUE]
      <4>1. n \in GestureRecord /\ ~n.excess /\ n.stage = "running" /\ n.todo = r.todo
        BY <1>1, <1>2 DEF GestureRecord
      <4>2. GestureOK(Failed(n)) /\ Failed(n).stage = r.stage
        BY <4>1, <3>1, <1>f
      <4> QED
        BY <4>2, <3>1, <2>3, <1>6
    <3>2. CASE step = "observe" /\ ~r.barred
      <4>1. [Done(r) EXCEPT !.observed = TRUE] = [r EXCEPT !.sent = "none", !.todo = Tail(@), !.observed = TRUE]
        BY <1>r DEF Done
      <4> QED
        BY <4>1, <3>2, <2>2, <2>3
    <3>3. CASE step = "unobserve"
      <4>1. [Done(r) EXCEPT !.observed = FALSE] = [r EXCEPT !.sent = "none", !.todo = Tail(@), !.observed = FALSE]
        BY <1>r DEF Done
      <4> QED
        BY <4>1, <3>3, <2>2, <2>3
    <3>4. CASE step \notin {"observe", "unobserve"}
      <4>1. Done(r) = [r EXCEPT !.sent = "none", !.todo = Tail(@), !.observed = r.observed]
        BY <1>r DEF Done
      <4> QED
        BY <4>1, <3>4, <2>2, <2>3, <1>r
    <3> QED
      BY <3>1, <3>2, <3>3, <3>4
  <2>4. CASE Becomes(g, CASE step = "observe" -> [Done(r) EXCEPT !.todo = Front(@)]
                        [] step = "unobserve" -> [Done(r) EXCEPT !.observed = FALSE]
                        [] step \in {"check", "read"} /\ r.typed ->
                               [r EXCEPT !.sent = "none",
                                         !.todo = IF r.observed THEN <<"unobserve">> ELSE <<>>]
                        [] OTHER -> Failed(r))
    <3>1. CASE step = "observe"
      <4> DEFINE n == [Done(r) EXCEPT !.todo = Front(@)]
      <4>1. EndsObserved(Tail(r.todo)) /\ \A i \in DOMAIN Tail(r.todo) : Tail(r.todo)[i] # "observe"
        BY <3>1, <1>3, <1>4, TailFramed
      <4>2. Front(Tail(r.todo)) \in Seq(InputStep) /\ Released(Front(Tail(r.todo))) /\ Framed(Front(Tail(r.todo)))
        BY <4>1, <1>4, FrontOK DEF EndsObserved
      <4>3. /\ n \in GestureRecord /\ n.todo = Front(Tail(r.todo)) /\ n.stage = "running" /\ n.sent = "none"
            /\ n.down = r.down /\ n.observed = r.observed /\ n.unreleased = r.unreleased /\ ~n.excess
            /\ n.stage = r.stage
        BY <4>2, <1>1, <1>2, <1>4 DEF Done, GestureRecord
      <4>4. ~(r.down /\ ~r.unreleased)
        BY <3>1, <1>5 DEF Between
      <4>5. ~r.observed
        <5> SUFFICES ASSUME r.observed PROVE FALSE
          OBVIOUS
        <5> QED
          BY <1>1, <1>3, <3>1 DEF GestureOK, EndsObserved
      <4> HIDE DEF n, r
      <4>6. GestureOK(n)
        BY <4>2, <4>3, <4>4, <4>5 DEF GestureOK
      <4>7. Becomes(g, n)
        BY <3>1, <2>4 DEF n
      <4> QED
        BY <4>3, <4>6, <4>7, <1>6
    <3>2. CASE step = "unobserve"
      <4>1. [Done(r) EXCEPT !.observed = FALSE] = [r EXCEPT !.sent = "none", !.todo = Tail(@), !.observed = FALSE]
        BY <1>r DEF Done
      <4> QED
        BY <4>1, <3>2, <2>2, <2>4
    <3>3. CASE step \in {"check", "read"} /\ r.typed
      <4> DEFINE todo == IF r.observed THEN <<"unobserve">> ELSE <<>>
                 n == [r EXCEPT !.sent = "none", !.todo = todo]
      <4>1. /\ todo \in Seq(InputStep) /\ Released(todo) /\ Framed(todo)
            /\ r.observed => EndsObserved(todo)
        <5>1. todo \in {<<>>, <<"unobserve">>} /\ (r.observed => todo = <<"unobserve">>)
          OBVIOUS
        <5> HIDE DEF todo
        <5> QED
          BY <5>1, LeftOver
      <4>2. /\ n \in GestureRecord /\ n.todo = todo /\ n.stage = "running" /\ n.sent = "none"
            /\ n.down = r.down /\ n.observed = r.observed /\ n.unreleased = r.unreleased /\ ~n.excess
            /\ n.stage = r.stage
        BY <4>1, <1>1, <1>2 DEF GestureRecord
      <4>3. ~(r.down /\ ~r.unreleased)
        BY <3>3, <1>5 DEF Between
      <4>7. Becomes(g, n)
        BY <3>3, <2>4
      <4> HIDE DEF n, r, todo
      <4>6. GestureOK(n)
        BY <4>1, <4>2, <4>3 DEF GestureOK
      <4> QED
        BY <4>2, <4>6, <4>7, <1>6
    <3>4. CASE step \notin {"observe", "unobserve"} /\ ~(step \in {"check", "read"} /\ r.typed)
      <4>1. Becomes(g, Failed(r))
        BY <3>4, <2>4
      <4>2. step # "up"
        BY <2>m
      <4> QED
        BY <4>1, <4>2, <1>1, <1>2, <1>f, <1>6
    <3> QED
      BY <3>1, <3>2, <3>3, <3>4
  <2> QED
    BY <2>1, <2>3, <2>4
<1> QED
  BY <1>7, <1>8

LEMMA EndsKeep == ASSUME InputInv, NEW g \in Gesture, GestureEnds(g) PROVE InputInv'
<1> DEFINE r == gesture[g]
           n == [r EXCEPT !.stage = "over"]
<1>1. GestureOK(r) /\ r \in GestureRecord
  BY DEF InputInv, GestureOK
<1>2. /\ r.stage = "running" /\ r.sent = "none" /\ r.todo = <<>> /\ Becomes(g, n)
      /\ inputQueue' = Tail(inputQueue)
  BY DEF GestureEnds, Acting
<1>3. /\ n \in GestureRecord /\ n.todo = r.todo /\ n.stage = "over" /\ n.sent = "none"
      /\ n.down = r.down /\ n.observed = r.observed /\ n.unreleased = r.unreleased /\ n.excess = r.excess
  BY <1>1, <1>2 DEF GestureRecord
<1> HIDE DEF n
<1>4. GestureOK(n)
  BY <1>1, <1>2, <1>3 DEF GestureOK
<1>5. /\ DOMAIN gesture' = Gesture /\ gesture' = [h \in Gesture |-> gesture'[h]]
      /\ gesture'[g] = n /\ \A h \in Gesture : h # g => gesture'[h] = gesture[h]
  BY <1>2 DEF InputInv, Becomes
<1>6. InputQueueOK'
  <2> DEFINE q == inputQueue
  <2>1. q \in Seq(Gesture) /\ q[1] = g /\ \E i \in DOMAIN q : q[i] = g
    BY <1>2 DEF InputInv, InputQueueOK
  <2>2. q # <<>>
    BY <2>1
  <2>3. /\ Tail(q) \in Seq(Gesture) /\ Len(q) \in Nat \ {0}
        /\ DOMAIN q = 1..Len(q) /\ DOMAIN Tail(q) = 1..(Len(q) - 1)
        /\ \A i \in 1..(Len(q) - 1) : Tail(q)[i] = q[i + 1]
    BY <2>1, <2>2
  <2>4. \A i, j \in DOMAIN q : q[i] = q[j] => i = j
    BY DEF InputInv, InputQueueOK
  <2>5. \A h \in Gesture : (\E i \in DOMAIN Tail(q) : Tail(q)[i] = h) <=> h # g /\ \E i \in DOMAIN q : q[i] = h
    <3> TAKE h \in Gesture
    <3>1. ASSUME NEW i \in DOMAIN Tail(q), Tail(q)[i] = h PROVE h # g /\ \E k \in DOMAIN q : q[k] = h
      <4>1. i + 1 \in DOMAIN q /\ q[i + 1] = h /\ i + 1 # 1 /\ 1 \in DOMAIN q
        BY <3>1, <2>3
      <4> QED
        BY <4>1, <2>1, <2>4
    <3>2. ASSUME h # g, NEW k \in DOMAIN q, q[k] = h PROVE \E i \in DOMAIN Tail(q) : Tail(q)[i] = h
      <4>1. k # 1
        BY <3>2, <2>1
      <4>2. k - 1 \in 1..(Len(q) - 1) /\ (k - 1) + 1 = k
        BY <3>2, <4>1, <2>3
      <4> QED
        BY <4>2, <2>3, <3>2
    <3> QED
      BY <3>1, <3>2
  <2>6. \A i, j \in DOMAIN Tail(q) : Tail(q)[i] = Tail(q)[j] => i = j
    <3> TAKE i, j \in DOMAIN Tail(q)
    <3>1. i + 1 \in DOMAIN q /\ j + 1 \in DOMAIN q /\ Tail(q)[i] = q[i + 1] /\ Tail(q)[j] = q[j + 1]
      BY <2>3
    <3> QED
      BY <3>1, <2>4, <2>3
  <2>7. \A h \in Gesture : gesture'[h].stage # "running"
    <3>1. \A h \in Gesture : gesture[h].stage = "running" => h = g
      BY <2>1 DEF InputInv, InputQueueOK
    <3> QED
      BY <3>1, <1>3, <1>5
  <2>8. \A h \in Gesture : gesture[h].stage \in {"queued", "running"} <=> \E i \in DOMAIN q : q[i] = h
    BY DEF InputInv, InputQueueOK
  <2>9. \A h \in Gesture : gesture'[h].stage \in {"queued", "running"}
                             <=> h # g /\ gesture[h].stage \in {"queued", "running"}
    BY <1>3, <1>5
  <2> HIDE DEF q, r
  <2>10. inputQueue' = Tail(q)
    BY <1>2 DEF q
  <2> QED
    BY <2>3, <2>5, <2>6, <2>7, <2>8, <2>9, <2>10 DEF InputQueueOK
<1> QED
  BY <1>4, <1>5, <1>6 DEF InputInv

LEMMA LostKeeps == ASSUME InputInv, NEW g \in Gesture, CallerLost(g) PROVE InputInv'
<1> DEFINE r == gesture[g]
           n == [r EXCEPT !.barred = TRUE]
<1>1. GestureOK(r) /\ r \in GestureRecord /\ ~r.excess
  BY DEF InputInv, GestureOK
<1>2. Becomes(g, n) /\ UNCHANGED inputQueue
  BY DEF CallerLost
<1>3. /\ n \in GestureRecord /\ n.todo = r.todo /\ n.stage = r.stage /\ n.sent = r.sent
      /\ n.down = r.down /\ n.observed = r.observed /\ n.unreleased = r.unreleased /\ n.excess = r.excess
  BY <1>1 DEF GestureRecord
<1> HIDE DEF n, r
<1>4. GestureOK(n)
  BY <1>1, <1>3, Marked
<1> QED
  BY <1>2, <1>3, <1>4, GestureChanges DEF r

LEMMA DialogKeeps == ASSUME InputInv, DialogOpens PROVE InputInv'
<1> DEFINE n(g) == [gesture[g] EXCEPT !.interrupted = @ \/ Pending(g)]
<1>1. gesture' = [g \in Gesture |-> n(g)] /\ UNCHANGED inputQueue
  BY DEF DialogOpens
<1>2. ASSUME NEW g \in Gesture PROVE GestureOK(n(g)) /\ n(g).stage = gesture[g].stage
  <2> DEFINE r == gesture[g]
             m == n(g)
  <2>1. GestureOK(r) /\ r \in GestureRecord /\ ~r.excess
    BY DEF InputInv, GestureOK
  <2>2. Pending(g) \in BOOLEAN
    BY DEF Pending
  <2>3. /\ m \in GestureRecord /\ m.todo = r.todo /\ m.stage = r.stage /\ m.sent = r.sent
        /\ m.down = r.down /\ m.observed = r.observed /\ m.unreleased = r.unreleased /\ m.excess = r.excess
    BY <2>1, <2>2 DEF GestureRecord
  <2> HIDE DEF m, r
  <2>4. GestureOK(m)
    BY <2>1, <2>3, Marked
  <2> QED
    BY <2>3, <2>4 DEF m, r
<1> HIDE DEF n
<1>3. /\ DOMAIN gesture' = Gesture /\ gesture' = [g \in Gesture |-> gesture'[g]]
      /\ \A g \in Gesture : GestureOK(gesture'[g]) /\ gesture'[g].stage = gesture[g].stage
  BY <1>1, <1>2
<1>4. InputQueueOK'
  BY <1>1, <1>3 DEF InputInv, InputQueueOK
<1> QED
  BY <1>3, <1>4 DEF InputInv

LEMMA InputGoesOn == InputInv /\ [InputNext]_inputVars => InputInv'
<1> SUFFICES ASSUME InputInv, [InputNext]_inputVars PROVE InputInv'
  OBVIOUS
<1>1. ASSUME NEW g \in Gesture, NEW step \in Message, MessageAnswered(g, step) PROVE InputInv'
  BY <1>1, AnswersKeep DEF InputStep
<1>2. ASSUME NEW g \in Gesture, NEW step \in Command, CommandAnswered(g, step) PROVE InputInv'
  BY <1>2, AnswersKeep DEF InputStep
<1>3. CASE UNCHANGED gesture /\ UNCHANGED inputQueue
  BY <1>3 DEF InputInv, InputQueueOK
<1>4. DialogCloses \/ InputSessionLost \/ UNCHANGED inputVars => UNCHANGED gesture /\ UNCHANGED inputQueue
  BY DEF DialogCloses, InputSessionLost, inputVars
<1> QED
  BY <1>1, <1>2, <1>3, <1>4, CalledKeeps, BeginsKeeps, SendsKeeps, EndsKeep, LostKeeps, DialogKeeps
  DEF InputNext

LEMMA InputInvSays == InputInv => InputLetsGo
<1> SUFFICES ASSUME InputInv, NEW g \in Gesture
             PROVE  /\ gesture[g].stage = "over" =>
                         (gesture[g].down => gesture[g].unreleased) /\ ~gesture[g].observed
                    /\ ~gesture[g].excess
                    /\ gesture[g].down /\ ~gesture[g].unreleased => Head(inputQueue) = g
  BY DEF InputLetsGo
<1>1. GestureOK(gesture[g])
  BY DEF InputInv
<1>2. gesture[g].down /\ ~gesture[g].unreleased => gesture[g].stage = "running"
  <2>1. gesture[g].stage \in {"none", "queued", "running", "over"}
    BY <1>1 DEF GestureOK, GestureRecord
  <2> QED
    BY <2>1, <1>1 DEF GestureOK, NextUp
<1>3. gesture[g].stage = "running" => Head(inputQueue) = g
  BY DEF InputInv, InputQueueOK
<1> QED
  BY <1>1, <1>2, <1>3 DEF GestureOK, EndsObserved

\* InputLetsGo for any number of gestures and mishaps: a gesture that ends has let go of
\* what it pressed, unless the release itself failed, and ended its observation; nothing
\* but releases is sent once it was cut off; and who presses is first in the debugger's
\* queue (background-input.ts).
THEOREM GesturesLetGo == InputSpec => []InputLetsGo
  BY InputBegins, InputGoesOn, InputInvSays, PTL DEF InputSpec

-----------------------------------------------------------------------------
(* Patches.                                                                 *)

Shown == PatchValue \union {0}
PatchRecord == [id : Patcher, was : Shown, acts : BOOLEAN]
FrameDoc ==
    [script : BOOLEAN, shown : Shown, own : Shown, clean : BOOLEAN, alone : BOOLEAN,
     records : Seq(PatchRecord)]
PatchCall ==
    [stage : {"none", "over"}]
      \union [stage : {"ready", "sent", "retry"}, frame : Frame, work : PatchWork]
PatchMail ==
    [from : Patcher, work : PatchWork] \union [from : {"cleanup"}, id : Patcher \union {"list"}]

PatchTypeOK ==
    /\ doc \in [Frame -> FrameDoc] /\ patching \in [Patcher -> PatchCall]
    /\ mail \in [Frame -> Seq(PatchMail)] /\ patched \subseteq Frame /\ patchAccess \in BOOLEAN
    /\ undo.todo \in [Frame -> Seq(Patcher \union {"list"})]

\* Rolled back one after the other, the latest first, the records lead to the page's own
\* value; a patch that did not act found what it would have set.
Chained(d) ==
    LET n == Len(d.records)
    IN  /\ d.own = IF n = 0 THEN d.shown ELSE d.records[1].was
        /\ \A i \in 1..n : ~d.records[i].acts =>
             d.records[i].was = IF i = n THEN d.shown ELSE d.records[i + 1].was

DocFits(d) ==
    /\ d.records # <<>> => d.script
    /\ \A i, j \in 1..Len(d.records) : d.records[i].id = d.records[j].id => i = j
    /\ d.clean /\ d.alone => Chained(d)
DocAgrees(f) ==
    /\ DocFits(doc[f])
    /\ \A i \in 1..Len(doc[f].records) : patching[doc[f].records[i].id].stage = "over"
DocsAgree == \A f \in Frame : DocAgrees(f)

\* A request has one message under way at most, and none before it is sent or when it is
\* over; frames it patches are tracked until all is undone.
OneMessage ==
    \A f, g \in Frame : \A i \in DOMAIN mail[f], j \in DOMAIN mail[g] :
      mail[f][i].from \in Patcher /\ mail[f][i].from = mail[g][j].from => f = g /\ i = j
MessageAgrees(f, i) ==
    mail[f][i].from \in Patcher =>
      /\ patching[mail[f][i].from].stage = "sent"
      /\ undo.stage # "done" /\ mail[f][i].work.kind = "apply" => f \in patched
MailAgrees == OneMessage /\ \A f \in Frame : \A i \in DOMAIN mail[f] : MessageAgrees(f, i)

\* Nothing is left of patches in frame f, nor on the way to it.
Undone(f) ==
    /\ doc[f].records = <<>>
    /\ \A i \in DOMAIN mail[f] : mail[f][i].from \in Patcher /\ mail[f][i].work.kind # "apply"

\* The cleanup has asked for the patches behind what was sent before.
Asks(f) ==
    /\ mail[f] # <<>>
    /\ \A i \in DOMAIN mail[f] :
         IF i = Len(mail[f]) THEN mail[f][i].from = "cleanup" /\ mail[f][i].id = "list"
         ELSE mail[f][i].from \in Patcher

\* It undoes them, the latest first, and nothing else is under way.
Lists(f) ==
    /\ Len(mail[f]) = 1 /\ mail[f][1].from = "cleanup" /\ mail[f][1].id = undo.todo[f][1]
    /\ undo.todo[f] \in Seq(Patcher)
    /\ doc[f].script =>
         LET n == Len(doc[f].records)
         IN  /\ Len(undo.todo[f]) = n
             /\ \A k \in 1..n : undo.todo[f][k] = doc[f].records[(n - k) + 1].id

UndoAgrees(f) ==
    /\ undo.stage \in {"off", "begun"} =>
         undo.todo[f] = <<>> /\ \A i \in DOMAIN mail[f] : mail[f][i].from \in Patcher
    /\ undo.stage = "undoing" =>
         \/ undo.todo[f] = <<>> /\ Undone(f)
         \/ undo.todo[f] = <<"list">> /\ Asks(f)
         \/ undo.todo[f] # <<>> /\ undo.todo[f][1] # "list" /\ Lists(f)
    /\ undo.stage = "done" => undo.todo[f] = <<>> /\ Undone(f)
UndoAgree ==
    /\ undo.stage \in {"off", "begun", "undoing", "done"}
    /\ patchAccess <=> undo.stage = "off"
    /\ \A f \in Frame : UndoAgrees(f)

UndoShape ==
    undo = [stage |-> undo.stage, todo |-> undo.todo, late |-> undo.late] /\ undo.late \in BOOLEAN

\* What PatchesUndone needs to be inductive.  A patch sent again after an injection, once
\* the access has ended, is not promised anything about.
PatchInv ==
    UndoShape /\ (~undo.late => PatchTypeOK /\ DocsAgree /\ MailAgrees /\ UndoAgree)

\* PatchesUndone follows.
LEMMA PatchInvSays == PatchInv => PatchesUndone
<1> SUFFICES ASSUME PatchInv, undo.stage = "done", ~undo.late, NEW f \in Frame
             PROVE  /\ doc[f].records = <<>>
                    /\ doc[f].clean /\ doc[f].alone => doc[f].shown = doc[f].own
  BY DEF PatchesUndone
<1>1. Undone(f) /\ DocAgrees(f)
  BY DEF PatchInv, UndoAgree, UndoAgrees, DocsAgree
<1>2. doc[f].records = <<>> /\ Len(doc[f].records) = 0
  BY <1>1 DEF Undone
<1> QED
  BY <1>1, <1>2 DEF DocAgrees, DocFits, Chained

-----------------------------------------------------------------------------
\* A document: what its operations return.
LEMMA RemovedAt ==
  ASSUME NEW S, NEW q \in Seq(S), NEW k \in 1..Len(q)
  PROVE  /\ RemoveAt(q, k) \in Seq(S) /\ Len(RemoveAt(q, k)) = Len(q) - 1
         /\ \A i \in 1..(Len(q) - 1) : RemoveAt(q, k)[i] = IF i < k THEN q[i] ELSE q[i + 1]
<1>1. Len(q) \in Nat /\ k \in Nat
  OBVIOUS
<1> DEFINE rest == SubSeq(q, 1, k - 1)
           right == SubSeq(q, k + 1, Len(q))
<1>2. rest \in Seq(S) /\ Len(rest) = k - 1 /\ \A i \in 1..(k - 1) : rest[i] = q[i]
  BY <1>1, SubSeqProperties
<1>3. right \in Seq(S) /\ Len(right) = Len(q) - k /\ \A i \in 1..(Len(q) - k) : right[i] = q[k + i]
  BY <1>1, SubSeqProperties
<1>4. RemoveAt(q, k) = rest \o right
  BY DEF RemoveAt
<1> HIDE DEF rest, right
<1>5. /\ rest \o right \in Seq(S) /\ Len(rest \o right) = Len(q) - 1
      /\ \A i \in 1..(Len(q) - 1) :
           (rest \o right)[i] = IF i <= k - 1 THEN rest[i] ELSE right[i - (k - 1)]
  <2>1. PICK l \in Seq(S), r \in Seq(S) : l = rest /\ r = right
    BY <1>2, <1>3
  <2>2. /\ l \o r \in Seq(S) /\ Len(l \o r) = Len(l) + Len(r)
        /\ \A i \in 1..(Len(l) + Len(r)) : (l \o r)[i] = IF i <= Len(l) THEN l[i] ELSE r[i - Len(l)]
    BY ConcatProperties
  <2>3. Len(l) = k - 1 /\ Len(r) = Len(q) - k /\ (k - 1) + (Len(q) - k) = Len(q) - 1
    BY <1>1, <1>2, <1>3, <2>1
  <2> QED
    BY <2>1, <2>2, <2>3
<1>6. ASSUME NEW i \in 1..(Len(q) - 1)
      PROVE  (rest \o right)[i] = IF i < k THEN q[i] ELSE q[i + 1]
  <2>1. CASE i < k
    BY <1>1, <1>2, <1>5, <2>1
  <2>2. CASE ~(i < k)
    <3>1. i - (k - 1) \in 1..(Len(q) - k) /\ k + (i - (k - 1)) = i + 1 /\ ~(i <= k - 1)
      BY <1>1, <2>2
    <3> QED
      BY <1>3, <1>5, <2>2, <3>1
  <2> QED
    BY <2>1, <2>2
<1> QED
  BY <1>4, <1>5, <1>6

\* Where a record is, 0 for none.
Place(d, id) == SelectInSeq(d.records, LAMBDA r : r.id = id)

LEMMA PlaceIs ==
  ASSUME NEW d \in FrameDoc, NEW id \in Patcher, DocFits(d)
  PROVE  \/ Place(d, id) = 0 /\ \A i \in 1..Len(d.records) : d.records[i].id # id
         \/ Place(d, id) \in 1..Len(d.records) /\ d.records[Place(d, id)].id = id
<1> DEFINE I == {i \in 1..Len(d.records) : d.records[i].id = id}
<1>1. Place(d, id) = IF I # {} THEN Min(I) ELSE 0
  BY DEF Place, SelectInSeq
<1>2. CASE I = {}
  BY <1>1, <1>2
<1>3. ASSUME NEW k \in I PROVE Place(d, id) = k
  <2>1. I = {k}
    BY <1>3 DEF DocFits
  <2>2. k \in Nat
    BY <1>3 DEF FrameDoc
  <2>3. Min({k}) = k
    BY <2>2 DEF Min
  <2> HIDE DEF I
  <2> QED
    BY <1>1, <2>1, <2>3
<1> QED
  BY <1>2, <1>3

\* A record is undone.
LEMMA RollBackIs ==
  ASSUME NEW d \in FrameDoc, NEW id \in Patcher, DocFits(d)
  PROVE  \/ Place(d, id) = 0 /\ RollBack(d, id) = d
         \/ /\ Place(d, id) \in 1..Len(d.records) /\ d.records[Place(d, id)].id = id
            /\ RollBack(d, id) =
                 [d EXCEPT !.shown = IF d.records[Place(d, id)].acts
                                     THEN d.records[Place(d, id)].was ELSE d.shown,
                           !.records = RemoveAt(d.records, Place(d, id))]
<1>1. RollBack(d, id) =
        IF Place(d, id) = 0 THEN d
        ELSE [d EXCEPT !.shown = IF d.records[Place(d, id)].acts
                                 THEN d.records[Place(d, id)].was ELSE d.shown,
                       !.records = RemoveAt(d.records, Place(d, id))]
  BY DEF RollBack, Place, SelectInSeq
<1>2. PICK k : k = Place(d, id)
  OBVIOUS
<1>3. 0 \notin 1..Len(d.records)
  BY DEF FrameDoc
<1> QED
  BY <1>1, <1>2, <1>3, PlaceIs

LEMMA RolledBack ==
  ASSUME NEW d \in FrameDoc, NEW id \in Patcher, DocFits(d), NEW e, e = RollBack(d, id)
  PROVE  /\ e \in FrameDoc /\ e.script = d.script /\ e.clean = d.clean /\ e.alone = d.alone
         /\ e.records # <<>> => e.script
         /\ \A i, j \in 1..Len(e.records) : e.records[i].id = e.records[j].id => i = j
         /\ Place(d, id) \in {0, Len(d.records)} => DocFits(e)
         /\ \A i \in 1..Len(e.records) : \E j \in 1..Len(d.records) : e.records[i].id = d.records[j].id
         /\ d.records = <<>> => e = d
         /\ \A n \in Nat \ {0} : Len(d.records) = n /\ d.records[n].id = id =>
              Len(e.records) = n - 1 /\ \A i \in 1..(n - 1) : e.records[i] = d.records[i]
<1>1. /\ d.records \in Seq(PatchRecord) /\ Len(d.records) \in Nat
      /\ d.records # <<>> <=> Len(d.records) # 0
      /\ d.clean \in BOOLEAN /\ d.alone \in BOOLEAN
  BY EmptySeq DEF FrameDoc
<1>2. CASE Place(d, id) = 0 /\ RollBack(d, id) = d
  <2>1. \A i \in 1..Len(d.records) : d.records[i].id # id
    BY <1>1, <1>2, PlaceIs
  <2>2. \A n \in Nat \ {0} : ~(Len(d.records) = n /\ d.records[n].id = id)
    BY <1>1, <2>1
  <2> QED
    BY <1>1, <1>2, <2>2 DEF DocFits
<1>3. ASSUME NEW k \in 1..Len(d.records), k = Place(d, id), d.records[k].id = id,
             RollBack(d, id) = [d EXCEPT !.shown = IF d.records[k].acts THEN d.records[k].was ELSE d.shown,
                                         !.records = RemoveAt(d.records, k)]
      PROVE  /\ e \in FrameDoc /\ e.script = d.script /\ e.clean = d.clean /\ e.alone = d.alone
             /\ e.records # <<>> => e.script
             /\ \A i, j \in 1..Len(e.records) : e.records[i].id = e.records[j].id => i = j
             /\ k \in {0, Len(d.records)} => DocFits(e)
             /\ \A i \in 1..Len(e.records) : \E j \in 1..Len(d.records) : e.records[i].id = d.records[j].id
             /\ d.records # <<>>
             /\ \A n \in Nat \ {0} : Len(d.records) = n /\ d.records[n].id = id =>
                  Len(e.records) = n - 1 /\ \A i \in 1..(n - 1) : e.records[i] = d.records[i]
  <2>1. PICK rest \in Seq(PatchRecord) :
           /\ rest = RemoveAt(d.records, k) /\ Len(rest) = Len(d.records) - 1
           /\ \A i \in 1..(Len(d.records) - 1) :
                rest[i] = IF i < k THEN d.records[i] ELSE d.records[i + 1]
    BY <1>1, RemovedAt
  <2>2. d.records[k] \in PatchRecord
    BY <1>1
  <2>3. PICK shown \in Shown : shown = IF d.records[k].acts THEN d.records[k].was ELSE d.shown
    BY <2>2 DEF PatchRecord, FrameDoc
  <2>4. /\ e \in FrameDoc /\ e.script = d.script /\ e.clean = d.clean /\ e.alone = d.alone
        /\ e.own = d.own /\ e.shown = shown /\ e.records = rest
    BY <1>3, <2>1, <2>3 DEF FrameDoc
  <2>5. d.records # <<>> /\ Len(d.records) \in Nat \ {0} /\ k \in Nat
    BY <1>1
  <2>6. e.records # <<>> => e.script
    BY <2>4, <2>5 DEF DocFits
  <2>7. \A i \in 1..(Len(d.records) - 1) :
           \E j \in 1..Len(d.records) : rest[i] = d.records[j] /\ j = (IF i < k THEN i ELSE i + 1)
    BY <1>1, <2>1, <2>5
  <2>8. \A i, j \in 1..Len(rest) : rest[i].id = rest[j].id => i = j
    <3> SUFFICES ASSUME NEW i \in 1..Len(rest), NEW j \in 1..Len(rest), rest[i].id = rest[j].id
                 PROVE  i = j
      OBVIOUS
    <3>1. PICK m \in 1..Len(d.records) : rest[i] = d.records[m] /\ m = (IF i < k THEN i ELSE i + 1)
      BY <2>1, <2>7
    <3>2. PICK n \in 1..Len(d.records) : rest[j] = d.records[n] /\ n = (IF j < k THEN j ELSE j + 1)
      BY <2>1, <2>7
    <3>3. m = n
      BY <3>1, <3>2 DEF DocFits
    <3>4. i \in Nat /\ j \in Nat
      BY <2>1, <2>5
    <3> QED
      BY <2>5, <3>1, <3>2, <3>3, <3>4
  <2>9. ASSUME NEW n \in Nat \ {0}, Len(d.records) = n, d.records[n].id = id
        PROVE  k = n /\ Len(rest) = n - 1 /\ \A i \in 1..(n - 1) : rest[i] = d.records[i]
    <3>1. k = n
      BY <1>3, <2>9 DEF DocFits
    <3> QED
      BY <2>1, <2>9, <3>1
  <2>10. ASSUME k = Len(d.records) PROVE DocFits(e)
    <3>1. PICK n \in Nat \ {0} : n = Len(d.records)
      BY <2>5
    <3>2. Len(rest) = n - 1 /\ \A i \in 1..(n - 1) : rest[i] = d.records[i]
      BY <1>3, <2>9, <2>10, <3>1
    <3>3. ASSUME d.clean, d.alone PROVE Chained(e)
      <4>1. /\ d.own = d.records[1].was
            /\ \A i \in 1..n : ~d.records[i].acts =>
                 d.records[i].was = IF i = n THEN d.shown ELSE d.records[i + 1].was
        BY <3>1, <3>3 DEF DocFits, Chained
      <4>2. shown = d.records[n].was
        BY <2>3, <2>10, <3>1, <4>1
      <4>3. CASE n = 1
        BY <2>4, <3>2, <4>1, <4>2, <4>3 DEF Chained
      <4>4. CASE n # 1
        <5>1. rest[1] = d.records[1] /\ n - 1 # 0
          <6>1. 1 \in 1..(n - 1) /\ n - 1 # 0
            BY <4>4
          <6> QED
            BY <3>2, <6>1
        <5>2. ASSUME NEW i \in 1..(n - 1), ~rest[i].acts
              PROVE  rest[i].was = IF i = n - 1 THEN shown ELSE rest[i + 1].was
          <6>1. rest[i] = d.records[i] /\ i \in 1..n /\ i # n
            BY <3>1, <3>2
          <6>2. rest[i].was = d.records[i + 1].was
            BY <4>1, <5>2, <6>1
          <6>3. CASE i = n - 1
            BY <3>1, <4>2, <6>2, <6>3
          <6>4. CASE i # n - 1
            <7>1. i + 1 \in 1..(n - 1)
              BY <3>1, <6>4
            <7> QED
              BY <3>2, <6>2, <6>4, <7>1
          <6> QED
            BY <6>3, <6>4
        <5> QED
          BY <2>4, <3>2, <4>1, <5>1, <5>2 DEF Chained
      <4> QED
        BY <4>3, <4>4
    <3> QED
      BY <2>4, <2>6, <2>8, <3>3 DEF DocFits
  <2> QED
    <3>1. k \in {0, Len(d.records)} => DocFits(e)
      BY <2>5, <2>10
    <3>2. \A i \in 1..Len(e.records) : \E j \in 1..Len(d.records) : e.records[i].id = d.records[j].id
      BY <2>1, <2>4, <2>7
    <3>3. \A i, j \in 1..Len(e.records) : e.records[i].id = e.records[j].id => i = j
      BY <2>4, <2>8
    <3>4. \A n \in Nat \ {0} : Len(d.records) = n /\ d.records[n].id = id =>
             Len(e.records) = n - 1 /\ \A i \in 1..(n - 1) : e.records[i] = d.records[i]
      BY <2>4, <2>9
    <3> QED
      BY <2>4, <2>5, <2>6, <3>1, <3>2, <3>3, <3>4
<1>4. CASE /\ Place(d, id) \in 1..Len(d.records) /\ d.records[Place(d, id)].id = id
           /\ RollBack(d, id) =
                [d EXCEPT !.shown = IF d.records[Place(d, id)].acts
                                    THEN d.records[Place(d, id)].was ELSE d.shown,
                          !.records = RemoveAt(d.records, Place(d, id))]
  <2>1. PICK k \in 1..Len(d.records) : k = Place(d, id)
    BY <1>4
  <2> QED
    BY <1>3, <1>4, <2>1
<1> QED
  BY <1>2, <1>4, RollBackIs

\* A patch is applied.
LEMMA Applied ==
  ASSUME NEW d \in FrameDoc, NEW p \in Patcher, NEW value \in PatchValue, NEW isClass \in BOOLEAN,
         DocFits(d), d.script, \A i \in 1..Len(d.records) : d.records[i].id # p,
         NEW e, e = Apply(d, p, value, isClass)
  PROVE  /\ e \in FrameDoc /\ DocFits(e)
         /\ \A i \in 1..Len(e.records) :
              e.records[i].id = p \/ \E j \in 1..Len(d.records) : e.records[i].id = d.records[j].id
<1>1. d.records \in Seq(PatchRecord) /\ Len(d.records) \in Nat /\ d.shown \in Shown /\ value \in Shown
  BY DEF FrameDoc, Shown
<1>2. CASE Len(d.records) >= MaxPatches
  BY <1>1, <1>2 DEF Apply
<1>3. CASE ~(Len(d.records) >= MaxPatches)
  <2>1. PICK did \in BOOLEAN : did = (~isClass \/ value # d.shown)
    OBVIOUS
  <2>2. PICK r \in PatchRecord : r = [id |-> p, was |-> d.shown, acts |-> did]
    BY <1>1 DEF PatchRecord
  <2>3. r.id = p /\ r.was = d.shown /\ (~r.acts => value = d.shown)
    <3>1. ~did => value = d.shown
      BY <2>1, Zenon
    <3> QED
      BY <2>2, <3>1
  <2>4. PICK n \in Nat : n = Len(d.records)
    BY <1>1
  <2>5. PICK q \in Seq(PatchRecord) :
           /\ q = Append(d.records, r) /\ Len(q) = n + 1 /\ q[n + 1] = r
           /\ \A i \in 1..n : q[i] = d.records[i]
    <3>1. /\ Append(d.records, r) \in Seq(PatchRecord) /\ Len(Append(d.records, r)) = n + 1
          /\ Append(d.records, r)[n + 1] = r
          /\ \A i \in 1..n : Append(d.records, r)[i] = d.records[i]
      BY <1>1, <2>4, AppendProperties
    <3> QED
      BY <3>1
  <2>6. e = [d EXCEPT !.shown = value, !.records = q]
    <3>1. e = [d EXCEPT !.shown = value,
                        !.records = Append(d.records, [id |-> p, was |-> d.shown,
                                                       acts |-> ~isClass \/ value # d.shown])]
      BY <1>3 DEF Apply
    <3> QED
      BY <2>1, <2>2, <2>5, <3>1, Zenon
  <2>7. /\ e \in FrameDoc /\ e.script = d.script /\ e.clean = d.clean /\ e.alone = d.alone
        /\ e.own = d.own /\ e.shown = value /\ e.records = q
    BY <1>1, <2>6 DEF FrameDoc
  <2>8. \A i, j \in 1..(n + 1) : q[i].id = q[j].id => i = j
    <3> SUFFICES ASSUME NEW i \in 1..(n + 1), NEW j \in 1..(n + 1), q[i].id = q[j].id PROVE i = j
      OBVIOUS
    <3>1. CASE i \in 1..n /\ j \in 1..n
      BY <2>4, <2>5, <3>1 DEF DocFits
    <3>2. CASE i = n + 1 \/ j = n + 1
      <4>1. \A k \in 1..n : q[k].id # p
        BY <2>4, <2>5
      <4> QED
        BY <2>3, <2>4, <2>5, <3>2, <4>1
    <3> QED
      BY <2>4, <3>1, <3>2
  <2>9. ASSUME d.clean, d.alone PROVE Chained(e)
    <3>1. /\ d.own = IF n = 0 THEN d.shown ELSE d.records[1].was
          /\ \A i \in 1..n : ~d.records[i].acts =>
               d.records[i].was = IF i = n THEN d.shown ELSE d.records[i + 1].was
      BY <2>4, <2>9 DEF DocFits, Chained
    <3>2. d.own = q[1].was
      <4>1. CASE n = 0
        BY <2>3, <2>5, <3>1, <4>1
      <4>2. CASE n # 0
        <5>1. 1 \in 1..n
          BY <2>4, <4>2
        <5> QED
          BY <2>5, <3>1, <4>2, <5>1
      <4> QED
        BY <4>1, <4>2
    <3>3. ASSUME NEW i \in 1..(n + 1), ~q[i].acts
          PROVE  q[i].was = IF i = n + 1 THEN value ELSE q[i + 1].was
      <4>1. CASE i = n + 1
        BY <2>3, <2>5, <3>3, <4>1
      <4>2. CASE i # n + 1
        <5>1. i \in 1..n /\ q[i] = d.records[i]
          BY <2>4, <2>5, <4>2
        <5>2. CASE i = n
          BY <2>3, <2>5, <3>1, <3>3, <4>2, <5>1, <5>2
        <5>3. CASE i # n
          <6>1. i + 1 \in 1..n
            BY <2>4, <5>1, <5>3
          <6> QED
            BY <2>5, <3>1, <3>3, <4>2, <5>1, <5>3, <6>1
        <5> QED
          BY <5>2, <5>3
      <4> QED
        BY <4>1, <4>2
    <3> QED
      BY <2>4, <2>5, <2>7, <3>2, <3>3 DEF Chained
  <2>10. DocFits(e)
    BY <2>4, <2>5, <2>7, <2>8, <2>9 DEF DocFits
  <2>11. ASSUME NEW i \in 1..(n + 1)
         PROVE  q[i].id = p \/ \E j \in 1..n : q[i].id = d.records[j].id
    <3>1. i = n + 1 \/ i \in 1..n
      BY <2>4
    <3> QED
      BY <2>3, <2>5, <3>1
  <2> QED
    BY <2>4, <2>5, <2>7, <2>10, <2>11
<1> QED
  BY <1>2, <1>3

\* What the page shows becomes its own.
LEMMA Committed ==
  ASSUME NEW d \in FrameDoc, DocFits(d), NEW e, e = Commit(d)
  PROVE  e \in FrameDoc /\ DocFits(e) /\ e.records = <<>>
<1>1. PICK alone \in BOOLEAN : alone <=> d.alone /\ d.records = <<>>
  OBVIOUS
<1>2. <<>> \in Seq(PatchRecord) /\ Len(<<>>) = 0
  OBVIOUS
<1>3. /\ e \in FrameDoc /\ e.records = <<>> /\ e.own = d.shown /\ e.shown = d.shown
  BY <1>2 DEF Commit, FrameDoc
<1>4. Len(e.records) = 0 /\ 1..0 = {}
  BY <1>2, <1>3
<1>5. Chained(e)
  BY <1>3, <1>4 DEF Chained
<1> QED
  BY <1>3, <1>4, <1>5 DEF DocFits

-----------------------------------------------------------------------------
\* Messages.  Those of requests move up together, behind what has arrived.
LEMMA MailMoves ==
  ASSUME PatchTypeOK, MailAgrees, mail' \in [Frame -> Seq(PatchMail)], NEW s \in [Frame -> {0, 1}],
         \A f \in Frame : \A i \in DOMAIN mail'[f] : mail'[f][i].from \in Patcher =>
           /\ i + s[f] \in DOMAIN mail[f] /\ mail'[f][i] = mail[f][i + s[f]]
           /\ patching'[mail'[f][i].from].stage = "sent",
         undo'.stage # "done" => undo.stage # "done" /\ patched \subseteq patched'
  PROVE  MailAgrees'
<1>1. ASSUME NEW f \in Frame, NEW i \in DOMAIN mail'[f]
      PROVE  MessageAgrees(f, i)'
  <2> SUFFICES ASSUME mail'[f][i].from \in Patcher
               PROVE  /\ patching'[mail'[f][i].from].stage = "sent"
                      /\ undo'.stage # "done" /\ mail'[f][i].work.kind = "apply" => f \in patched'
    BY DEF MessageAgrees
  <2>1. PICK j \in DOMAIN mail[f] : mail'[f][i] = mail[f][j]
    OBVIOUS
  <2>2. MessageAgrees(f, j)
    BY DEF MailAgrees
  <2> QED
    BY <2>1, <2>2 DEF MessageAgrees
<1>2. OneMessage'
  <2> SUFFICES ASSUME NEW f \in Frame, NEW g \in Frame, NEW i \in DOMAIN mail'[f], NEW j \in DOMAIN mail'[g],
                      mail'[f][i].from \in Patcher, mail'[f][i].from = mail'[g][j].from
               PROVE  f = g /\ i = j
    BY DEF OneMessage
  <2>1. i + s[f] \in DOMAIN mail[f] /\ mail'[f][i] = mail[f][i + s[f]]
    OBVIOUS
  <2>2. j + s[g] \in DOMAIN mail[g] /\ mail'[g][j] = mail[g][j + s[g]]
    OBVIOUS
  <2>3. f = g /\ i + s[f] = j + s[g]
    BY <2>1, <2>2 DEF MailAgrees, OneMessage
  <2>4. i \in Nat /\ j \in Nat /\ s[f] \in Nat
    <3>1. mail'[f] \in Seq(PatchMail) /\ mail'[g] \in Seq(PatchMail)
      OBVIOUS
    <3>2. i \in 1..Len(mail'[f]) /\ j \in 1..Len(mail'[g]) /\ s[f] \in {0, 1}
      BY <3>1
    <3> QED
      BY <3>2
  <2> QED
    BY <2>3, <2>4
<1> QED
  BY <1>1, <1>2 DEF MailAgrees

\* None moves.
LEMMA MailStays ==
  ASSUME PatchTypeOK, MailAgrees, mail' = mail, undo'.stage # "done" => undo.stage # "done" /\ patched \subseteq patched',
         \A q \in Patcher : patching[q].stage = "sent" => patching'[q].stage = "sent"
  PROVE  MailAgrees'
<1>1. ASSUME NEW f \in Frame, NEW i \in DOMAIN mail[f] PROVE MessageAgrees(f, i)'
  <2>1. MessageAgrees(f, i)
    BY DEF MailAgrees
  <2> QED
    BY <2>1 DEF MessageAgrees
<1>2. OneMessage'
  BY DEF MailAgrees, OneMessage
<1> QED
  BY <1>1, <1>2 DEF MailAgrees

\* A request sends one.
LEMMA MailPosted ==
  ASSUME PatchTypeOK, MailAgrees, NEW p \in Patcher, NEW there \in Frame, NEW message \in PatchMail,
         Posted(there, message), message.from = p, patching[p].stage # "sent",
         patching'[p].stage = "sent", \A q \in Patcher : q # p => patching'[q] = patching[q],
         undo'.stage = undo.stage, patched \subseteq patched', message.work.kind = "apply" => there \in patched'
  PROVE  /\ MailAgrees' /\ mail' \in [Frame -> Seq(PatchMail)]
         /\ \A f \in Frame : (\A i \in DOMAIN mail[f] : mail[f][i].from \in Patcher) =>
              \A i \in DOMAIN mail'[f] : mail'[f][i].from \in Patcher
<1>1. mail' = [mail EXCEPT ![there] = Append(mail[there], message)]
  BY DEF Posted
<1>2. /\ mail[there] \in Seq(PatchMail) /\ Len(mail[there]) \in Nat /\ DOMAIN mail[there] = 1..Len(mail[there])
  BY DEF PatchTypeOK
<1>3. PICK q \in Seq(PatchMail) :
         /\ q = Append(mail[there], message) /\ Len(q) = Len(mail[there]) + 1 /\ q[Len(mail[there]) + 1] = message
         /\ \A i \in 1..Len(mail[there]) : q[i] = mail[there][i]
  <2>1. /\ Append(mail[there], message) \in Seq(PatchMail)
        /\ Len(Append(mail[there], message)) = Len(mail[there]) + 1
        /\ Append(mail[there], message)[Len(mail[there]) + 1] = message
        /\ \A i \in 1..Len(mail[there]) : Append(mail[there], message)[i] = mail[there][i]
    BY <1>2, AppendProperties
  <2> QED
    BY <2>1
<1>4. /\ mail' \in [Frame -> Seq(PatchMail)] /\ mail'[there] = q
      /\ \A f \in Frame \ {there} : mail'[f] = mail[f]
  BY <1>1, <1>3 DEF PatchTypeOK
<1>5. DOMAIN mail'[there] = 1..(Len(mail[there]) + 1)
  BY <1>3, <1>4
<1>6. ASSUME NEW f \in Frame, NEW i \in DOMAIN mail'[f]
      PROVE  \/ f = there /\ i = Len(mail[there]) + 1 /\ mail'[f][i] = message
             \/ i \in DOMAIN mail[f] /\ mail'[f][i] = mail[f][i]
  <2>1. CASE f = there
    <3>1. i \in 1..(Len(mail[there]) + 1)
      BY <1>5, <2>1
    <3>2. i = Len(mail[there]) + 1 \/ i \in 1..Len(mail[there])
      BY <1>2, <3>1
    <3> QED
      BY <1>2, <1>3, <1>4, <2>1, <3>2
  <2>2. CASE f # there
    BY <1>4, <2>2
  <2> QED
    BY <2>1, <2>2
<1>7. ASSUME NEW f \in Frame, NEW i \in DOMAIN mail[f], mail[f][i].from \in Patcher
      PROVE  mail[f][i].from # p /\ patching[mail[f][i].from].stage = "sent"
             /\ (undo.stage # "done" /\ mail[f][i].work.kind = "apply" => f \in patched)
  BY <1>7 DEF MailAgrees, MessageAgrees
<1>8. ASSUME NEW f \in Frame, NEW i \in DOMAIN mail'[f] PROVE MessageAgrees(f, i)'
  <2> SUFFICES ASSUME mail'[f][i].from \in Patcher
               PROVE  /\ patching'[mail'[f][i].from].stage = "sent"
                      /\ undo'.stage # "done" /\ mail'[f][i].work.kind = "apply" => f \in patched'
    BY DEF MessageAgrees
  <2> QED
    BY <1>6, <1>7
<1>9. OneMessage'
  <2> SUFFICES ASSUME NEW f \in Frame, NEW g \in Frame, NEW i \in DOMAIN mail'[f], NEW j \in DOMAIN mail'[g],
                      mail'[f][i].from \in Patcher, mail'[f][i].from = mail'[g][j].from
               PROVE  f = g /\ i = j
    BY DEF OneMessage
  <2>1. CASE i \in DOMAIN mail[f] /\ mail'[f][i] = mail[f][i]
    <3>1. j \in DOMAIN mail[g] /\ mail'[g][j] = mail[g][j]
      BY <1>6, <1>7, <2>1
    <3> QED
      BY <2>1, <3>1 DEF MailAgrees, OneMessage
  <2>2. CASE f = there /\ i = Len(mail[there]) + 1 /\ mail'[f][i] = message
    BY <1>6, <1>7, <2>2
  <2> QED
    BY <1>6, <2>1, <2>2
<1>10. ASSUME NEW f \in Frame, \A i \in DOMAIN mail[f] : mail[f][i].from \in Patcher
       PROVE  \A i \in DOMAIN mail'[f] : mail'[f][i].from \in Patcher
  BY <1>6, <1>10
<1> QED
  BY <1>4, <1>8, <1>9, <1>10 DEF MailAgrees

\* Documents no step touches.
LEMMA DocsStay ==
  ASSUME DocsAgree, PatchTypeOK, NEW F \in SUBSET Frame, \A f \in F : doc'[f] = doc[f],
         \A q \in Patcher : patching[q].stage = "over" => patching'[q].stage = "over"
  PROVE  \A f \in F : DocAgrees(f)'
<1> SUFFICES ASSUME NEW f \in F PROVE DocAgrees(f)'
  OBVIOUS
<1>1. DocAgrees(f) /\ doc'[f] = doc[f]
  BY DEF DocsAgree
<1>2. doc[f].records \in Seq(PatchRecord)
  BY DEF PatchTypeOK, FrameDoc
<1>3. \A i \in 1..Len(doc[f].records) : doc[f].records[i].id \in Patcher
  <2> SUFFICES ASSUME NEW i \in 1..Len(doc[f].records) PROVE doc[f].records[i].id \in Patcher
    OBVIOUS
  <2>1. doc[f].records[i] \in PatchRecord
    BY <1>2
  <2> QED
    BY <2>1 DEF PatchRecord
<1> QED
  BY <1>1, <1>3 DEF DocAgrees

\* It holds at the start.
LEMMA PatchesBegin == PatchInit => PatchInv
<1> SUFFICES ASSUME PatchInit PROVE PatchInv
  OBVIOUS
<1>1. /\ doc = [f \in Frame |-> Loaded(TRUE)]
      /\ patching = [p \in Patcher |-> [stage |-> "none"]]
      /\ mail = [f \in Frame |-> <<>>] /\ patched = {} /\ patchAccess = TRUE
      /\ undo = [stage |-> "off", todo |-> [f \in Frame |-> <<>>], late |-> FALSE]
  BY DEF PatchInit
<1>2. UndoShape /\ undo.stage = "off" /\ undo.todo = [f \in Frame |-> <<>>]
  BY <1>1 DEF UndoShape
<1>3. PatchTypeOK
  <2>1. Loaded(TRUE) \in FrameDoc
    BY DEF Loaded, FrameDoc, Shown
  <2>2. [stage |-> "none"] \in PatchCall
    BY DEF PatchCall
  <2>3. mail \in [Frame -> Seq(PatchMail)] /\ undo.todo \in [Frame -> Seq(Patcher \union {"list"})]
    BY <1>1, <1>2
  <2> QED
    BY <1>1, <2>1, <2>2, <2>3 DEF PatchTypeOK
<1>4. DocsAgree
  <2>1. ASSUME NEW f \in Frame PROVE DocAgrees(f)
    <3>1. doc[f].records = <<>> /\ doc[f].shown = doc[f].own
      BY <1>1 DEF Loaded
    <3>2. Len(doc[f].records) = 0 /\ 1..0 = {}
      BY <3>1
    <3> QED
      BY <3>1, <3>2 DEF DocAgrees, DocFits, Chained
  <2> QED
    BY <2>1 DEF DocsAgree
<1>5. \A f \in Frame : DOMAIN mail[f] = {}
  BY <1>1
<1>6. MailAgrees
  BY <1>5 DEF MailAgrees, OneMessage
<1>7. UndoAgree
  BY <1>1, <1>2, <1>5 DEF UndoAgree, UndoAgrees
<1> QED
  BY <1>2, <1>3, <1>4, <1>6, <1>7 DEF PatchInv

-----------------------------------------------------------------------------
\* Requests.
PatchGood == PatchTypeOK /\ DocsAgree /\ MailAgrees /\ UndoAgree

\* A frame no step touches.
LEMMA UndoStays ==
  ASSUME NEW f \in Frame, UndoAgrees(f), mail'[f] = mail[f], undo'.stage = undo.stage,
         undo'.todo[f] = undo.todo[f], doc'[f].records = doc[f].records,
         doc'[f].script => doc[f].script
  PROVE  UndoAgrees(f)'
<1>1. /\ Undone(f) => Undone(f)'
      /\ Asks(f) => Asks(f)'
      /\ Lists(f) => Lists(f)'
  BY DEF Undone, Asks, Lists
<1> QED
  BY <1>1 DEF UndoAgrees

LEMMA OnlyCalls ==
  ASSUME PatchGood, UNCHANGED <<doc, mail, undo, patchAccess>>, patched \subseteq patched',
         patched' \subseteq Frame, patching' \in [Patcher -> PatchCall],
         \A q \in Patcher : patching[q].stage = "over" => patching'[q].stage = "over",
         \A q \in Patcher : patching[q].stage = "sent" => patching'[q].stage = "sent"
  PROVE  PatchGood'
<1>1. PatchTypeOK'
  BY DEF PatchGood, PatchTypeOK
<1>2. DocsAgree'
  <2>1. \A f \in Frame : DocAgrees(f)'
    BY DocsStay DEF PatchGood
  <2> QED
    BY <2>1 DEF DocsAgree
<1>3. MailAgrees'
  BY MailStays DEF PatchGood
<1>4. UndoAgree'
  <2>1. \A f \in Frame : UndoAgrees(f)'
    BY UndoStays DEF PatchGood, UndoAgree
  <2> QED
    BY <2>1 DEF PatchGood, UndoAgree
<1> QED
  BY <1>1, <1>2, <1>3, <1>4 DEF PatchGood

\* A document gets its script.
LEMMA Scripted ==
  ASSUME NEW d \in FrameDoc, DocFits(d)
  PROVE  /\ [d EXCEPT !.script = TRUE] \in FrameDoc /\ DocFits([d EXCEPT !.script = TRUE])
         /\ [d EXCEPT !.script = TRUE].records = d.records
<1>1. PICK e \in FrameDoc : e = [d EXCEPT !.script = TRUE]
  BY DEF FrameDoc
<1>2. /\ e.script /\ e.shown = d.shown /\ e.own = d.own /\ e.clean = d.clean /\ e.alone = d.alone
      /\ e.records = d.records
  BY <1>1 DEF FrameDoc
<1>3. DocFits(e)
  BY <1>2 DEF DocFits, Chained
<1> QED
  BY <1>1, <1>2, <1>3

\* A request that may still send, while there is access.
LEMMA PostedKeeps ==
  ASSUME PatchGood, patchAccess, NEW p \in Patcher, NEW there \in Frame, NEW message \in PatchMail,
         Posted(there, message), message.from = p, patching[p].stage \in {"ready", "retry"},
         patching' = [patching EXCEPT ![p].stage = "sent"],
         undo'.stage = undo.stage, undo'.todo = undo.todo, patchAccess' = patchAccess,
         patched \subseteq patched', patched' \subseteq Frame,
         message.work.kind = "apply" => there \in patched',
         \/ doc' = doc
         \/ doc' = [doc EXCEPT ![TopFrame].script = TRUE]
  PROVE  PatchGood'
<1>1. PatchTypeOK /\ DocsAgree /\ MailAgrees /\ UndoAgree
  BY DEF PatchGood
<1>2. /\ patching' \in [Patcher -> PatchCall] /\ patching'[p].stage = "sent"
      /\ \A q \in Patcher : q # p => patching'[q] = patching[q]
  <2>1. [patching[p] EXCEPT !.stage = "sent"] \in PatchCall
    <3>1. PICK c \in PatchCall : c = patching[p]
      BY <1>1 DEF PatchTypeOK
    <3>2. c \in [stage : {"ready", "sent", "retry"}, frame : Frame, work : PatchWork]
      BY <3>1 DEF PatchCall
    <3>3. [c EXCEPT !.stage = "sent"] \in [stage : {"ready", "sent", "retry"}, frame : Frame, work : PatchWork]
      BY <3>2
    <3> QED
      BY <3>1, <3>3 DEF PatchCall
  <2>2. [patching[p] EXCEPT !.stage = "sent"].stage = "sent"
    BY <1>1 DEF PatchTypeOK, PatchCall
  <2>3. patching' = [patching EXCEPT ![p] = [patching[p] EXCEPT !.stage = "sent"]]
    OBVIOUS
  <2> QED
    BY <1>1, <2>1, <2>2, <2>3 DEF PatchTypeOK
<1>3. /\ MailAgrees' /\ mail' \in [Frame -> Seq(PatchMail)]
      /\ \A f \in Frame : (\A i \in DOMAIN mail[f] : mail[f][i].from \in Patcher) =>
           \A i \in DOMAIN mail'[f] : mail'[f][i].from \in Patcher
  BY <1>1, <1>2, MailPosted
<1>4. \A f \in Frame : /\ doc'[f] \in FrameDoc /\ DocFits(doc'[f]) /\ doc'[f].records = doc[f].records
                       /\ doc' \in [Frame -> FrameDoc]
  <2>1. \A f \in Frame : doc[f] \in FrameDoc /\ DocFits(doc[f])
    BY <1>1 DEF PatchTypeOK, DocsAgree, DocAgrees
  <2>2. CASE doc' = doc
    BY <1>1, <2>1, <2>2 DEF PatchTypeOK
  <2>3. CASE doc' = [doc EXCEPT ![TopFrame].script = TRUE]
    <3>1. /\ [doc[TopFrame] EXCEPT !.script = TRUE] \in FrameDoc
          /\ DocFits([doc[TopFrame] EXCEPT !.script = TRUE])
          /\ [doc[TopFrame] EXCEPT !.script = TRUE].records = doc[TopFrame].records
      BY <2>1, Scripted, PatchFrames
    <3>2. PICK e \in FrameDoc : e = [doc[TopFrame] EXCEPT !.script = TRUE]
      BY <3>1
    <3>3. doc' = [doc EXCEPT ![TopFrame] = e]
      BY <2>3, <3>2
    <3> QED
      BY <1>1, <2>1, <3>1, <3>2, <3>3 DEF PatchTypeOK
  <2> QED
    BY <2>2, <2>3
<1>5. DocsAgree'
  <2>1. ASSUME NEW f \in Frame PROVE DocAgrees(f)'
    <3>1. DocAgrees(f) /\ DocFits(doc'[f]) /\ doc'[f].records = doc[f].records
      BY <1>1, <1>4 DEF DocsAgree
    <3>2. ASSUME NEW i \in 1..Len(doc[f].records)
          PROVE  patching'[doc[f].records[i].id].stage = "over"
      <4>1. doc[f].records \in Seq(PatchRecord) /\ doc[f].records[i] \in PatchRecord
        BY <1>1 DEF PatchTypeOK, FrameDoc
      <4>2. doc[f].records[i].id \in Patcher /\ doc[f].records[i].id # p
        BY <3>1, <4>1 DEF PatchRecord, DocAgrees
      <4> QED
        BY <1>2, <3>1, <4>2 DEF DocAgrees
    <3> QED
      BY <3>1, <3>2 DEF DocAgrees
  <2> QED
    BY <2>1 DEF DocsAgree
<1>6. UndoAgree'
  <2>1. undo.stage = "off"
    BY <1>1 DEF UndoAgree
  <2>2. \A f \in Frame : UndoAgrees(f)'
    BY <1>1, <1>3, <2>1 DEF UndoAgree, UndoAgrees
  <2> QED
    BY <1>1, <2>1, <2>2 DEF UndoAgree
<1>7. PatchTypeOK'
  <2>1. doc' \in [Frame -> FrameDoc]
    BY <1>4, PatchFrames
  <2> QED
    BY <1>1, <1>2, <1>3, <2>1 DEF PatchTypeOK
<1> QED
  BY <1>3, <1>5, <1>6, <1>7 DEF PatchGood

\* A request that is over.
LEMMA OverIs ==
  ASSUME PatchGood, NEW p \in Patcher, Over(p)
  PROVE  /\ patching' \in [Patcher -> PatchCall] /\ patching'[p].stage = "over"
         /\ \A q \in Patcher : q # p => patching'[q] = patching[q]
<1>1. [stage |-> "over"] \in PatchCall
  BY DEF PatchCall
<1> QED
  BY <1>1 DEF Over, PatchGood, PatchTypeOK

LEMMA PatchCalledKeeps ==
  ASSUME PatchGood, NEW p \in Patcher, NEW f \in Frame, NEW work \in PatchWork, PatchCalled(p, f, work)
  PROVE  PatchGood'
<1>1. /\ patching[p].stage = "none" /\ UNCHANGED <<doc, mail, undo, patchAccess>> /\ patched' = patched
      /\ patching' = [patching EXCEPT ![p] = [stage |-> "ready", frame |-> f, work |-> work]]
  BY DEF PatchCalled
<1>2. [stage |-> "ready", frame |-> f, work |-> work] \in PatchCall
  BY DEF PatchCall
<1>3. patching \in [Patcher -> PatchCall] /\ patched \subseteq Frame
  BY DEF PatchGood, PatchTypeOK
<1>4. /\ patching' \in [Patcher -> PatchCall]
      /\ \A q \in Patcher : q # p => patching'[q] = patching[q]
  BY <1>1, <1>2, <1>3
<1>5. /\ \A q \in Patcher : patching[q].stage = "over" => patching'[q].stage = "over"
      /\ \A q \in Patcher : patching[q].stage = "sent" => patching'[q].stage = "sent"
  BY <1>1, <1>4
<1> QED
  BY <1>1, <1>3, <1>4, <1>5, OnlyCalls

LEMMA PatchSentKeeps ==
  ASSUME PatchGood, NEW p \in Patcher, PatchSent(p)
  PROVE  PatchGood'
<1>1. /\ patching[p].stage = "ready" /\ UNCHANGED <<doc, undo, patchAccess>>
  BY DEF PatchSent, IsAt
<1>2. patching \in [Patcher -> PatchCall] /\ patched \subseteq Frame
  BY DEF PatchGood, PatchTypeOK
<1>3. patching[p] \in PatchCall /\ patching[p].frame \in Frame /\ patching[p].work \in PatchWork
  <2>1. patching[p] \in PatchCall
    BY <1>2
  <2> QED
    BY <1>1, <2>1 DEF PatchCall
<1>4. CASE patchAccess
  <2>1. PICK there \in Frame : there = patching[p].frame
    BY <1>3
  <2>2. PICK work \in PatchWork : work = patching[p].work
    BY <1>3
  <2>3. PICK message \in PatchMail : message = [from |-> p, work |-> work]
    BY DEF PatchMail
  <2>4. /\ Posted(there, message) /\ patching' = [patching EXCEPT ![p].stage = "sent"]
        /\ patched' = IF work.kind = "apply" THEN patched \union {there} ELSE patched
    BY <1>4, <2>1, <2>2, <2>3 DEF PatchSent
  <2>5. message.from = p /\ message.work = work
    BY <2>3
  <2>6. patched \subseteq patched' /\ patched' \subseteq Frame /\ (work.kind = "apply" => there \in patched')
    BY <1>2, <2>4
  <2> QED
    BY <1>1, <1>4, <2>4, <2>5, <2>6, PostedKeeps
<1>5. CASE ~patchAccess
  <2>1. Over(p) /\ mail' = mail /\ patched' = patched
    BY <1>5 DEF PatchSent
  <2>2. /\ patching' \in [Patcher -> PatchCall] /\ patching'[p].stage = "over"
        /\ \A q \in Patcher : q # p => patching'[q] = patching[q]
    BY <2>1, OverIs
  <2>3. /\ \A q \in Patcher : patching[q].stage = "over" => patching'[q].stage = "over"
        /\ \A q \in Patcher : patching[q].stage = "sent" => patching'[q].stage = "sent"
    BY <1>1, <2>2
  <2> QED
    BY <1>1, <1>2, <2>1, <2>2, <2>3, OnlyCalls
<1> QED
  BY <1>4, <1>5

LEMMA PatchRetriedKeeps ==
  ASSUME UndoShape, ~undo.late => PatchGood, NEW p \in Patcher, PatchRetried(p)
  PROVE  UndoShape' /\ (~undo'.late => PatchGood')
<1>1. patching[p].stage = "retry" /\ patchAccess' = patchAccess
  BY DEF PatchRetried, IsAt
<1>2. CASE /\ Posted(TopFrame, [from |-> p, work |-> patching[p].work])
           /\ patching' = [patching EXCEPT ![p].stage = "sent"]
           /\ doc' = [doc EXCEPT ![TopFrame].script = TRUE]
           /\ patched' = IF patching[p].work.kind = "apply" THEN patched \union {TopFrame} ELSE patched
           /\ undo' = [undo EXCEPT !.late = undo.late \/ ~patchAccess]
  <2>1. PICK late \in BOOLEAN : late = (undo.late \/ ~patchAccess)
    OBVIOUS
  <2>2. undo' = [stage |-> undo.stage, todo |-> undo.todo, late |-> late]
    BY <1>2, <2>1 DEF UndoShape
  <2>3. UndoShape' /\ undo'.stage = undo.stage /\ undo'.todo = undo.todo /\ undo'.late = late
    BY <2>2 DEF UndoShape
  <2>4. ASSUME ~late PROVE PatchGood'
    <3>1. ~undo.late /\ patchAccess
      BY <2>1, <2>4, Zenon
    <3>2. PatchGood
      BY <3>1
    <3>3. patching \in [Patcher -> PatchCall] /\ patched \subseteq Frame
      BY <3>2 DEF PatchGood, PatchTypeOK
    <3>4. patching[p] \in PatchCall
      BY <3>3
    <3>5. patching[p].work \in PatchWork
      BY <1>1, <3>4 DEF PatchCall
    <3>6. PICK work \in PatchWork : work = patching[p].work
      BY <3>5
    <3>7. PICK message \in PatchMail : message = [from |-> p, work |-> work]
      BY DEF PatchMail
    <3>8. message.from = p /\ message.work = work
      BY <3>7
    <3>9. Posted(TopFrame, message)
      BY <1>2, <3>6, <3>7
    <3>10. /\ patched \subseteq patched' /\ patched' \subseteq Frame
           /\ (work.kind = "apply" => TopFrame \in patched')
      BY <1>2, <3>3, <3>6, PatchFrames
    <3>11. TopFrame \in Frame
      BY PatchFrames
    <3> QED
      BY <1>1, <1>2, <2>3, <3>1, <3>2, <3>8, <3>9, <3>10, <3>11, PostedKeeps
  <2> QED
    BY <2>3, <2>4
<1>3. CASE Over(p) /\ UNCHANGED <<doc, mail, patched, undo>>
  <2>1. UndoShape' /\ undo'.late = undo.late
    BY <1>3 DEF UndoShape
  <2>2. ASSUME ~undo.late PROVE PatchGood'
    <3>1. PatchGood /\ patched \subseteq Frame
      BY <2>2 DEF PatchGood, PatchTypeOK
    <3>2. /\ patching' \in [Patcher -> PatchCall] /\ patching'[p].stage = "over"
          /\ \A q \in Patcher : q # p => patching'[q] = patching[q]
      BY <1>3, <3>1, OverIs
    <3>3. /\ \A q \in Patcher : patching[q].stage = "over" => patching'[q].stage = "over"
          /\ \A q \in Patcher : patching[q].stage = "sent" => patching'[q].stage = "sent"
      BY <1>1, <3>2
    <3> QED
      BY <1>1, <1>3, <3>1, <3>2, <3>3, OnlyCalls
  <2> QED
    BY <2>1, <2>2
<1> QED
  BY <1>2, <1>3 DEF PatchRetried

-----------------------------------------------------------------------------
\* A frame takes the first message on its way.
LEMMA MailTaken ==
  ASSUME PatchTypeOK, NEW f \in Frame, mail[f] # <<>>
  PROVE  /\ mail[f] \in Seq(PatchMail) /\ Len(mail[f]) \in Nat \ {0} /\ DOMAIN mail[f] = 1..Len(mail[f])
         /\ Head(mail[f]) = mail[f][1] /\ mail[f][1] \in PatchMail /\ 1 \in DOMAIN mail[f]
         /\ Tail(mail[f]) \in Seq(PatchMail) /\ Len(Tail(mail[f])) = Len(mail[f]) - 1
         /\ \A i \in 1..(Len(mail[f]) - 1) :
              Tail(mail[f])[i] = mail[f][i + 1] /\ i + 1 \in DOMAIN mail[f]
<1>1. mail[f] \in Seq(PatchMail)
  BY DEF PatchTypeOK
<1>2. Len(mail[f]) \in Nat \ {0} /\ DOMAIN mail[f] = 1..Len(mail[f])
  BY <1>1, EmptySeq
<1>3. Head(mail[f]) = mail[f][1] /\ 1 \in DOMAIN mail[f] /\ mail[f][1] \in PatchMail
  BY <1>1, <1>2, HeadTailProperties
<1>4. /\ Tail(mail[f]) \in Seq(PatchMail) /\ Len(Tail(mail[f])) = Len(mail[f]) - 1
      /\ \A i \in 1..(Len(mail[f]) - 1) : Tail(mail[f])[i] = mail[f][i + 1]
  BY <1>1, HeadTailProperties
<1>5. \A i \in 1..(Len(mail[f]) - 1) : i + 1 \in DOMAIN mail[f]
  BY <1>2
<1> QED
  BY <1>1, <1>2, <1>3, <1>4, <1>5

LEMMA PatchArrivesKeeps ==
  ASSUME PatchGood, NEW f \in Frame, PatchArrives(f)
  PROVE  PatchGood'
<1>1. /\ mail[f] # <<>> /\ mail' = [mail EXCEPT ![f] = Tail(mail[f])]
      /\ patched' = patched /\ undo' = undo /\ patchAccess' = patchAccess
  BY DEF PatchArrives
<1>2. PatchTypeOK /\ DocsAgree /\ MailAgrees /\ UndoAgree
  BY DEF PatchGood
<1>3. /\ mail[f] \in Seq(PatchMail) /\ Len(mail[f]) \in Nat \ {0} /\ DOMAIN mail[f] = 1..Len(mail[f])
      /\ Head(mail[f]) = mail[f][1] /\ mail[f][1] \in PatchMail /\ 1 \in DOMAIN mail[f]
      /\ Tail(mail[f]) \in Seq(PatchMail) /\ Len(Tail(mail[f])) = Len(mail[f]) - 1
      /\ \A i \in 1..(Len(mail[f]) - 1) :
           Tail(mail[f])[i] = mail[f][i + 1] /\ i + 1 \in DOMAIN mail[f]
  BY <1>1, <1>2, MailTaken
<1>4. PICK p \in Patcher : p = mail[f][1].from
  BY <1>3 DEF PatchArrives
<1>5. mail[f][1].work \in PatchWork
  BY <1>3, <1>4, PatchFrames DEF PatchMail
<1>6. PICK work \in PatchWork : work = mail[f][1].work
  BY <1>5
<1>7. patching[p].stage = "sent"
  <2>1. MessageAgrees(f, 1)
    BY <1>2, <1>3 DEF MailAgrees
  <2> QED
    BY <1>4, <2>1 DEF MessageAgrees
<1>8. /\ mail' \in [Frame -> Seq(PatchMail)]
      /\ \A g \in Frame : g # f => mail'[g] = mail[g]
      /\ mail'[f] = Tail(mail[f]) /\ DOMAIN mail'[f] = 1..(Len(mail[f]) - 1)
  BY <1>1, <1>2, <1>3 DEF PatchTypeOK
\* What becomes of the request.
<1>9. /\ patching' \in [Patcher -> PatchCall] /\ patching'[p].stage \in {"over", "retry"}
      /\ doc[f].script => patching'[p].stage = "over"
      /\ \A q \in Patcher : q # p => patching'[q] = patching[q]
  <2>1. CASE Over(p)
    BY <2>1, OverIs
  <2>2. CASE ~doc[f].script /\ patching' = [patching EXCEPT ![p].stage = "retry"]
    <3>1. PICK c \in PatchCall : c = patching[p]
      BY <1>2 DEF PatchTypeOK
    <3>2. c \in [stage : {"ready", "sent", "retry"}, frame : Frame, work : PatchWork]
      BY <1>7, <3>1 DEF PatchCall
    <3>3. [c EXCEPT !.stage = "retry"] \in [stage : {"ready", "sent", "retry"}, frame : Frame, work : PatchWork]
      BY <3>2
    <3>4. [c EXCEPT !.stage = "retry"].stage = "retry"
      BY <3>2
    <3>5. PICK e \in PatchCall : e = [c EXCEPT !.stage = "retry"]
      BY <3>3 DEF PatchCall
    <3>6. patching' = [patching EXCEPT ![p] = e]
      BY <2>2, <3>1, <3>5
    <3> QED
      BY <1>2, <2>2, <3>4, <3>5, <3>6 DEF PatchTypeOK
  <2> QED
    BY <1>3, <1>4, <2>1, <2>2 DEF PatchArrives
<1>10. MailAgrees'
  <2>1. PICK s \in [Frame -> {0, 1}] : s = [g \in Frame |-> IF g = f THEN 1 ELSE 0]
    OBVIOUS
  <2>2. ASSUME NEW g \in Frame, NEW i \in DOMAIN mail'[g], mail'[g][i].from \in Patcher
        PROVE  /\ i + s[g] \in DOMAIN mail[g] /\ mail'[g][i] = mail[g][i + s[g]]
               /\ patching'[mail'[g][i].from].stage = "sent"
    <3>1. PICK j \in DOMAIN mail[g] : j = i + s[g] /\ mail'[g][i] = mail[g][j] /\ ~(g = f /\ j = 1)
      <4>1. CASE g = f
        <5>1. s[g] = 1 /\ i \in 1..(Len(mail[f]) - 1) /\ i + 1 # 1
          BY <1>3, <1>8, <2>1, <4>1
        <5> QED
          BY <1>3, <1>8, <4>1, <5>1
      <4>2. CASE g # f
        <5>1. s[g] = 0 /\ mail'[g] = mail[g] /\ i \in Nat
          <6>1. mail[g] \in Seq(PatchMail) /\ mail'[g] = mail[g] /\ s[g] = 0
            BY <1>2, <1>8, <2>1, <4>2 DEF PatchTypeOK
          <6>2. i \in 1..Len(mail[g])
            BY <6>1
          <6> QED
            BY <6>1, <6>2
        <5> QED
          BY <4>2, <5>1
      <4> QED
        BY <4>1, <4>2
    <3>2. MessageAgrees(g, j)
      BY <1>2 DEF MailAgrees
    <3>3. mail[g][j].from # p
      BY <1>2, <1>3, <1>4, <3>1 DEF MailAgrees, OneMessage
    <3> QED
      BY <1>9, <2>2, <3>1, <3>2, <3>3 DEF MessageAgrees
  <2> HIDE DEF MessageAgrees
  <2> QED
    BY <1>1, <1>2, <1>8, <2>2, MailMoves
\* What becomes of the document.
<1>11. PICK e \in FrameDoc :
         /\ doc' = [doc EXCEPT ![f] = e] /\ DocFits(e)
         /\ \A i \in 1..Len(e.records) :
              \/ doc[f].script /\ e.records[i].id = p
              \/ \E j \in 1..Len(doc[f].records) : e.records[i].id = doc[f].records[j].id
         /\ doc[f].records = <<>> /\ work.kind # "apply" => e.records = <<>>
  <2>1. PICK d \in FrameDoc : d = doc[f]
    BY <1>2 DEF PatchTypeOK
  <2>2. DocFits(d) /\ DocAgrees(f)
    BY <1>2, <2>1 DEF DocsAgree, DocAgrees
  <2>3. CASE ~d.script
    <3>1. doc' = [doc EXCEPT ![f] = d]
      BY <1>2, <2>1, <2>3 DEF PatchArrives, PatchTypeOK
    <3> QED
      BY <2>1, <2>2, <3>1
  <2>4. CASE d.script /\ work.kind = "apply"
    <3>1. work.value \in PatchValue /\ work.isClass \in BOOLEAN
      BY <2>4 DEF PatchWork
    <3>2. \A i \in 1..Len(d.records) : d.records[i].id # p
      BY <1>7, <2>1, <2>2 DEF DocAgrees
    <3>3. PICK e : e = Apply(d, p, work.value, work.isClass)
      OBVIOUS
    <3>4. /\ e \in FrameDoc /\ DocFits(e)
          /\ \A i \in 1..Len(e.records) :
               e.records[i].id = p \/ \E j \in 1..Len(d.records) : e.records[i].id = d.records[j].id
      BY <2>2, <2>4, <3>1, <3>2, <3>3, Applied
    <3>5. doc' = [doc EXCEPT ![f] = e]
      BY <1>3, <1>4, <1>6, <2>1, <2>4, <3>3 DEF PatchArrives
    <3> QED
      BY <2>1, <2>4, <3>4, <3>5
  <2>5. CASE d.script /\ work.kind = "rollback"
    <3>1. PICK id \in Patcher : id = work.id
      BY <2>5 DEF PatchWork
    <3>2. PICK u \in FrameDoc : u = RollBack(d, id)
      BY <2>2, RolledBack
    <3>3. /\ u.script = d.script /\ u.clean = d.clean /\ u.alone = d.alone
          /\ u.records # <<>> => u.script
          /\ \A i, j \in 1..Len(u.records) : u.records[i].id = u.records[j].id => i = j
          /\ Place(d, id) \in {0, Len(d.records)} => DocFits(u)
          /\ \A i \in 1..Len(u.records) : \E j \in 1..Len(d.records) : u.records[i].id = d.records[j].id
          /\ d.records = <<>> => u = d
      <4>1. /\ u.script = d.script /\ u.clean = d.clean /\ u.alone = d.alone
            /\ u.records # <<>> => u.script
            /\ d.records = <<>> => u = d
        BY <2>2, <3>2, RolledBack
      <4>2. \A i, j \in 1..Len(u.records) : u.records[i].id = u.records[j].id => i = j
        BY <2>2, <3>2, RolledBack
      <4>3. Place(d, id) \in {0, Len(d.records)} => DocFits(u)
        BY <2>2, <3>2, RolledBack
      <4>4. \A i \in 1..Len(u.records) : \E j \in 1..Len(d.records) : u.records[i].id = d.records[j].id
        BY <2>2, <3>2, RolledBack
      <4> QED
        BY <4>1, <4>2, <4>3, <4>4
    <3>4. PICK clean \in BOOLEAN : clean = (d.clean /\ Latest(d, id))
      OBVIOUS
    <3>5. clean => Place(d, id) \in {0, Len(d.records)}
      <4>1. Latest(d, id) <=> Place(d, id) \in {0, Len(d.records)}
        BY DEF Latest, Place, SelectInSeq
      <4> QED
        BY <3>4, <4>1, Zenon
    <3>6. clean => u.clean
      BY <3>3, <3>4, Zenon
    <3>7. PICK e \in FrameDoc : e = [u EXCEPT !.clean = clean]
      BY DEF FrameDoc
    <3>8. /\ e.script = u.script /\ e.shown = u.shown /\ e.own = u.own /\ e.alone = u.alone
          /\ e.records = u.records /\ e.clean = clean
      BY <3>7 DEF FrameDoc
    <3>9. DocFits(e)
      <4>1. ASSUME e.clean, e.alone PROVE Chained(e)
        <5>1. Chained(u)
          BY <3>3, <3>5, <3>6, <3>8, <4>1 DEF DocFits
        <5> QED
          BY <3>8, <5>1 DEF Chained
      <4> QED
        BY <3>3, <3>8, <4>1 DEF DocFits
    <3>10. doc' = [doc EXCEPT ![f] = [RollBack(d, id) EXCEPT !.clean = d.clean /\ Latest(d, id)]]
      <4>1. /\ work.kind # "apply" /\ doc[f].script /\ Head(mail[f]).work = work
            /\ Head(mail[f]).from = p
        BY <1>3, <1>4, <1>6, <2>1, <2>5
      <4>2. doc' = [doc EXCEPT ![f] = [RollBack(doc[f], work.id)
                                         EXCEPT !.clean = doc[f].clean
                                                          /\ Latest(doc[f], work.id)]]
        BY <2>5, <4>1 DEF PatchArrives
      <4> QED
        BY <2>1, <3>1, <4>2
    <3>11. doc' = [doc EXCEPT ![f] = e]
      BY <3>2, <3>4, <3>7, <3>10, Zenon
    <3>12. /\ \A i \in 1..Len(e.records) : \E j \in 1..Len(doc[f].records) : e.records[i].id = doc[f].records[j].id
           /\ doc[f].records = <<>> => e.records = <<>>
      BY <2>1, <3>3, <3>8
    <3> QED
      BY <3>7, <3>9, <3>11, <3>12
  <2>6. CASE d.script /\ work.kind \notin {"apply", "rollback"}
    <3>1. PICK e \in FrameDoc : e = Commit(d)
      BY <2>2, Committed
    <3>2. DocFits(e) /\ e.records = <<>>
      BY <2>2, <3>1, Committed
    <3>3. doc' = [doc EXCEPT ![f] = e]
      <4>1. /\ work.kind # "apply" /\ work.kind # "rollback" /\ doc[f].script
            /\ Head(mail[f]).work = work
        BY <1>3, <1>6, <2>1, <2>6
      <4>2. doc' = [doc EXCEPT ![f] = Commit(doc[f])]
        BY <4>1 DEF PatchArrives
      <4> QED
        BY <2>1, <3>1, <4>2
    <3>4. Len(e.records) = 0 /\ 1..0 = {}
      BY <3>2
    <3> QED
      BY <3>2, <3>3, <3>4
  <2> QED
    BY <2>3, <2>4, <2>5, <2>6
<1>12. doc' \in [Frame -> FrameDoc] /\ doc'[f] = e /\ \A g \in Frame \ {f} : doc'[g] = doc[g]
  BY <1>2, <1>11 DEF PatchTypeOK
<1>13. \A q \in Patcher : patching[q].stage = "over" => patching'[q].stage = "over"
  BY <1>7, <1>9
<1>14. DocsAgree'
  <2>1. \A g \in Frame \ {f} : DocAgrees(g)'
    BY <1>2, <1>12, <1>13, DocsStay
  <2>2. DocAgrees(f)'
    <3>1. ASSUME NEW i \in 1..Len(e.records) PROVE patching'[e.records[i].id].stage = "over"
      <4>1. CASE doc[f].script /\ e.records[i].id = p
        BY <1>9, <4>1
      <4>2. ASSUME NEW j \in 1..Len(doc[f].records), e.records[i].id = doc[f].records[j].id
            PROVE  patching'[e.records[i].id].stage = "over"
        <5>1. doc[f].records \in Seq(PatchRecord) /\ doc[f].records[j] \in PatchRecord
          BY <1>2 DEF PatchTypeOK, FrameDoc
        <5>2. doc[f].records[j].id \in Patcher
          BY <5>1 DEF PatchRecord
        <5>3. DocAgrees(f)
          BY <1>2 DEF DocsAgree
        <5> QED
          BY <1>13, <4>2, <5>2, <5>3 DEF DocAgrees
      <4> QED
        BY <1>11, <4>1, <4>2
    <3> QED
      BY <1>11, <1>12, <3>1 DEF DocAgrees
  <2> QED
    BY <2>1, <2>2 DEF DocsAgree
<1>15. UndoAgree'
  <2>1. ASSUME NEW g \in Frame, g # f PROVE UndoAgrees(g)'
    BY <1>1, <1>2, <1>8, <1>12, <2>1, UndoStays DEF UndoAgree
  <2>2. UndoAgrees(f)'
    <3>1. UndoAgrees(f)
      BY <1>2 DEF UndoAgree
    <3>2. ASSUME Undone(f) PROVE Undone(f)'
      <4>1. work.kind # "apply" /\ doc[f].records = <<>>
        BY <1>3, <1>6, <3>2 DEF Undone
      <4>2. doc'[f].records = <<>>
        BY <1>11, <1>12, <4>1
      <4>3. \A i \in DOMAIN mail'[f] : mail'[f][i].from \in Patcher /\ mail'[f][i].work.kind # "apply"
        BY <1>3, <1>8, <3>2 DEF Undone
      <4> QED
        BY <4>2, <4>3 DEF Undone
    <3>3. ASSUME Asks(f) PROVE Asks(f)'
      <4>1. Len(mail[f]) # 1
        BY <1>3, <1>4, <3>3, PatchFrames DEF Asks
      <4>2. mail'[f] # <<>> /\ Len(mail'[f]) = Len(mail[f]) - 1
        <5>1. Len(mail'[f]) = Len(mail[f]) - 1 /\ Len(mail'[f]) # 0
          BY <1>3, <1>8, <4>1
        <5>2. Len(<<>>) = 0
          OBVIOUS
        <5> QED
          BY <5>1, <5>2
      <4>3. ASSUME NEW i \in DOMAIN mail'[f]
            PROVE  IF i = Len(mail'[f]) THEN mail'[f][i].from = "cleanup" /\ mail'[f][i].id = "list"
                   ELSE mail'[f][i].from \in Patcher
        <5>1. i \in 1..(Len(mail[f]) - 1) /\ i + 1 \in DOMAIN mail[f] /\ mail'[f][i] = mail[f][i + 1]
          BY <1>3, <1>8
        <5>2. i + 1 = Len(mail[f]) <=> i = Len(mail'[f])
          BY <1>3, <4>2, <5>1
        <5> QED
          BY <3>3, <5>1, <5>2 DEF Asks
      <4> QED
        BY <4>2, <4>3 DEF Asks
    <3>4. ~Lists(f)
      BY <1>3, <1>4, PatchFrames DEF Lists
    <3>5. ASSUME \A i \in DOMAIN mail[f] : mail[f][i].from \in Patcher
          PROVE  \A i \in DOMAIN mail'[f] : mail'[f][i].from \in Patcher
      BY <1>3, <1>8, <3>5
    <3> QED
      BY <1>1, <3>1, <3>2, <3>3, <3>4, <3>5 DEF UndoAgrees
  <2> QED
    BY <1>1, <1>2, <2>1, <2>2 DEF UndoAgree
<1>16. PatchTypeOK'
  BY <1>1, <1>2, <1>8, <1>9, <1>12 DEF PatchTypeOK
<1> QED
  BY <1>10, <1>14, <1>15, <1>16 DEF PatchGood

-----------------------------------------------------------------------------
\* The cleanup.
LEMMA PatchAccessEndsKeeps ==
  ASSUME UndoShape, PatchGood, PatchAccessEnds
  PROVE  PatchGood'
<1>1. /\ UNCHANGED <<doc, patching, mail, patched>> /\ patchAccess /\ patchAccess' = FALSE
      /\ undo' = [undo EXCEPT !.stage = "begun"]
  BY DEF PatchAccessEnds
<1>2. undo'.stage = "begun" /\ undo'.todo = undo.todo
  BY <1>1 DEF UndoShape
<1>3. PatchTypeOK /\ DocsAgree /\ MailAgrees /\ UndoAgree /\ undo.stage = "off"
  BY <1>1 DEF PatchGood, UndoAgree
<1>4. PatchTypeOK'
  BY <1>1, <1>2, <1>3 DEF PatchTypeOK
<1>5. DocsAgree'
  <2>1. \A f \in Frame : DocAgrees(f)'
    BY <1>1, <1>3, DocsStay
  <2> QED
    BY <2>1 DEF DocsAgree
<1>6. MailAgrees'
  BY <1>1, <1>2, <1>3, MailStays
<1>7. UndoAgree'
  <2>1. \A f \in Frame : UndoAgrees(f)'
    BY <1>1, <1>2, <1>3 DEF UndoAgree, UndoAgrees
  <2> QED
    BY <1>1, <1>2, <2>1 DEF UndoAgree
<1> QED
  BY <1>4, <1>5, <1>6, <1>7 DEF PatchGood

\* The cleanup's message to a frame is the last on its way, and it is the one that goes.
LEMMA MessageGone ==
  ASSUME PatchGood, NEW f \in Frame, ~patchAccess, undo.stage # "done",
         NEW q, q = RemoveFirstMatch(mail[f], LAMBDA m : m.from = "cleanup")
  PROVE  /\ q \in Seq(PatchMail)
         /\ \A i \in DOMAIN q : q[i].from \in Patcher /\ i \in DOMAIN mail[f] /\ q[i] = mail[f][i]
<1>1. mail[f] \in Seq(PatchMail) /\ Len(mail[f]) \in Nat /\ DOMAIN mail[f] = 1..Len(mail[f])
  BY DEF PatchGood, PatchTypeOK
<1>2. \A k \in DOMAIN mail[f] : mail[f][k].from \in Patcher => mail[f][k].from # "cleanup"
  BY PatchFrames
<1> DEFINE I == {i \in 1..Len(mail[f]) : mail[f][i].from = "cleanup"}
<1>3. q = IF \E i \in 1..Len(mail[f]) : mail[f][i].from = "cleanup"
          THEN RemoveAt(mail[f], IF I # {} THEN Min(I) ELSE 0) ELSE mail[f]
  BY DEF RemoveFirstMatch, SelectInSeq
<1>4. \/ \A i \in DOMAIN mail[f] : mail[f][i].from \in Patcher
      \/ /\ Len(mail[f]) # 0 /\ mail[f][Len(mail[f])].from = "cleanup"
         /\ \A i \in DOMAIN mail[f] : i # Len(mail[f]) => mail[f][i].from \in Patcher
  <2>1. UndoAgrees(f) /\ undo.stage \in {"begun", "undoing"}
    BY DEF PatchGood, UndoAgree
  <2>2. Undone(f) => \A i \in DOMAIN mail[f] : mail[f][i].from \in Patcher
    BY DEF Undone
  <2>3. ASSUME Asks(f) \/ Lists(f)
        PROVE  /\ Len(mail[f]) # 0 /\ mail[f][Len(mail[f])].from = "cleanup"
               /\ \A i \in DOMAIN mail[f] : i # Len(mail[f]) => mail[f][i].from \in Patcher
    <3>1. Len(mail[f]) # 0
      BY <1>1, <2>3, EmptySeq DEF Asks, Lists
    <3>2. Len(mail[f]) \in DOMAIN mail[f]
      BY <1>1, <3>1
    <3>3. CASE Asks(f)
      BY <3>1, <3>2, <3>3 DEF Asks
    <3>4. CASE Lists(f)
      BY <1>1, <3>1, <3>4 DEF Lists
    <3> QED
      BY <2>3, <3>3, <3>4
  <2> QED
    BY <2>1, <2>2, <2>3 DEF UndoAgrees
<1>5. CASE \A i \in DOMAIN mail[f] : mail[f][i].from \in Patcher
  <2>1. q = mail[f]
    BY <1>1, <1>2, <1>3, <1>5
  <2> QED
    BY <1>1, <1>5, <2>1
<1>6. CASE /\ Len(mail[f]) # 0 /\ mail[f][Len(mail[f])].from = "cleanup"
           /\ \A i \in DOMAIN mail[f] : i # Len(mail[f]) => mail[f][i].from \in Patcher
  <2>1. PICK n \in Nat \ {0} : n = Len(mail[f])
    BY <1>1, <1>6
  <2>2. I = {n}
    BY <1>1, <1>2, <1>6, <2>1
  <2>3. Min({n}) = n
    BY <2>1 DEF Min
  <2>4. q = RemoveAt(mail[f], n)
    <3>1. \E i \in 1..Len(mail[f]) : mail[f][i].from = "cleanup"
      BY <1>6, <2>1
    <3> HIDE DEF I
    <3> QED
      BY <1>3, <2>2, <2>3, <3>1
  <2>5. /\ q \in Seq(PatchMail) /\ Len(q) = n - 1
        /\ \A i \in 1..(n - 1) : q[i] = IF i < n THEN mail[f][i] ELSE mail[f][i + 1]
    BY <1>1, <2>1, <2>4, RemovedAt
  <2>6. DOMAIN q = 1..(n - 1)
    BY <2>5
  <2>7. ASSUME NEW i \in 1..(n - 1)
        PROVE  i \in DOMAIN mail[f] /\ i # Len(mail[f]) /\ q[i] = mail[f][i]
    BY <1>1, <2>1, <2>5
  <2> QED
    BY <1>6, <2>5, <2>6, <2>7
<1> QED
  BY <1>4, <1>5, <1>6

LEMMA PatchAccessReturnsKeeps ==
  ASSUME UndoShape, PatchGood, PatchAccessReturns
  PROVE  PatchGood'
<1>1. /\ UNCHANGED <<doc, patching, patched>> /\ ~patchAccess /\ undo.stage # "done" /\ patchAccess' = TRUE
      /\ undo' = [undo EXCEPT !.stage = "off", !.todo = [f \in Frame |-> <<>>]]
      /\ mail' = [f \in Frame |-> RemoveFirstMatch(mail[f], LAMBDA m : m.from = "cleanup")]
  BY DEF PatchAccessReturns
<1>2. undo'.stage = "off" /\ undo'.todo = [f \in Frame |-> <<>>]
  BY <1>1 DEF UndoShape
<1>3. PatchTypeOK /\ DocsAgree /\ MailAgrees /\ UndoAgree
  BY DEF PatchGood
<1>4. ASSUME NEW f \in Frame
      PROVE  /\ mail'[f] \in Seq(PatchMail)
             /\ \A i \in DOMAIN mail'[f] :
                  mail'[f][i].from \in Patcher /\ i \in DOMAIN mail[f] /\ mail'[f][i] = mail[f][i]
  <2>1. mail'[f] = RemoveFirstMatch(mail[f], LAMBDA m : m.from = "cleanup")
    BY <1>1, Zenon
  <2>2. PICK q : q = mail'[f]
    OBVIOUS
  <2>3. q = RemoveFirstMatch(mail[f], LAMBDA m : m.from = "cleanup")
    BY <2>1, <2>2, Zenon
  <2>4. /\ q \in Seq(PatchMail)
        /\ \A i \in DOMAIN q : q[i].from \in Patcher /\ i \in DOMAIN mail[f] /\ q[i] = mail[f][i]
    BY <1>1, <2>3, MessageGone
  <2> QED
    BY <2>2, <2>4
<1>5. mail' \in [Frame -> Seq(PatchMail)]
  <2>1. DOMAIN mail' = Frame /\ mail' = [f \in Frame |-> mail'[f]]
    BY <1>1, Zenon
  <2> QED
    BY <1>4, <2>1
<1>6. PatchTypeOK'
  <2>1. [f \in Frame |-> <<>>] \in [Frame -> Seq(Patcher \union {"list"})]
    OBVIOUS
  <2>2. patchAccess' \in BOOLEAN /\ undo'.todo \in [Frame -> Seq(Patcher \union {"list"})]
    BY <1>1, <1>2, <2>1
  <2> QED
    BY <1>1, <1>3, <1>5, <2>2 DEF PatchTypeOK
<1>7. DocsAgree'
  <2>1. \A f \in Frame : DocAgrees(f)'
    BY <1>1, <1>3, DocsStay
  <2> QED
    BY <2>1 DEF DocsAgree
<1>8. MailAgrees'
  <2>1. PICK s \in [Frame -> {0, 1}] : s = [g \in Frame |-> 0]
    OBVIOUS
  <2>2. ASSUME NEW f \in Frame, NEW i \in DOMAIN mail'[f], mail'[f][i].from \in Patcher
        PROVE  /\ i + s[f] \in DOMAIN mail[f] /\ mail'[f][i] = mail[f][i + s[f]]
               /\ patching'[mail'[f][i].from].stage = "sent"
    <3>1. i \in DOMAIN mail[f] /\ mail'[f][i] = mail[f][i]
      BY <1>4
    <3>2. i + s[f] = i
      <4>1. i \in 1..Len(mail[f])
        BY <1>3, <3>1 DEF PatchTypeOK
      <4> QED
        BY <2>1, <4>1
    <3>3. MessageAgrees(f, i)
      BY <1>3, <3>1 DEF MailAgrees
    <3> QED
      BY <1>1, <2>2, <3>1, <3>2, <3>3 DEF MessageAgrees
  <2> QED
    BY <1>1, <1>2, <1>3, <1>5, <2>2, MailMoves
<1>9. UndoAgree'
  <2>1. \A f \in Frame : UndoAgrees(f)'
    BY <1>2, <1>4 DEF UndoAgrees
  <2> QED
    BY <1>1, <1>2, <2>1 DEF UndoAgree
<1> QED
  BY <1>6, <1>7, <1>8, <1>9 DEF PatchGood

LEMMA UndoEndsKeeps ==
  ASSUME UndoShape, PatchGood, UndoEnds
  PROVE  PatchGood'
<1>1. /\ UNCHANGED <<doc, patching, mail, patchAccess>> /\ undo.stage = "undoing"
      /\ \A f \in Frame : undo.todo[f] = <<>>
      /\ undo' = [undo EXCEPT !.stage = "done"] /\ patched' = {}
  BY DEF UndoEnds
<1>2. undo'.stage = "done" /\ undo'.todo = undo.todo
  BY <1>1 DEF UndoShape
<1>3. PatchTypeOK /\ DocsAgree /\ MailAgrees /\ UndoAgree
  BY DEF PatchGood
<1>4. PatchTypeOK'
  BY <1>1, <1>2, <1>3 DEF PatchTypeOK
<1>5. DocsAgree'
  <2>1. \A f \in Frame : DocAgrees(f)'
    BY <1>1, <1>3, DocsStay
  <2> QED
    BY <2>1 DEF DocsAgree
<1>6. MailAgrees'
  BY <1>1, <1>2, <1>3, MailStays
<1>7. UndoAgree'
  <2>1. ASSUME NEW f \in Frame PROVE UndoAgrees(f)'
    <3>1. undo.todo[f] = <<>> /\ <<>> # <<"list">>
      BY <1>1
    <3>2. Undone(f)
      BY <1>1, <1>3, <3>1 DEF UndoAgree, UndoAgrees
    <3> QED
      BY <1>1, <1>2, <3>1, <3>2 DEF UndoAgrees, Undone
  <2> QED
    BY <1>1, <1>2, <1>3, <2>1 DEF UndoAgree
<1> QED
  BY <1>4, <1>5, <1>6, <1>7 DEF PatchGood

LEMMA UndoBeginsKeeps ==
  ASSUME UndoShape, PatchGood, UndoBegins
  PROVE  PatchGood'
<1>1. /\ UNCHANGED <<patching, patched, patchAccess>> /\ undo.stage = "begun"
      /\ doc' = [doc EXCEPT ![TopFrame].script = TRUE]
      /\ undo' = [undo EXCEPT !.stage = "undoing",
                              !.todo = [f \in Frame |-> IF f \in UndoFrames THEN <<"list">> ELSE <<>>]]
      /\ mail' = [f \in Frame |-> IF f \in UndoFrames
                                  THEN Append(mail[f], [from |-> "cleanup", id |-> "list"]) ELSE mail[f]]
  BY DEF UndoBegins
<1>2. /\ undo'.stage = "undoing"
      /\ undo'.todo = [f \in Frame |-> IF f \in UndoFrames THEN <<"list">> ELSE <<>>]
  BY <1>1 DEF UndoShape
<1>3. PatchTypeOK /\ DocsAgree /\ MailAgrees /\ UndoAgree
  BY DEF PatchGood
<1>4. PICK message \in PatchMail : message = [from |-> "cleanup", id |-> "list"]
  BY DEF PatchMail
<1>5. message.from = "cleanup" /\ message.id = "list" /\ message.from \notin Patcher
  BY <1>4, PatchFrames
<1>6. ASSUME NEW f \in Frame
      PROVE  /\ mail[f] \in Seq(PatchMail) /\ Len(mail[f]) \in Nat /\ DOMAIN mail[f] = 1..Len(mail[f])
             /\ \A i \in DOMAIN mail[f] : mail[f][i].from \in Patcher
  BY <1>1, <1>3 DEF PatchTypeOK, UndoAgree, UndoAgrees
<1>7. ASSUME NEW f \in Frame, f \in UndoFrames
      PROVE  /\ mail'[f] \in Seq(PatchMail) /\ Len(mail'[f]) = Len(mail[f]) + 1
             /\ mail'[f][Len(mail[f]) + 1] = message
             /\ \A i \in 1..Len(mail[f]) : mail'[f][i] = mail[f][i]
             /\ DOMAIN mail'[f] = 1..(Len(mail[f]) + 1)
  <2>1. mail'[f] = Append(mail[f], message)
    BY <1>1, <1>4, <1>7
  <2>2. /\ Append(mail[f], message) \in Seq(PatchMail) /\ Len(Append(mail[f], message)) = Len(mail[f]) + 1
        /\ Append(mail[f], message)[Len(mail[f]) + 1] = message
        /\ \A i \in 1..Len(mail[f]) : Append(mail[f], message)[i] = mail[f][i]
    BY <1>6, AppendProperties
  <2> QED
    BY <2>1, <2>2
<1>8. ASSUME NEW f \in Frame, f \notin UndoFrames
      PROVE  mail'[f] = mail[f]
  BY <1>1, <1>8
<1>9. mail' \in [Frame -> Seq(PatchMail)]
  <2>1. DOMAIN mail' = Frame /\ mail' = [f \in Frame |-> mail'[f]]
    BY <1>1, Zenon
  <2>2. \A f \in Frame : mail'[f] \in Seq(PatchMail)
    BY <1>6, <1>7, <1>8
  <2> QED
    BY <2>1, <2>2
<1>10. MailAgrees'
  <2>1. PICK s \in [Frame -> {0, 1}] : s = [g \in Frame |-> 0]
    OBVIOUS
  <2>2. ASSUME NEW f \in Frame, NEW i \in DOMAIN mail'[f], mail'[f][i].from \in Patcher
        PROVE  /\ i + s[f] \in DOMAIN mail[f] /\ mail'[f][i] = mail[f][i + s[f]]
               /\ patching'[mail'[f][i].from].stage = "sent"
    <3>1. i \in 1..Len(mail[f]) /\ mail'[f][i] = mail[f][i]
      <4>1. CASE f \in UndoFrames
        <5>1. i \in 1..(Len(mail[f]) + 1) /\ i # Len(mail[f]) + 1
          BY <1>5, <1>7, <2>2, <4>1
        <5>2. i \in 1..Len(mail[f])
          BY <1>6, <5>1
        <5> QED
          BY <1>7, <4>1, <5>2
      <4>2. CASE f \notin UndoFrames
        BY <1>6, <1>8, <4>2
      <4> QED
        BY <4>1, <4>2
    <3>2. i + s[f] = i
      BY <1>6, <2>1, <3>1
    <3>3. i \in DOMAIN mail[f]
      BY <1>6, <3>1
    <3>4. MessageAgrees(f, i)
      BY <1>3, <3>3 DEF MailAgrees
    <3> QED
      BY <1>1, <2>2, <3>1, <3>2, <3>3, <3>4 DEF MessageAgrees
  <2> QED
    BY <1>1, <1>2, <1>3, <1>9, <2>2, MailMoves
<1>11. \A f \in Frame : /\ doc'[f] \in FrameDoc /\ DocFits(doc'[f]) /\ doc'[f].records = doc[f].records
                        /\ doc' \in [Frame -> FrameDoc]
  <2>1. \A f \in Frame : doc[f] \in FrameDoc /\ DocFits(doc[f])
    BY <1>3 DEF PatchTypeOK, DocsAgree, DocAgrees
  <2>2. /\ [doc[TopFrame] EXCEPT !.script = TRUE] \in FrameDoc
        /\ DocFits([doc[TopFrame] EXCEPT !.script = TRUE])
        /\ [doc[TopFrame] EXCEPT !.script = TRUE].records = doc[TopFrame].records
    BY <2>1, Scripted, PatchFrames
  <2>3. PICK e \in FrameDoc : e = [doc[TopFrame] EXCEPT !.script = TRUE]
    BY <2>2
  <2>4. doc' = [doc EXCEPT ![TopFrame] = e]
    BY <1>1, <2>3
  <2> QED
    BY <1>3, <2>1, <2>2, <2>3, <2>4 DEF PatchTypeOK
<1>12. PatchTypeOK'
  <2>1. \A f \in Frame : undo'.todo[f] \in Seq(Patcher \union {"list"})
    <3>1. <<"list">> \in Seq(Patcher \union {"list"}) /\ <<>> \in Seq(Patcher \union {"list"})
      OBVIOUS
    <3> QED
      BY <1>2, <3>1
  <2>2. undo'.todo \in [Frame -> Seq(Patcher \union {"list"})]
    BY <1>2, <2>1
  <2>3. doc' \in [Frame -> FrameDoc]
    BY <1>11, PatchFrames
  <2> QED
    BY <1>1, <1>3, <1>9, <2>2, <2>3 DEF PatchTypeOK
<1>13. DocsAgree'
  <2>1. \A f \in Frame : DocAgrees(f)'
    BY <1>1, <1>3, <1>11 DEF DocsAgree, DocAgrees
  <2> QED
    BY <2>1 DEF DocsAgree
<1>14. UndoAgree'
  <2>1. ASSUME NEW f \in Frame PROVE UndoAgrees(f)'
    <3>1. CASE f \in UndoFrames
      <4>1. undo'.todo[f] = <<"list">>
        BY <1>2, <3>1
      <4>2. mail'[f] # <<>>
        <5>1. Len(mail'[f]) # 0 /\ Len(<<>>) = 0
          BY <1>6, <1>7, <3>1
        <5> QED
          BY <5>1
      <4>3. ASSUME NEW i \in DOMAIN mail'[f]
            PROVE  IF i = Len(mail'[f]) THEN mail'[f][i].from = "cleanup" /\ mail'[f][i].id = "list"
                   ELSE mail'[f][i].from \in Patcher
        <5>1. i \in 1..(Len(mail[f]) + 1) /\ Len(mail'[f]) = Len(mail[f]) + 1
          BY <1>7, <3>1
        <5>2. CASE i = Len(mail[f]) + 1
          BY <1>5, <1>7, <3>1, <5>1, <5>2
        <5>3. CASE i # Len(mail[f]) + 1
          <6>1. i \in 1..Len(mail[f])
            BY <1>6, <5>1, <5>3
          <6> QED
            BY <1>6, <1>7, <3>1, <5>1, <5>3, <6>1
        <5> QED
          BY <5>2, <5>3
      <4>4. Asks(f)'
        BY <4>2, <4>3 DEF Asks
      <4> QED
        BY <1>2, <4>1, <4>4 DEF UndoAgrees
    <3>2. CASE f \notin UndoFrames
      <4>1. undo'.todo[f] = <<>> /\ mail'[f] = mail[f] /\ doc'[f].records = doc[f].records
        BY <1>2, <1>8, <1>11, <3>2
      <4>2. f \notin patched /\ ~(doc[f].script /\ doc[f].records # <<>>)
        BY <3>2 DEF UndoFrames
      <4>3. doc[f].records = <<>>
        BY <1>3, <4>2 DEF DocsAgree, DocAgrees, DocFits
      <4>4. \A i \in DOMAIN mail[f] : mail[f][i].from \in Patcher /\ mail[f][i].work.kind # "apply"
        BY <1>1, <1>3, <1>6, <4>2 DEF MailAgrees, MessageAgrees
      <4>5. Undone(f)'
        BY <4>1, <4>3, <4>4 DEF Undone
      <4> QED
        BY <1>2, <4>1, <4>5 DEF UndoAgrees
    <3> QED
      BY <3>1, <3>2
  <2>2. ~patchAccess
    BY <1>1, <1>3 DEF UndoAgree
  <2> QED
    BY <1>1, <1>2, <2>1, <2>2 DEF UndoAgree
<1> QED
  BY <1>10, <1>12, <1>13, <1>14 DEF PatchGood

-----------------------------------------------------------------------------
\* The page.
LEMMA PageWritesKeeps ==
  ASSUME PatchGood, NEW f \in Frame, NEW value \in PatchValue, PageWrites(f, value)
  PROVE  PatchGood'
<1>1. /\ UNCHANGED <<patching, mail, patched, undo, patchAccess>>
      /\ doc' = [doc EXCEPT ![f].shown = value, ![f].own = value,
                            ![f].alone = doc[f].alone /\ doc[f].records = <<>>]
  BY DEF PageWrites
<1>2. PatchTypeOK /\ DocsAgree /\ MailAgrees /\ UndoAgree
  BY DEF PatchGood
<1>3. PICK d \in FrameDoc : d = doc[f] /\ DocFits(d)
  BY <1>2 DEF PatchTypeOK, DocsAgree, DocAgrees
<1>4. PICK alone \in BOOLEAN : alone = (d.alone /\ d.records = <<>>)
  OBVIOUS
<1>5. alone => d.alone /\ d.records = <<>>
  BY <1>4, Zenon
<1>6. PICK e \in FrameDoc : e = [d EXCEPT !.shown = value, !.own = value, !.alone = alone]
  BY DEF FrameDoc, Shown
<1>7. /\ e.script = d.script /\ e.records = d.records /\ e.clean = d.clean
      /\ e.shown = value /\ e.own = value /\ e.alone = alone
  BY <1>6 DEF FrameDoc
<1>8. doc' = [doc EXCEPT ![f] = e]
  <2>1. doc' = [doc EXCEPT ![f].shown = value, ![f].own = value, ![f].alone = alone]
    BY <1>1, <1>3, <1>4, Zenon
  <2> QED
    BY <1>2, <1>3, <1>6, <2>1 DEF PatchTypeOK, FrameDoc
<1>9. doc' \in [Frame -> FrameDoc] /\ doc'[f] = e /\ \A g \in Frame \ {f} : doc'[g] = doc[g]
  BY <1>2, <1>8 DEF PatchTypeOK
<1>10. DocFits(e)
  <2>1. ASSUME alone PROVE Chained(e)
    <3>1. Len(e.records) = 0 /\ 1..0 = {}
      BY <1>5, <1>7, <2>1
    <3> QED
      BY <1>7, <3>1 DEF Chained
  <2> QED
    BY <1>3, <1>7, <2>1 DEF DocFits
<1>11. DocsAgree'
  <2>1. \A g \in Frame \ {f} : DocAgrees(g)'
    BY <1>1, <1>2, <1>9, DocsStay
  <2>2. DocAgrees(f)'
    BY <1>1, <1>2, <1>3, <1>7, <1>9, <1>10 DEF DocsAgree, DocAgrees
  <2> QED
    BY <2>1, <2>2 DEF DocsAgree
<1>12. PatchTypeOK'
  BY <1>1, <1>2, <1>9 DEF PatchTypeOK
<1>13. MailAgrees'
  BY <1>1, <1>2, MailStays
<1>14. UndoAgree'
  <2>1. \A g \in Frame : doc'[g].records = doc[g].records /\ doc'[g].script = doc[g].script
    BY <1>3, <1>7, <1>9
  <2>2. \A g \in Frame : UndoAgrees(g)'
    BY <1>1, <1>2, <2>1, UndoStays DEF UndoAgree
  <2> QED
    BY <1>1, <1>2, <2>2 DEF UndoAgree
<1> QED
  BY <1>11, <1>12, <1>13, <1>14 DEF PatchGood

LEMMA PageLoadsKeeps ==
  ASSUME PatchGood, NEW f \in Frame, PageLoads(f)
  PROVE  PatchGood'
<1>1. /\ UNCHANGED <<patching, mail, patched, undo, patchAccess>>
      /\ doc' = [doc EXCEPT ![f] = Loaded(FALSE)]
  BY DEF PageLoads
<1>2. PatchTypeOK /\ DocsAgree /\ MailAgrees /\ UndoAgree
  BY DEF PatchGood
<1>3. PICK e \in FrameDoc : e = Loaded(FALSE)
  <2>1. <<>> \in Seq(PatchRecord) /\ 0 \in Shown
    BY DEF Shown
  <2>2. Loaded(FALSE) \in FrameDoc
    BY <2>1 DEF Loaded, FrameDoc
  <2> QED
    BY <2>2
<1>4. e.records = <<>> /\ ~e.script /\ e.shown = e.own /\ Len(e.records) = 0 /\ 1..0 = {}
  <2>1. e.records = <<>> /\ e.script = FALSE /\ e.shown = 0 /\ e.own = 0
    BY <1>3 DEF Loaded
  <2> QED
    BY <2>1
<1>5. doc' \in [Frame -> FrameDoc] /\ doc'[f] = e /\ \A g \in Frame \ {f} : doc'[g] = doc[g]
  BY <1>1, <1>2, <1>3 DEF PatchTypeOK
<1>6. DocFits(e)
  BY <1>4 DEF DocFits, Chained
<1>7. DocsAgree'
  <2>1. \A g \in Frame \ {f} : DocAgrees(g)'
    BY <1>1, <1>2, <1>5, DocsStay
  <2>2. DocAgrees(f)'
    BY <1>4, <1>5, <1>6 DEF DocAgrees
  <2> QED
    BY <2>1, <2>2 DEF DocsAgree
<1>8. PatchTypeOK'
  BY <1>1, <1>2, <1>5 DEF PatchTypeOK
<1>9. MailAgrees'
  BY <1>1, <1>2, MailStays
<1>10. UndoAgree'
  <2>1. ASSUME NEW g \in Frame, g # f PROVE UndoAgrees(g)'
    BY <1>1, <1>2, <1>5, <2>1, UndoStays DEF UndoAgree
  <2>2. UndoAgrees(f)'
    <3>1. UndoAgrees(f) /\ doc'[f].records = <<>> /\ ~doc'[f].script
      BY <1>2, <1>4, <1>5 DEF UndoAgree
    <3>2. /\ Undone(f) => Undone(f)'
          /\ Asks(f) => Asks(f)'
          /\ Lists(f) => Lists(f)'
      BY <1>1, <3>1 DEF Undone, Asks, Lists
    <3> QED
      BY <1>1, <3>1, <3>2 DEF UndoAgrees
  <2> QED
    BY <1>1, <1>2, <2>1, <2>2 DEF UndoAgree
<1> QED
  BY <1>7, <1>8, <1>9, <1>10 DEF PatchGood

-----------------------------------------------------------------------------
\* The latest record goes, and those before it stay in their order.
LEMMA LatestUndone ==
  ASSUME NEW d \in FrameDoc, DocFits(d), NEW todo \in Seq(Patcher), todo # <<>>,
         Len(todo) = Len(d.records),
         \A k \in 1..Len(d.records) : todo[k] = d.records[(Len(d.records) - k) + 1].id,
         NEW e, e = RollBack(d, todo[1])
  PROVE  /\ e \in FrameDoc /\ DocFits(e) /\ e.script = d.script
         /\ \A i \in 1..Len(e.records) : \E j \in 1..Len(d.records) : e.records[i].id = d.records[j].id
         /\ Tail(todo) \in Seq(Patcher) /\ Len(Tail(todo)) = Len(e.records)
         /\ \A k \in 1..Len(e.records) : Tail(todo)[k] = e.records[(Len(e.records) - k) + 1].id
<1>1. PICK n \in Nat \ {0} : n = Len(todo) /\ n = Len(d.records)
  BY EmptySeq
<1>2. PICK id \in Patcher : id = todo[1] /\ id = d.records[n].id
  <2>1. 1 \in 1..n /\ (n - 1) + 1 = n
    BY <1>1
  <2>2. todo[1] = d.records[n].id /\ todo[1] \in Patcher
    BY <1>1, <2>1
  <2> QED
    BY <2>2
<1>3. Place(d, id) = n
  <2>1. n \in 1..Len(d.records)
    BY <1>1
  <2>2. Place(d, id) \in 1..Len(d.records) /\ d.records[Place(d, id)].id = id
    BY <1>2, <2>1, PlaceIs
  <2>3. PICK k \in 1..Len(d.records) : k = Place(d, id)
    BY <2>2
  <2>4. d.records[k].id = d.records[n].id
    BY <1>2, <2>2, <2>3
  <2> QED
    BY <2>1, <2>3, <2>4 DEF DocFits
<1>4. e = RollBack(d, id)
  BY <1>2
<1>5. e \in FrameDoc /\ e.script = d.script
  BY <1>4, RolledBack
<1>6. DocFits(e)
  <2>1. Place(d, id) \in {0, Len(d.records)} => DocFits(e)
    BY <1>4, RolledBack
  <2> QED
    BY <1>1, <1>3, <2>1
<1>7. \A i \in 1..Len(e.records) : \E j \in 1..Len(d.records) : e.records[i].id = d.records[j].id
  BY <1>4, RolledBack
<1>8. Len(e.records) = n - 1 /\ \A i \in 1..(n - 1) : e.records[i] = d.records[i]
  <2>1. \A m \in Nat \ {0} : Len(d.records) = m /\ d.records[m].id = id =>
          Len(e.records) = m - 1 /\ \A i \in 1..(m - 1) : e.records[i] = d.records[i]
    BY <1>4, RolledBack
  <2> QED
    BY <1>1, <1>2, <2>1
<1>9. /\ Tail(todo) \in Seq(Patcher) /\ Len(Tail(todo)) = n - 1
      /\ \A k \in 1..(n - 1) : Tail(todo)[k] = todo[k + 1]
  BY <1>1, HeadTailProperties
<1>10. ASSUME NEW k \in 1..(n - 1) PROVE Tail(todo)[k] = e.records[((n - 1) - k) + 1].id
  <2>1. k + 1 \in 1..n /\ (n - (k + 1)) + 1 = n - k /\ ((n - 1) - k) + 1 = n - k /\ n - k \in 1..(n - 1)
    BY <1>1
  <2>2. todo[k + 1] = d.records[n - k].id
    BY <1>1, <2>1
  <2> QED
    BY <1>8, <1>9, <2>1, <2>2
<1> QED
  BY <1>5, <1>6, <1>7, <1>8, <1>9, <1>10

\* The listing of a frame's patches, the latest first.
LEMMA ListedLast ==
  ASSUME NEW d \in FrameDoc, NEW todo,
         todo = UndoOrder([n \in DOMAIN d.records |-> d.records[n].id])
  PROVE  /\ todo \in Seq(Patcher) /\ Len(todo) = Len(d.records)
         /\ \A k \in 1..Len(d.records) : todo[k] = d.records[(Len(d.records) - k) + 1].id
<1>1. d.records \in Seq(PatchRecord)
  BY DEF FrameDoc
<1>2. PICK n \in Nat : n = Len(d.records) /\ DOMAIN d.records = 1..n
  BY <1>1
<1>3. \A i \in 1..n : d.records[i].id \in Patcher
  <2> SUFFICES ASSUME NEW i \in 1..n PROVE d.records[i].id \in Patcher
    OBVIOUS
  <2>1. d.records[i] \in PatchRecord
    BY <1>1, <1>2
  <2> QED
    BY <2>1 DEF PatchRecord
<1>4. PICK ids \in [1..n -> Patcher] : ids = [i \in DOMAIN d.records |-> d.records[i].id]
  BY <1>2, <1>3
<1>5. ids \in Seq(Patcher) /\ Len(ids) = n
  BY <1>2, <1>4
<1>6. todo = [k \in 1..n |-> ids[(n - k) + 1]]
  BY <1>4, <1>5 DEF UndoOrder, Reverse
<1>7. \A k \in 1..n : (n - k) + 1 \in 1..n
  BY <1>2
<1>8. todo \in [1..n -> Patcher]
  BY <1>4, <1>6, <1>7
<1>9. todo \in Seq(Patcher) /\ Len(todo) = n
  BY <1>8
<1>10. \A k \in 1..n : todo[k] = d.records[(n - k) + 1].id
  BY <1>2, <1>4, <1>6, <1>7
<1> QED
  BY <1>2, <1>9, <1>10

LEMMA UndoGoesOnKeeps ==
  ASSUME UndoShape, PatchGood, NEW f \in Frame, UndoGoesOn(f)
  PROVE  PatchGood'
<1>1. /\ UNCHANGED <<patching, patched, patchAccess>> /\ undo.stage = "undoing"
      /\ mail[f] # <<>> /\ Head(mail[f]).from = "cleanup"
  BY DEF UndoGoesOn
<1>2. PatchTypeOK /\ DocsAgree /\ MailAgrees /\ UndoAgree
  BY DEF PatchGood
<1>3. /\ mail[f] \in Seq(PatchMail) /\ Len(mail[f]) \in Nat \ {0} /\ DOMAIN mail[f] = 1..Len(mail[f])
      /\ Head(mail[f]) = mail[f][1] /\ mail[f][1] \in PatchMail /\ 1 \in DOMAIN mail[f]
      /\ Tail(mail[f]) \in Seq(PatchMail) /\ Len(Tail(mail[f])) = Len(mail[f]) - 1
  BY <1>1, <1>2, MailTaken
<1>4. PICK d \in FrameDoc : d = doc[f] /\ DocFits(d) /\ DocAgrees(f)
  BY <1>2 DEF PatchTypeOK, DocsAgree, DocAgrees
<1>5. PICK todo : todo = undo.todo[f]
  OBVIOUS
<1>6. PICK id : id = Head(mail[f]).id
  OBVIOUS
<1>7. /\ mail[f][1].from = "cleanup" /\ mail[f][1].from \notin Patcher /\ Len(mail[f]) = 1
      /\ \/ id = "list"
         \/ /\ id # "list" /\ id = todo[1] /\ todo # <<>> /\ todo \in Seq(Patcher)
            /\ d.script =>
                 /\ Len(todo) = Len(d.records)
                 /\ \A k \in 1..Len(d.records) : todo[k] = d.records[(Len(d.records) - k) + 1].id
  <2>1. mail[f][1].from = "cleanup" /\ mail[f][1].from \notin Patcher /\ id = mail[f][1].id
    BY <1>1, <1>3, <1>6, PatchFrames
  <2>2. UndoAgrees(f)
    BY <1>2 DEF UndoAgree
  <2>3. ~Undone(f)
    BY <1>3, <2>1 DEF Undone
  <2>4. CASE Asks(f)
    <3>1. 1 = Len(mail[f]) /\ mail[f][1].id = "list"
      BY <1>3, <2>1, <2>4 DEF Asks
    <3> QED
      BY <2>1, <3>1
  <2>5. CASE todo # <<>> /\ todo[1] # "list" /\ Lists(f)
    <3>1. /\ Len(mail[f]) = 1 /\ mail[f][1].id = todo[1] /\ todo \in Seq(Patcher)
          /\ d.script =>
               /\ Len(todo) = Len(d.records)
               /\ \A k \in 1..Len(d.records) : todo[k] = d.records[(Len(d.records) - k) + 1].id
      BY <1>4, <1>5, <2>5 DEF Lists
    <3> QED
      BY <2>1, <2>5, <3>1
  <2> QED
    BY <1>1, <1>5, <2>2, <2>3, <2>4, <2>5 DEF UndoAgrees
\* What is left to do, and what becomes of the document.
<1>8. PICK rest \in Seq(Patcher), e \in FrameDoc :
        /\ rest = IF ~doc[f].script THEN <<>>
                  ELSE IF id = "list"
                       THEN UndoOrder([n \in DOMAIN doc[f].records |-> doc[f].records[n].id])
                       ELSE Tail(undo.todo[f])
        /\ e = IF doc[f].script /\ id # "list" THEN RollBack(doc[f], id) ELSE doc[f]
        /\ DocFits(e) /\ e.script = d.script /\ (~e.script => rest = <<>>)
        /\ \A i \in 1..Len(e.records) : \E j \in 1..Len(d.records) : e.records[i].id = d.records[j].id
        /\ e.script => /\ Len(rest) = Len(e.records)
                       /\ \A k \in 1..Len(e.records) : rest[k] = e.records[(Len(e.records) - k) + 1].id
  <2>1. CASE ~d.script
    <3>1. <<>> \in Seq(Patcher)
      OBVIOUS
    <3> QED
      BY <1>4, <2>1, <3>1
  <2>2. CASE d.script /\ id = "list"
    <3>1. PICK rest : rest = UndoOrder([n \in DOMAIN d.records |-> d.records[n].id])
      OBVIOUS
    <3>2. /\ rest \in Seq(Patcher) /\ Len(rest) = Len(d.records)
          /\ \A k \in 1..Len(d.records) : rest[k] = d.records[(Len(d.records) - k) + 1].id
      BY <3>1, ListedLast
    <3> QED
      BY <1>4, <2>2, <3>1, <3>2
  <2>3. CASE d.script /\ id # "list"
    <3>1. PICK e : e = RollBack(d, id)
      OBVIOUS
    <3>2. /\ id = todo[1] /\ todo # <<>> /\ todo \in Seq(Patcher) /\ Len(todo) = Len(d.records)
          /\ \A k \in 1..Len(d.records) : todo[k] = d.records[(Len(d.records) - k) + 1].id
      BY <1>7, <2>3
    <3>3. /\ e \in FrameDoc /\ DocFits(e) /\ e.script = d.script
          /\ \A i \in 1..Len(e.records) : \E j \in 1..Len(d.records) : e.records[i].id = d.records[j].id
          /\ Tail(todo) \in Seq(Patcher) /\ Len(Tail(todo)) = Len(e.records)
          /\ \A k \in 1..Len(e.records) : Tail(todo)[k] = e.records[(Len(e.records) - k) + 1].id
      <4>1. e = RollBack(d, todo[1]) /\ DocFits(d)
        BY <1>4, <3>1, <3>2
      <4>8. todo[1] \in Patcher
        <5>1. Len(todo) # 0
          BY <3>2, EmptySeq
        <5> QED
          BY <3>2, <5>1
      <4>2. e \in FrameDoc
        BY <3>2, <4>1, LatestUndone
      <4>6. DocFits(e)
        BY <3>2, <4>1, LatestUndone
      <4>7. e.script = d.script
        BY <4>1, <4>2, <4>8, RolledBack
      <4>3. \A i \in 1..Len(e.records) : \E j \in 1..Len(d.records) : e.records[i].id = d.records[j].id
        BY <4>1, <4>8, RolledBack
      <4>4. Tail(todo) \in Seq(Patcher) /\ Len(Tail(todo)) = Len(e.records)
        BY <3>2, <4>1, LatestUndone
      <4>5. \A k \in 1..Len(e.records) : Tail(todo)[k] = e.records[(Len(e.records) - k) + 1].id
        BY <3>2, <4>1, LatestUndone
      <4> QED
        BY <4>2, <4>3, <4>4, <4>5, <4>6, <4>7
    <3> QED
      BY <1>4, <1>5, <2>3, <3>1, <3>3
  <2> QED
    BY <2>1, <2>2, <2>3
<1>9. /\ doc' = [doc EXCEPT ![f] = e]
      /\ undo' = [undo EXCEPT !.todo[f] = rest]
      /\ mail' = [mail EXCEPT ![f] = IF rest = <<>> THEN Tail(mail[f])
                                     ELSE Append(Tail(mail[f]), [from |-> "cleanup", id |-> Head(rest)])]
  BY <1>6, <1>8, Zenon DEF UndoGoesOn
<1>10. PICK q \in Seq(PatchMail) :
         /\ mail' = [mail EXCEPT ![f] = q] /\ \A i \in DOMAIN q : q[i].from \notin Patcher
         /\ rest = <<>> => q = <<>>
         /\ rest # <<>> => Len(q) = 1 /\ q[1].from = "cleanup" /\ q[1].id = rest[1]
  <2>1. Tail(mail[f]) = <<>> /\ <<>> \in Seq(PatchMail) /\ DOMAIN <<>> = {}
    <3>1. PICK t \in Seq(PatchMail) : t = Tail(mail[f]) /\ Len(t) = 0
      <4>1. Tail(mail[f]) \in Seq(PatchMail) /\ Len(Tail(mail[f])) = Len(mail[f]) - 1
        BY <1>3
      <4>2. Len(mail[f]) = 1
        BY <1>7
      <4>3. Len(Tail(mail[f])) = 0
        BY <4>1, <4>2
      <4> QED
        BY <4>1, <4>3
    <3>2. t = <<>>
      BY <3>1, EmptySeq
    <3> QED
      BY <3>1, <3>2
  <2>2. CASE rest = <<>>
    BY <1>9, <2>1, <2>2
  <2>3. CASE rest # <<>>
    <3>1. Head(rest) = rest[1] /\ rest[1] \in Patcher
      BY <1>8, <2>3, EmptySeq, HeadTailProperties
    <3>2. PICK message \in PatchMail : message = [from |-> "cleanup", id |-> rest[1]]
      BY <3>1 DEF PatchMail
    <3>3. message.from = "cleanup" /\ message.id = rest[1] /\ message.from \notin Patcher
      BY <3>2, PatchFrames
    <3>4. PICK q \in Seq(PatchMail) : q = Append(<<>>, message) /\ Len(q) = 1 /\ q[1] = message
      <4>1. <<>> \in Seq(PatchMail) /\ Len(<<>>) = 0
        OBVIOUS
      <4>2. /\ Append(<<>>, message) \in Seq(PatchMail) /\ Len(Append(<<>>, message)) = Len(<<>>) + 1
            /\ Append(<<>>, message)[Len(<<>>) + 1] = message
        BY <4>1, AppendProperties
      <4>3. Len(Append(<<>>, message)) = 1 /\ Append(<<>>, message)[1] = message
        BY <4>1, <4>2
      <4> QED
        BY <4>2, <4>3
    <3>5. mail' = [mail EXCEPT ![f] = q]
      BY <1>9, <2>1, <2>3, <3>1, <3>2, <3>4
    <3>6. DOMAIN q = {1}
      BY <3>4
    <3> QED
      BY <2>3, <3>3, <3>4, <3>5, <3>6
  <2> QED
    BY <2>2, <2>3
<1>11. /\ mail' \in [Frame -> Seq(PatchMail)] /\ mail'[f] = q
       /\ \A g \in Frame \ {f} : mail'[g] = mail[g]
  BY <1>2, <1>10 DEF PatchTypeOK
<1>12. /\ doc' \in [Frame -> FrameDoc] /\ doc'[f] = e
       /\ \A g \in Frame \ {f} : doc'[g] = doc[g]
  BY <1>2, <1>9 DEF PatchTypeOK
<1>13. /\ undo'.stage = "undoing" /\ undo'.todo \in [Frame -> Seq(Patcher \union {"list"})]
       /\ undo'.todo[f] = rest /\ \A g \in Frame \ {f} : undo'.todo[g] = undo.todo[g]
  <2>1. PICK t \in [Frame -> Seq(Patcher \union {"list"})] : t = [undo.todo EXCEPT ![f] = rest]
    <3>1. rest \in Seq(Patcher \union {"list"})
      BY <1>8
    <3> QED
      BY <1>2, <3>1 DEF PatchTypeOK
  <2>2. undo' = [undo EXCEPT !.todo = t]
    BY <1>9, <2>1
  <2>3. undo'.stage = undo.stage /\ undo'.todo = t
    BY <2>2 DEF UndoShape
  <2> QED
    BY <1>1, <1>2, <2>1, <2>3 DEF PatchTypeOK
<1>14. PatchTypeOK'
  BY <1>1, <1>2, <1>11, <1>12, <1>13 DEF PatchTypeOK
<1>15. DocsAgree'
  <2>1. \A g \in Frame \ {f} : DocAgrees(g)'
    BY <1>1, <1>2, <1>12, DocsStay
  <2>2. DocAgrees(f)'
    <3>1. \A j \in 1..Len(d.records) : patching[d.records[j].id].stage = "over"
      BY <1>4 DEF DocAgrees
    <3>2. \A i \in 1..Len(e.records) : patching[e.records[i].id].stage = "over"
      <4> SUFFICES ASSUME NEW i \in 1..Len(e.records) PROVE patching[e.records[i].id].stage = "over"
        OBVIOUS
      <4>1. \E j \in 1..Len(d.records) : e.records[i].id = d.records[j].id
        BY <1>8
      <4> QED
        BY <3>1, <4>1
    <3>3. DocFits(doc'[f])
      BY <1>8, <1>12
    <3>4. \A i \in 1..Len(doc'[f].records) : patching'[doc'[f].records[i].id].stage = "over"
      BY <1>1, <1>12, <3>2
    <3> QED
      BY <3>3, <3>4 DEF DocAgrees
  <2> QED
    BY <2>1, <2>2 DEF DocsAgree
<1>16. MailAgrees'
  <2>1. PICK s \in [Frame -> {0, 1}] : s = [g \in Frame |-> 0]
    OBVIOUS
  <2>2. ASSUME NEW g \in Frame, NEW i \in DOMAIN mail'[g], mail'[g][i].from \in Patcher
        PROVE  /\ i + s[g] \in DOMAIN mail[g] /\ mail'[g][i] = mail[g][i + s[g]]
               /\ patching'[mail'[g][i].from].stage = "sent"
    <3>1. g # f
      BY <1>10, <1>11, <2>2
    <3>2. mail'[g] = mail[g] /\ i \in DOMAIN mail[g]
      BY <1>11, <3>1
    <3>3. i + s[g] = i
      <4>1. i \in 1..Len(mail[g])
        BY <1>2, <3>2 DEF PatchTypeOK
      <4> QED
        BY <2>1, <4>1
    <3>4. MessageAgrees(g, i)
      BY <1>2, <3>2 DEF MailAgrees
    <3> QED
      BY <1>1, <2>2, <3>2, <3>3, <3>4 DEF MessageAgrees
  <2> QED
    BY <1>1, <1>2, <1>11, <1>13, <2>2, MailMoves
<1>17. UndoAgree'
  <2>1. ASSUME NEW g \in Frame, g # f PROVE UndoAgrees(g)'
    BY <1>1, <1>2, <1>11, <1>12, <1>13, <2>1, UndoStays DEF UndoAgree
  <2>2. UndoAgrees(f)'
    <3>1. CASE rest = <<>>
      <4>1. doc'[f].records = <<>>
        <5>1. ~e.script => e.records = <<>>
          BY <1>8 DEF DocFits
        <5>2. e.script => e.records = <<>>
          BY <1>8, <3>1, EmptySeq DEF FrameDoc
        <5> QED
          BY <1>12, <5>1, <5>2
      <4>2. mail'[f] = <<>> /\ DOMAIN mail'[f] = {}
        BY <1>10, <1>11, <3>1
      <4> QED
        BY <1>13, <3>1, <4>1, <4>2 DEF UndoAgrees, Undone
    <3>2. CASE rest # <<>>
      <4>1. rest[1] \in Patcher /\ rest[1] # "list"
        BY <1>8, <3>2, EmptySeq, PatchFrames
      <4>2. Lists(f)'
        BY <1>8, <1>10, <1>11, <1>12, <1>13, <3>2 DEF Lists
      <4> QED
        BY <1>13, <3>2, <4>1, <4>2 DEF UndoAgrees
    <3> QED
      BY <3>1, <3>2
  <2>3. patchAccess' <=> undo'.stage = "off"
    BY <1>1, <1>2, <1>13 DEF UndoAgree
  <2> QED
    BY <1>13, <2>1, <2>2, <2>3 DEF UndoAgree
<1> QED
  BY <1>14, <1>15, <1>16, <1>17 DEF PatchGood

-----------------------------------------------------------------------------
LEMMA UndoShaped ==
  ASSUME UndoShape,
         \/ \E p \in Patcher : \/ \E f \in Frame, work \in PatchWork : PatchCalled(p, f, work)
                               \/ PatchSent(p)
         \/ \E f \in Frame : PatchArrives(f) \/ UndoGoesOn(f) \/ PageLoads(f)
                             \/ \E value \in PatchValue : PageWrites(f, value)
         \/ PatchAccessEnds \/ PatchAccessReturns \/ UndoBegins \/ UndoEnds
  PROVE  UndoShape' /\ undo'.late = undo.late
<1>1. CASE undo' = undo
  BY <1>1 DEF UndoShape
<1>2. ASSUME NEW stage, NEW todo, undo' = [undo EXCEPT !.stage = stage, !.todo = todo]
      PROVE  UndoShape' /\ undo'.late = undo.late
  BY <1>2 DEF UndoShape
<1>3. ASSUME NEW f \in Frame, UndoGoesOn(f) PROVE UndoShape' /\ undo'.late = undo.late
  <2>1. PICK todo : undo' = [undo EXCEPT !.todo = todo]
    BY <1>3 DEF UndoGoesOn
  <2> QED
    BY <2>1 DEF UndoShape
<1>4. ASSUME PatchAccessEnds \/ UndoEnds PROVE UndoShape' /\ undo'.late = undo.late
  BY <1>4 DEF PatchAccessEnds, UndoEnds, UndoShape
<1>5. ASSUME PatchAccessReturns \/ UndoBegins PROVE UndoShape' /\ undo'.late = undo.late
  BY <1>2, <1>5 DEF PatchAccessReturns, UndoBegins
<1>6. ASSUME NEW p \in Patcher, PatchSent(p) \/ \E f \in Frame, work \in PatchWork : PatchCalled(p, f, work)
      PROVE  undo' = undo
  BY <1>6 DEF PatchSent, PatchCalled
<1>7. ASSUME NEW f \in Frame,
             PatchArrives(f) \/ PageLoads(f) \/ \E value \in PatchValue : PageWrites(f, value)
      PROVE  undo' = undo
  BY <1>7 DEF PatchArrives, PageLoads, PageWrites
<1> QED
  BY <1>1, <1>3, <1>4, <1>5, <1>6, <1>7

LEMMA PatchInvKept == PatchInv /\ [PatchNext]_patchVars => PatchInv'
<1> SUFFICES ASSUME PatchInv, [PatchNext]_patchVars PROVE PatchInv'
  OBVIOUS
<1>1. UndoShape /\ (~undo.late => PatchGood)
  BY DEF PatchInv, PatchGood
<1>2. SUFFICES UndoShape' /\ (~undo'.late => PatchGood')
  BY DEF PatchInv, PatchGood
<1>3. CASE UNCHANGED patchVars
  <2>1. UNCHANGED <<doc, patching, mail, patched, undo, patchAccess>>
    BY <1>3 DEF patchVars
  <2>2. UndoShape'
    BY <1>1, <2>1 DEF UndoShape
  <2>3. ASSUME ~undo.late PROVE PatchGood'
    <3>1. PatchGood /\ patching' \in [Patcher -> PatchCall] /\ patched' \subseteq Frame
      BY <1>1, <2>1, <2>3 DEF PatchGood, PatchTypeOK
    <3> QED
      BY <2>1, <3>1, OnlyCalls
  <2> QED
    BY <2>1, <2>2, <2>3
<1>4. ASSUME NEW p \in Patcher, PatchRetried(p) PROVE UndoShape' /\ (~undo'.late => PatchGood')
  BY <1>1, <1>4, PatchRetriedKeeps
<1>5. ASSUME NEW p \in Patcher, NEW f \in Frame, NEW work \in PatchWork, PatchCalled(p, f, work)
      PROVE  UndoShape' /\ (~undo'.late => PatchGood')
  BY <1>1, <1>5, UndoShaped, PatchCalledKeeps
<1>6. ASSUME NEW p \in Patcher, PatchSent(p) PROVE UndoShape' /\ (~undo'.late => PatchGood')
  BY <1>1, <1>6, UndoShaped, PatchSentKeeps
<1>7. ASSUME NEW f \in Frame, PatchArrives(f) PROVE UndoShape' /\ (~undo'.late => PatchGood')
  BY <1>1, <1>7, UndoShaped, PatchArrivesKeeps
<1>8. ASSUME NEW f \in Frame, UndoGoesOn(f) PROVE UndoShape' /\ (~undo'.late => PatchGood')
  BY <1>1, <1>8, UndoShaped, UndoGoesOnKeeps
<1>9. ASSUME NEW f \in Frame, PageLoads(f) PROVE UndoShape' /\ (~undo'.late => PatchGood')
  BY <1>1, <1>9, UndoShaped, PageLoadsKeeps
<1>10. ASSUME NEW f \in Frame, NEW value \in PatchValue, PageWrites(f, value)
       PROVE  UndoShape' /\ (~undo'.late => PatchGood')
  BY <1>1, <1>10, UndoShaped, PageWritesKeeps
<1>11. ASSUME PatchAccessEnds PROVE UndoShape' /\ (~undo'.late => PatchGood')
  BY <1>1, <1>11, UndoShaped, PatchAccessEndsKeeps
<1>12. ASSUME PatchAccessReturns PROVE UndoShape' /\ (~undo'.late => PatchGood')
  BY <1>1, <1>12, UndoShaped, PatchAccessReturnsKeeps
<1>13. ASSUME UndoBegins PROVE UndoShape' /\ (~undo'.late => PatchGood')
  BY <1>1, <1>13, UndoShaped, UndoBeginsKeeps
<1>14. ASSUME UndoEnds PROVE UndoShape' /\ (~undo'.late => PatchGood')
  BY <1>1, <1>14, UndoShaped, UndoEndsKeeps
<1> QED
  BY <1>3, <1>4, <1>5, <1>6, <1>7, <1>8, <1>9, <1>10, <1>11, <1>12, <1>13, <1>14 DEF PatchNext

\* When the cleanup of a tab is over, no frame has a patch left, however requests,
\* navigations, lost frames and the cleanup's own messages were ordered, and what is shown
\* is the page's own unless something else touched it (rollbackAllPatchesForTab).
THEOREM PatchesGone == PatchSpec => []PatchesUndone
<1>1. PatchSpec => []PatchInv
  BY PatchesBegin, PatchInvKept, PTL DEF PatchSpec
<1> QED
  BY <1>1, PatchInvSays, PTL

=============================================================================
