---------------------- MODULE MutationSchedulerProofs ----------------------
(***************************************************************************)
(* What holds of the mutation scheduler for any number of agents, browsers, *)
(* tabs and requests and any limits.                                        *)
(***************************************************************************)
EXTENDS MutationScheduler, SequenceTheorems, FiniteSetTheorems, WellFoundedInduction, TLAPS

-----------------------------------------------------------------------------
(* Lines without duplicates: what leaving one and joining one does to the     *)
(* set of those in line.                                                      *)

LEMMA RemoveAtElements ==
    ASSUME NEW S, NEW s \in Seq(S), NEW i \in 1..Len(s)
    PROVE  /\ RemoveAt(s, i) \in Seq(S)
           /\ Len(RemoveAt(s, i)) = Len(s) - 1
           /\ \A j \in 1..(Len(s) - 1) :
                 RemoveAt(s, i)[j] = IF j < i THEN s[j] ELSE s[j + 1]
<1> DEFINE head == SubSeq(s, 1, i - 1)
           tail == SubSeq(s, i + 1, Len(s))
<1>0. Len(s) \in Nat /\ i \in Nat /\ i <= Len(s) /\ 1 <= i /\ \A j \in 1..Len(s) : s[j] \in S
  BY ElementOfSeq
<1>1. /\ head \in Seq(S) /\ Len(head) = i - 1
      /\ \A j \in 1..(i - 1) : head[j] = s[j]
  <2>1. \A j \in 1..(i - 1) : s[j] \in S
    BY <1>0
  <2>2. /\ head \in Seq(S) /\ Len(head) = IF 1 <= i - 1 THEN (i - 1) - 1 + 1 ELSE 0
        /\ \A j \in 1..((i - 1) - 1 + 1) : head[j] = s[1 + j - 1]
    BY <1>0, <2>1, SubSeqProperties
  <2> QED
    BY <1>0, <2>2
<1>2. /\ tail \in Seq(S) /\ Len(tail) = Len(s) - i
      /\ \A j \in 1..(Len(s) - i) : tail[j] = s[i + j]
  <2>1. \A j \in (i + 1)..Len(s) : s[j] \in S
    BY <1>0
  <2>2. /\ tail \in Seq(S)
        /\ Len(tail) = IF i + 1 <= Len(s) THEN Len(s) - (i + 1) + 1 ELSE 0
        /\ \A j \in 1..(Len(s) - (i + 1) + 1) : tail[j] = s[i + 1 + j - 1]
    BY <1>0, <2>1, SubSeqProperties
  <2> QED
    BY <1>0, <2>2
<1> HIDE DEF head, tail
<1> DEFINE joined == head \o tail
<1>3. /\ joined \in Seq(S) /\ Len(joined) = Len(s) - 1
      /\ \A j \in 1..(Len(s) - 1) :
             joined[j] = IF j <= i - 1 THEN head[j] ELSE tail[j - (i - 1)]
  <2>1. /\ joined \in Seq(S) /\ Len(joined) = Len(head) + Len(tail)
        /\ \A j \in 1..(Len(head) + Len(tail)) : joined[j] =
               IF j <= Len(head) THEN head[j] ELSE tail[j - Len(head)]
    BY <1>1, <1>2, ConcatProperties
  <2>2. Len(head) + Len(tail) = Len(s) - 1
    BY <1>0, <1>1, <1>2
  <2> HIDE DEF joined
  <2> QED
    BY <1>1, <2>1, <2>2
<1>4. RemoveAt(s, i) = joined
  BY DEF RemoveAt, head, tail
<1> HIDE DEF joined
<1>5. ASSUME NEW j \in 1..(Len(s) - 1)
      PROVE  joined[j] = IF j < i THEN s[j] ELSE s[j + 1]
  <2>1. CASE j < i
    BY <1>0, <1>1, <1>3, <2>1
  <2>2. CASE j >= i
    <3>1. j - (i - 1) \in 1..(Len(s) - i)
      BY <1>0, <2>2
    <3>2. joined[j] = tail[j - (i - 1)]
      <4>1. ~(j <= i - 1)
        BY <1>0, <2>2
      <4> QED
        BY <1>3, <4>1, Zenon
    <3>3. tail[j - (i - 1)] = s[i + (j - (i - 1))]
      BY <1>2, <3>1
    <3>4. i + (j - (i - 1)) = j + 1
      BY <1>0
    <3> QED
      BY <1>0, <2>2, <3>2, <3>3, <3>4
  <2> QED
    BY <1>0, <2>1, <2>2
<1> QED
  BY <1>3, <1>4, <1>5

\* Taking an element out of a line without duplicates leaves the others, once.
LEMMA RemoveAtSet ==
    ASSUME NEW S, NEW s \in Seq(S), NEW i \in 1..Len(s), IsInjective(s)
    PROVE  /\ RemoveAt(s, i) \in Seq(S)
           /\ ToSet(RemoveAt(s, i)) = ToSet(s) \ {s[i]}
           /\ IsInjective(RemoveAt(s, i))
<1> DEFINE q == RemoveAt(s, i)
<1>1. /\ q \in Seq(S) /\ DOMAIN q = 1..(Len(s) - 1) /\ DOMAIN s = 1..Len(s)
      /\ \A j \in 1..(Len(s) - 1) : q[j] = IF j < i THEN s[j] ELSE s[j + 1]
  BY RemoveAtElements
<1> HIDE DEF q
<1>2. \A j, k \in 1..Len(s) : s[j] = s[k] => j = k
  BY DEF IsInjective
<1>3. ASSUME NEW j \in DOMAIN q PROVE q[j] \in ToSet(s) \ {s[i]}
  <2>1. CASE j < i
    <3>1. j \in 1..Len(s) /\ j # i /\ q[j] = s[j]
      BY <1>1, <1>3, <2>1
    <3> QED
      BY <1>1, <1>2, <3>1 DEF ToSet
  <2>2. CASE j >= i
    <3>1. j + 1 \in 1..Len(s) /\ j + 1 # i /\ q[j] = s[j + 1]
      BY <1>1, <1>3, <2>2
    <3> QED
      BY <1>1, <1>2, <3>1 DEF ToSet
  <2> QED
    BY <1>1, <1>3, <2>1, <2>2
<1>4. ASSUME NEW k \in DOMAIN s, k # i PROVE s[k] \in ToSet(q)
  <2>1. CASE k < i
    <3>1. k \in DOMAIN q /\ q[k] = s[k]
      BY <1>1, <2>1
    <3> QED
      BY <3>1 DEF ToSet
  <2>2. CASE k > i
    <3>1. k - 1 \in DOMAIN q /\ q[k - 1] = s[k]
      BY <1>1, <2>2
    <3> QED
      BY <3>1 DEF ToSet
  <2> QED
    BY <1>1, <1>4, <2>1, <2>2
<1>5. ToSet(q) = ToSet(s) \ {s[i]}
  <2>1. \A e \in ToSet(q) : e \in ToSet(s) \ {s[i]}
    BY <1>3 DEF ToSet
  <2>2. \A e \in ToSet(s) \ {s[i]} : e \in ToSet(q)
    <3> TAKE e \in ToSet(s) \ {s[i]}
    <3>1. PICK k \in DOMAIN s : e = s[k] /\ k # i
      BY DEF ToSet
    <3> QED
      BY <1>4, <3>1
  <2> QED
    BY <2>1, <2>2
<1>6. IsInjective(q)
  <2> SUFFICES ASSUME NEW j \in DOMAIN q, NEW k \in DOMAIN q, q[j] = q[k] PROVE j = k
    BY DEF IsInjective
  <2>1. PICK m \in 1..Len(s) : q[j] = s[m] /\ m = IF j < i THEN j ELSE j + 1
    BY <1>1
  <2>2. PICK n \in 1..Len(s) : q[k] = s[n] /\ n = IF k < i THEN k ELSE k + 1
    BY <1>1
  <2>3. m = n
    BY <1>2, <2>1, <2>2
  <2> QED
    BY <1>1, <2>1, <2>2, <2>3
<1> QED
  BY <1>1, <1>5, <1>6 DEF q

\* Joining at the end adds the newcomer to those in line.
LEMMA AppendSet ==
    ASSUME NEW S, NEW s \in Seq(S), NEW e \in S, IsInjective(s), e \notin ToSet(s)
    PROVE  /\ Append(s, e) \in Seq(S)
           /\ ToSet(Append(s, e)) = ToSet(s) \cup {e}
           /\ IsInjective(Append(s, e))
<1> DEFINE q == Append(s, e)
<1>1. /\ q \in Seq(S) /\ DOMAIN s = 1..Len(s) /\ DOMAIN q = 1..(Len(s) + 1)
      /\ q[Len(s) + 1] = e /\ \A j \in 1..Len(s) : q[j] = s[j]
  OBVIOUS
<1> HIDE DEF q
<1>2. ToSet(q) = ToSet(s) \cup {e}
  BY <1>1 DEF ToSet
<1>3. IsInjective(q)
  BY <1>1 DEF IsInjective, ToSet
<1> QED
  BY <1>1, <1>2, <1>3 DEF q

-----------------------------------------------------------------------------
(* The invariant. *)

\* A ready entry knows its tab.
ReadyHasTab == \A r \in ready : tab[r] \in Tab

\* Who is in line where, without regard to whose turn it is.
LineOK ==
    /\ entries \subseteq Request
    /\ queue \in [Extension -> Seq(Request)]
    /\ tab \in [Request -> Tab \cup {NoTab}]
    /\ ready \subseteq entries
    /\ ReadyHasTab
    /\ QueueHoldsEntries

\* Whose turn it is.
TurnsOK ==
    /\ canceled \subseteq granted
    /\ granted \subseteq ready
    /\ OneRunningPerTab

\* Who waits for it.
CallersOK == SlotAccountedFor /\ RunningHasAccess

\* The inductive invariant.  One running mutation per tab needs the queue to
\* hold every entry, for the scan sees only the queue; it needs canceled slots
\* to be told from waiting ones, for those no longer make a tab busy.
IInv == TypeOK /\ LineOK /\ TurnsOK /\ CallersOK

-----------------------------------------------------------------------------
(* One pass of grantMutations. *)

\* The rule names entries of the queue that are ready and wanted, for tabs
\* where nothing runs, at most one for each, and where canceled work drains
\* only a navigation.
LEMMA GrantsSound ==
    ASSUME NEW q \in Seq(Request), NEW rd, NEW gr, NEW cn, NEW lv, NEW tb
    PROVE  /\ \A r \in Grants(q, rd, gr, cn, lv, tb) :
                 /\ r \in ToSet(q)
                 /\ r \in (rd \cap lv) \ (gr \cup cn)
                 /\ \A s \in ToSet(q) \cap (gr \ cn) : tb[s] # tb[r]
                 /\ \A s \in ToSet(q) \cap (gr \cap cn) :
                       tb[s] = tb[r] => PreemptsCanceled(r)
           /\ \A r, s \in Grants(q, rd, gr, cn, lv, tb) : tb[r] = tb[s] => r = s
<1> DEFINE May(i) == Eligible(q, rd, gr, cn, lv, tb, i)
           First(i) == May(i) /\ \A j \in 1..(i - 1) : May(j) => tb[q[j]] # tb[q[i]]
<1>1. DOMAIN q = 1..Len(q) /\ Len(q) \in Nat
  OBVIOUS
<1>2. \A r : r \in Grants(q, rd, gr, cn, lv, tb) <=> \E i \in 1..Len(q) : First(i) /\ r = q[i]
  BY DEF Grants
<1>3. ASSUME NEW i \in 1..Len(q), May(i)
      PROVE  /\ q[i] \in (rd \cap lv) \ (gr \cup cn)
             /\ \A s \in ToSet(q) \cap (gr \ cn) : tb[s] # tb[q[i]]
             /\ \A s \in ToSet(q) \cap (gr \cap cn) :
                   tb[s] = tb[q[i]] => PreemptsCanceled(q[i])
  BY <1>1, <1>3 DEF Eligible, Held, ToSet
<1>4. ASSUME NEW i \in 1..Len(q), NEW j \in 1..Len(q), First(i), First(j),
             tb[q[i]] = tb[q[j]]
      PROVE  i = j
  <2> HIDE DEF May
  <2>1. ~(i < j) /\ ~(j < i)
    BY <1>4
  <2> QED
    BY <2>1
<1>5. \A i \in 1..Len(q) : First(i) => May(i) /\ q[i] \in ToSet(q)
  BY <1>1 DEF ToSet
<1> HIDE DEF May, First
<1> QED
  BY <1>2, <1>3, <1>4, <1>5

\* What a pass over t's queue leaves, when the handler before it has only
\* taken entries out of line or marked one ready.
PassDone(t) ==
    /\ granted \cap entries' \subseteq granted'
    /\ \A r \in granted' \ granted :
          /\ r \in (entries' \cap pending') \ canceled' /\ Target[r] = t /\ access'[t]
          /\ \A s \in canceled' :
                Target[s] = t /\ tab'[s] = tab'[r] => PreemptsCanceled(r)

LEMMA PassStep ==
    ASSUME IInv, NEW t \in Extension, LineOK', GrantMutations(t),
           entries' \subseteq entries,
           ready \cap entries' \subseteq ready',
           canceled' = canceled \cap entries',
           \A r \in granted \cap entries' : tab'[r] = tab[r]
    PROVE  TurnsOK' /\ PassDone(t)
<1> DEFINE G == NewGrants(t)
<1>1. /\ granted \subseteq ready /\ canceled \subseteq granted /\ ready \subseteq entries
      /\ granted' = (granted \cap entries') \cup G
  BY DEF IInv, LineOK, TurnsOK, GrantMutations
<1>2. /\ queue'[t] \in Seq(Request)
      /\ ToSet(queue'[t]) = {r \in entries' : Target[r] = t}
  BY DEF LineOK, QueueHoldsEntries
<1>3. /\ \A r \in G :
            /\ r \in ToSet(queue'[t])
            /\ r \in (ready' \cap pending') \ (granted \cup canceled')
            /\ access'[t]
            /\ \A s \in ToSet(queue'[t]) \cap (granted \ canceled') : tab'[s] # tab'[r]
            /\ \A s \in ToSet(queue'[t]) \cap (granted \cap canceled') :
                  tab'[s] = tab'[r] => PreemptsCanceled(r)
      /\ \A r, s \in G : tab'[r] = tab'[s] => r = s
  <2>1. CASE G = {}
    BY <2>1
  <2>2. CASE /\ access'[t]
             /\ G = Grants(queue'[t], ready', granted, canceled', pending', tab')
    <3> HIDE DEF G
    <3>1. /\ \A r \in Grants(queue'[t], ready', granted, canceled', pending', tab') :
                /\ r \in ToSet(queue'[t])
                /\ r \in (ready' \cap pending') \ (granted \cup canceled')
                /\ \A s \in ToSet(queue'[t]) \cap (granted \ canceled') : tab'[s] # tab'[r]
                /\ \A s \in ToSet(queue'[t]) \cap (granted \cap canceled') :
                      tab'[s] = tab'[r] => PreemptsCanceled(r)
          /\ \A r, s \in Grants(queue'[t], ready', granted, canceled', pending', tab') :
                tab'[r] = tab'[s] => r = s
      <4>1. queue'[t] \in Seq(Request)
        BY <1>2
      <4> HIDE DEF Grants
      <4> QED
        BY ONLY <4>1, GrantsSound
    <3> QED
      BY <2>2, <3>1
  <2> QED
    BY <2>1, <2>2 DEF NewGrants
<1> HIDE DEF G
<1>4. canceled' \subseteq granted' /\ granted' \subseteq ready'
  BY <1>1, <1>3
<1>5. OneRunningPerTab'
  <2> SUFFICES ASSUME NEW r \in granted' \ canceled', NEW s \in granted' \ canceled',
                      Target[r] = Target[s], tab'[r] = tab'[s]
               PROVE  r = s
    BY DEF OneRunningPerTab
  <2>1. \A w \in granted' \ canceled' : w \in G \/ w \in (granted \cap entries') \ canceled
    BY <1>1
  <2>2. \A w \in G : Target[w] = t
    BY <1>2, <1>3
  <2>3. ASSUME NEW v \in G, NEW w \in (granted \cap entries') \ canceled,
               Target[w] = t
        PROVE  tab'[w] # tab'[v]
    <3>1. w \in ToSet(queue'[t]) \cap (granted \ canceled')
      BY <1>2, <2>3
    <3> QED
      BY <1>3, <2>3, <3>1
  <2>4. CASE r \in G /\ s \in G
    BY <1>3, <2>4
  <2>5. CASE r \in G /\ s \notin G
    BY <2>1, <2>2, <2>3, <2>5
  <2>6. CASE r \notin G /\ s \in G
    BY <2>1, <2>2, <2>3, <2>6
  <2>7. CASE r \notin G /\ s \notin G
    BY <2>1, <2>7 DEF IInv, TurnsOK, OneRunningPerTab
  <2> QED
    BY <2>4, <2>5, <2>6, <2>7
<1>6. ASSUME NEW r \in G, NEW s \in canceled', Target[s] = t, tab'[s] = tab'[r]
      PROVE  PreemptsCanceled(r)
  <2>1. s \in ToSet(queue'[t]) \cap (granted \cap canceled')
    BY <1>1, <1>2, <1>6
  <2> QED
    BY <1>3, <1>6, <2>1
<1> QED
  BY <1>1, <1>2, <1>3, <1>4, <1>5, <1>6 DEF TurnsOK, PassDone

-----------------------------------------------------------------------------
(* The helpers of the handlers. *)

LEMMA RemoveStep ==
    ASSUME IInv, NEW r \in entries, RemoveMutation(r)
    PROVE  /\ LineOK' /\ TurnsOK' /\ PassDone(Target[r])
           /\ entries' = entries \ {r} /\ canceled' = canceled \ {r}
<1> DEFINE t == Target[r]
           at == CHOOSE i \in DOMAIN queue[t] : queue[t][i] = r
<1>1. /\ r \in Request /\ t \in Extension
      /\ queue[t] \in Seq(Request) /\ IsInjective(queue[t]) /\ r \in ToSet(queue[t])
  BY ConstantsAssumption DEF IInv, LineOK, QueueHoldsEntries
<1>2. at \in 1..Len(queue[t]) /\ queue[t][at] = r
  <2>1. \E i \in DOMAIN queue[t] : queue[t][i] = r
    BY <1>1 DEF ToSet
  <2>2. DOMAIN queue[t] = 1..Len(queue[t])
    BY <1>1
  <2> QED
    BY <2>1, <2>2
<1> HIDE DEF at
<1>3. /\ entries' = entries \ {r} /\ ready' = ready \ {r} /\ canceled' = canceled \ {r}
      /\ queue' = [queue EXCEPT ![t] = RemoveAt(queue[t], at)]
      /\ tab' = [tab EXCEPT ![r] = NoTab]
      /\ GrantMutations(t)
  BY DEF RemoveMutation, at
<1>4. /\ RemoveAt(queue[t], at) \in Seq(Request)
      /\ ToSet(RemoveAt(queue[t], at)) = ToSet(queue[t]) \ {r}
      /\ IsInjective(RemoveAt(queue[t], at))
  BY <1>1, <1>2, RemoveAtSet
<1>5. /\ queue' \in [Extension -> Seq(Request)]
      /\ queue'[t] = RemoveAt(queue[t], at)
      /\ \A x \in Extension \ {t} : queue'[x] = queue[x]
  BY <1>1, <1>3, <1>4 DEF IInv, LineOK
<1>6. QueueHoldsEntries'
  <2> SUFFICES ASSUME NEW x \in Extension
               PROVE  /\ ToSet(queue'[x]) = {s \in entries' : Target[s] = x}
                      /\ IsInjective(queue'[x])
    BY DEF QueueHoldsEntries
  <2>0. /\ ToSet(queue[x]) = {s \in entries : Target[s] = x}
        /\ IsInjective(queue[x])
    BY DEF IInv, LineOK, QueueHoldsEntries
  <2>1. CASE x = t
    BY <1>3, <1>4, <1>5, <2>0, <2>1
  <2>2. CASE x # t
    BY <1>3, <1>5, <2>0, <2>2
  <2> QED
    BY <2>1, <2>2
<1>7. LineOK'
  <2>1. entries' \subseteq Request /\ ready' \subseteq entries'
    BY <1>3 DEF IInv, LineOK
  <2>2. tab' \in [Request -> Tab \cup {NoTab}] /\ ReadyHasTab'
    BY <1>1, <1>3 DEF IInv, LineOK, ReadyHasTab
  <2> QED
    BY <1>5, <1>6, <2>1, <2>2 DEF LineOK
<1>8. /\ entries' \subseteq entries /\ ready \cap entries' \subseteq ready'
      /\ canceled' = canceled \cap entries'
      /\ \A s \in granted \cap entries' : tab'[s] = tab[s]
  BY <1>3 DEF IInv, LineOK, TurnsOK
<1> QED
  BY <1>1, <1>3, <1>7, <1>8, PassStep

\* Taking r out of line when it is no longer pending, or is canceled.
LEMMA RemovedCallers ==
    ASSUME IInv, NEW r \in entries, RemoveMutation(r),
           pending' \subseteq pending, pending \ pending' \subseteq {r},
           marked' \subseteq marked, r \in marked' => r \in storing',
           storing \subseteq storing' \cup {r},
           UNCHANGED <<access, walking>>
    PROVE  LineOK' /\ TurnsOK' /\ CallersOK'
<1>1. /\ LineOK' /\ TurnsOK' /\ PassDone(Target[r])
      /\ entries' = entries \ {r} /\ canceled' = canceled \ {r}
  BY RemoveStep
<1>2. SlotAccountedFor'
  BY <1>1 DEF IInv, CallersOK, SlotAccountedFor
<1>3. RunningHasAccess'
  BY <1>1 DEF IInv, CallersOK, RunningHasAccess, PassDone, LineOK, TurnsOK
<1> QED
  BY <1>1, <1>2, <1>3 DEF CallersOK

\* finish() keeps the scheduler's tables in order whatever state r is in.
LEMMA FinishStep ==
    ASSUME IInv, NEW r \in pending, Finish(r),
           storing \subseteq storing' \cup {r}, UNCHANGED <<access, walking>>
    PROVE  /\ LineOK' /\ TurnsOK' /\ CallersOK'
           /\ pending' \subseteq Request /\ count' \in [Agent -> Int]
           /\ marked' \subseteq pending'
<1>1. pending' = pending \ {r} /\ marked' = marked \ {r}
  BY DEF Finish
<1>2. /\ pending' \subseteq Request /\ count' \in [Agent -> Int]
      /\ marked' \subseteq pending'
  BY ConstantsAssumption DEF Finish, IInv, TypeOK
<1>3. CASE r \notin entries /\ UNCHANGED scheduler
  <2>1. LineOK' /\ TurnsOK'
    BY <1>3 DEF IInv, scheduler, LineOK, ReadyHasTab, QueueHoldsEntries, TurnsOK,
                OneRunningPerTab
  <2>2. CallersOK'
    BY <1>1, <1>3 DEF IInv, scheduler, CallersOK, SlotAccountedFor, RunningHasAccess
  <2> QED
    BY <1>2, <2>1, <2>2
<1>4. CASE r \in entries \ granted /\ RemoveMutation(r)
  BY <1>1, <1>2, <1>4, RemovedCallers
<1>5. CASE /\ r \in entries \cap granted
           /\ canceled' = canceled \cup {r}
           /\ UNCHANGED <<entries, queue, tab, ready, granted>>
  <2>1. LineOK' /\ TurnsOK'
    BY <1>5 DEF IInv, LineOK, ReadyHasTab, QueueHoldsEntries, TurnsOK, OneRunningPerTab
  <2>2. CallersOK'
    BY <1>1, <1>5 DEF IInv, CallersOK, SlotAccountedFor, RunningHasAccess
  <2> QED
    BY <1>2, <2>1, <2>2
<1> QED
  BY <1>3, <1>4, <1>5 DEF Finish, CancelMutation

-----------------------------------------------------------------------------
(* The handlers. *)

LEMMA SchedulerInit == Init => IInv
<1> SUFFICES ASSUME Init PROVE IInv
  OBVIOUS
<1> USE DEF Init
<1>1. TypeOK
  BY DEF TypeOK
<1>2. LineOK
  BY DEF LineOK, ReadyHasTab, QueueHoldsEntries, ToSet, IsInjective
<1>3. TurnsOK /\ CallersOK
  BY DEF TurnsOK, OneRunningPerTab, CallersOK, SlotAccountedFor, RunningHasAccess
<1> QED
  BY <1>1, <1>2, <1>3 DEF IInv

\* The rest of the type invariant.
RestOK ==
    /\ peers \subseteq Agent \cup Extension
    /\ access \in [Extension -> BOOLEAN]
    /\ identified \subseteq Extension
    /\ pending \subseteq Request /\ marked \subseteq pending
    /\ count \in [Agent -> Int]
    /\ storing \subseteq Request
    /\ unsettled \subseteq Request
    /\ walking \in Agent \cup Extension \cup {NoPeer}

LEMMA Assemble == RestOK' /\ LineOK' /\ TurnsOK' /\ CallersOK' => IInv'
  BY DEF RestOK, LineOK, TurnsOK, IInv, TypeOK

\* Handlers that leave the scheduler's tables and d.pending alone.
LEMMA QuietStep ==
    ASSUME IInv, UNCHANGED <<pending, marked, scheduler, storing>>,
           \A t \in Extension :
               access[t] \/ walking = t => access'[t] \/ walking' = t
               \/ \A r \in granted \ canceled : Target[r] # t
    PROVE  LineOK' /\ TurnsOK' /\ CallersOK'
<1>1. LineOK' /\ TurnsOK'
  BY DEF IInv, scheduler, LineOK, ReadyHasTab, QueueHoldsEntries, TurnsOK, OneRunningPerTab
<1>2. SlotAccountedFor'
  BY DEF IInv, scheduler, CallersOK, SlotAccountedFor
<1>3. RunningHasAccess'
  BY ConstantsAssumption
     DEF IInv, scheduler, CallersOK, RunningHasAccess, TurnsOK, LineOK
<1> QED
  BY <1>1, <1>2, <1>3 DEF CallersOK

LEMMA RouteStep == ASSUME IInv, NEW r \in Request, Route(r) PROVE IInv'
<1> DEFINE t == Target[r]
<1>1. RestOK'
  BY ConstantsAssumption DEF IInv, TypeOK, RestOK, Route, ScheduleMutation
<1>2. CASE marked' = marked \ {r} /\ UNCHANGED scheduler
  <2>1. LineOK' /\ TurnsOK'
    BY <1>2 DEF IInv, scheduler, LineOK, ReadyHasTab, QueueHoldsEntries, TurnsOK,
                OneRunningPerTab
  <2>2. CallersOK'
    BY <1>2 DEF IInv, scheduler, CallersOK, SlotAccountedFor, RunningHasAccess, Route
  <2> QED
    BY <1>1, <2>1, <2>2, Assemble
<1>3. CASE /\ marked' = marked \cup {r}
           /\ entries' = entries \cup {r}
           /\ queue' = [queue EXCEPT ![t] = Append(queue[t], r)]
           /\ tab' = [tab EXCEPT ![r] = RequestTab[r]]
           /\ UNCHANGED <<ready, granted, canceled>>
  <2>1. /\ t \in Extension /\ r \notin entries /\ queue[t] \in Seq(Request)
        /\ IsInjective(queue[t]) /\ r \notin ToSet(queue[t])
    BY ConstantsAssumption DEF Route, IInv, LineOK, QueueHoldsEntries
  <2>2. /\ Append(queue[t], r) \in Seq(Request)
        /\ ToSet(Append(queue[t], r)) = ToSet(queue[t]) \cup {r}
        /\ IsInjective(Append(queue[t], r))
    BY <2>1, AppendSet
  <2>3. /\ queue' \in [Extension -> Seq(Request)]
        /\ queue'[t] = Append(queue[t], r)
        /\ \A x \in Extension \ {t} : queue'[x] = queue[x]
    BY <1>3, <2>1, <2>2 DEF IInv, LineOK
  <2>4. QueueHoldsEntries'
    <3> SUFFICES ASSUME NEW x \in Extension
                 PROVE  /\ ToSet(queue'[x]) = {s \in entries' : Target[s] = x}
                        /\ IsInjective(queue'[x])
      BY DEF QueueHoldsEntries
    <3>0. /\ ToSet(queue[x]) = {s \in entries : Target[s] = x}
          /\ IsInjective(queue[x])
      BY DEF IInv, LineOK, QueueHoldsEntries
    <3>1. CASE x = t
      BY <1>3, <2>2, <2>3, <3>0, <3>1
    <3>2. CASE x # t
      BY <1>3, <2>3, <3>0, <3>2
    <3> QED
      BY <3>1, <3>2
  <2>5. LineOK'
    <3>1. tab' \in [Request -> Tab \cup {NoTab}] /\ ReadyHasTab'
      BY <1>3, <2>1, ConstantsAssumption DEF IInv, LineOK, ReadyHasTab
    <3> QED
      BY <1>3, <2>3, <2>4, <3>1 DEF IInv, LineOK
  <2>6. TurnsOK'
    BY <1>3, <2>1 DEF IInv, LineOK, TurnsOK, OneRunningPerTab
  <2>7. CallersOK'
    BY <1>3, <2>1 DEF IInv, LineOK, TurnsOK, CallersOK, SlotAccountedFor,
                      RunningHasAccess, Route
  <2> QED
    BY <1>1, <2>5, <2>6, <2>7, Assemble
<1> QED
  BY <1>2, <1>3 DEF Route, ScheduleMutation

\* A reported tab may free the line behind it.
LEMMA ReadyStep ==
    ASSUME IInv, NEW r \in Request, NEW b \in Tab \cup {NoTab}, MutationReady(r, b)
    PROVE  IInv'
<1>1. r \in entries \ ready
  BY DEF MutationReady
<1>2. CASE b \in Tab /\ tab[r] \in {NoTab, b}
  <2>1. /\ tab' = [tab EXCEPT ![r] = b] /\ ready' = ready \cup {r}
        /\ UNCHANGED <<peers, access, identified, pending, marked, count, entries,
                       queue, canceled, storing, unsettled, walking>>
        /\ GrantMutations(Target[r])
    BY <1>2 DEF MutationReady
  <2>2. Target[r] \in Extension
    BY ConstantsAssumption
  <2>3. LineOK'
    BY <1>1, <1>2, <2>1 DEF IInv, LineOK, ReadyHasTab, QueueHoldsEntries
  <2>4. /\ canceled' = canceled \cap entries'
        /\ \A s \in granted \cap entries' : tab'[s] = tab[s]
    BY <1>1, <2>1 DEF IInv, LineOK, TurnsOK
  <2>5. TurnsOK' /\ PassDone(Target[r])
    BY <2>1, <2>2, <2>3, <2>4, PassStep
  <2>6. CallersOK'
    BY <2>1, <2>5 DEF IInv, LineOK, CallersOK, SlotAccountedFor, RunningHasAccess,
                      TurnsOK, PassDone
  <2>7. RestOK'
    BY <2>1 DEF IInv, TypeOK, RestOK
  <2> QED
    BY <2>3, <2>5, <2>6, <2>7, Assemble
<1>3. CASE r \in pending /\ Finish(r) /\ UNCHANGED <<peers, access>>
  <2>1. UNCHANGED <<identified, storing, unsettled, walking>>
    BY DEF MutationReady
  <2>2. /\ LineOK' /\ TurnsOK' /\ CallersOK'
        /\ pending' \subseteq Request /\ count' \in [Agent -> Int]
        /\ marked' \subseteq pending'
    BY <1>3, <2>1, FinishStep
  <2>3. RestOK'
    BY <1>3, <2>1, <2>2 DEF IInv, TypeOK, RestOK
  <2> QED
    BY <2>2, <2>3, Assemble
<1> QED
  BY <1>2, <1>3 DEF MutationReady

\* Steps that are finish() and little else.
LEMMA FinishingStep ==
    ASSUME IInv, NEW r \in Request, Finish(r), r \in pending,
           storing' \subseteq storing, storing \subseteq storing' \cup {r},
           unsettled' \subseteq unsettled,
           UNCHANGED <<peers, access, identified, walking>>
    PROVE  IInv'
<1>1. /\ LineOK' /\ TurnsOK' /\ CallersOK'
      /\ pending' \subseteq Request /\ count' \in [Agent -> Int]
      /\ marked' \subseteq pending'
  BY FinishStep
<1>2. RestOK'
  BY <1>1 DEF IInv, TypeOK, RestOK
<1> QED
  BY <1>1, <1>2, Assemble

\* Steps that remove an entry, or have none to remove, when r's answer is in.
LEMMA ReleasingStep ==
    ASSUME IInv, NEW r \in Request,
           IF r \in entries THEN RemoveMutation(r) ELSE UNCHANGED scheduler,
           RestOK', pending' \subseteq pending, pending \ pending' \subseteq {r},
           marked' \subseteq marked, r \in marked' => r \in storing',
           storing \subseteq storing', UNCHANGED <<access, walking>>
    PROVE  IInv'
<1>1. CASE r \in entries
  <2>1. LineOK' /\ TurnsOK' /\ CallersOK'
    BY <1>1, RemovedCallers
  <2> QED
    BY <2>1, Assemble
<1>2. CASE r \notin entries
  <2>1. LineOK' /\ TurnsOK'
    BY <1>2 DEF IInv, scheduler, LineOK, ReadyHasTab, QueueHoldsEntries, TurnsOK,
                OneRunningPerTab
  <2>2. CallersOK'
    BY <1>2 DEF IInv, scheduler, CallersOK, SlotAccountedFor, RunningHasAccess
  <2> QED
    BY <2>1, <2>2, Assemble
<1> QED
  BY <1>1, <1>2

LEMMA AccessGrantedStep == ASSUME IInv, NEW t \in Extension, AccessGranted(t) PROVE IInv'
<1> USE DEF AccessGranted
<1>1. LineOK'
  BY DEF IInv, LineOK, ReadyHasTab, QueueHoldsEntries
<1>2. canceled' = canceled \cap entries'
  BY DEF IInv, LineOK, TurnsOK
<1>3. TurnsOK' /\ PassDone(t)
  BY <1>1, <1>2, PassStep
<1>4. access' \in [Extension -> BOOLEAN] /\ \A x \in Extension : access[x] => access'[x]
  BY DEF IInv, TypeOK
<1>5. CallersOK'
  <2>1. SlotAccountedFor'
    BY DEF IInv, CallersOK, SlotAccountedFor
  <2>2. RunningHasAccess'
    BY <1>3, <1>4, ConstantsAssumption
       DEF IInv, LineOK, TurnsOK, CallersOK, RunningHasAccess, PassDone
  <2> QED
    BY <2>1, <2>2 DEF CallersOK
<1>6. RestOK'
  BY <1>4 DEF IInv, TypeOK, RestOK
<1> QED
  BY <1>1, <1>3, <1>5, <1>6, Assemble

\* What stays in line when an extension has gone is untouched.
LEMMA DisconnectDoneStep == ASSUME IInv, DisconnectDone PROVE IInv'
<1> DEFINE Kept(S) == {r \in S : Target[r] # walking}
<1>1. /\ entries' = Kept(entries) /\ ready' = Kept(ready)
      /\ granted' = Kept(granted) /\ canceled' = Kept(canceled)
      /\ queue' = [t \in Extension |-> IF t = walking THEN <<>> ELSE queue[t]]
      /\ tab' = [r \in Request |-> IF Target[r] = walking THEN NoTab ELSE tab[r]]
      /\ \A r \in pending : Target[r] # walking
      /\ walking' = NoPeer /\ walking # NoPeer /\ walking \notin peers
      /\ UNCHANGED <<peers, access, identified, pending, marked, count, storing,
                     unsettled>>
  BY DEF DisconnectDone, MutexFree
<1>2. QueueHoldsEntries'
  <2> SUFFICES ASSUME NEW x \in Extension
               PROVE  /\ ToSet(queue'[x]) = {s \in entries' : Target[s] = x}
                      /\ IsInjective(queue'[x])
    BY DEF QueueHoldsEntries
  <2>1. /\ ToSet(queue[x]) = {s \in entries : Target[s] = x}
        /\ IsInjective(queue[x])
    BY DEF IInv, LineOK, QueueHoldsEntries
  <2>2. CASE x = walking
    <3>1. queue'[x] = <<>> /\ {s \in entries' : Target[s] = x} = {}
      BY <1>1, <2>2
    <3> QED
      BY <3>1 DEF ToSet, IsInjective
  <2>3. CASE x # walking
    BY <1>1, <2>1, <2>3
  <2> QED
    BY <2>2, <2>3
<1>3. queue' \in [Extension -> Seq(Request)]
  <2> SUFFICES ASSUME NEW x \in Extension
               PROVE  (IF x = walking THEN <<>> ELSE queue[x]) \in Seq(Request)
    BY <1>1
  <2>1. queue[x] \in Seq(Request) /\ <<>> \in Seq(Request)
    BY DEF IInv, LineOK
  <2> QED
    BY <2>1
<1>4. LineOK'
  BY <1>1, <1>2, <1>3 DEF IInv, LineOK, ReadyHasTab
<1>5. TurnsOK'
  BY <1>1 DEF IInv, LineOK, TurnsOK, OneRunningPerTab
<1>6. CallersOK'
  BY <1>1, ConstantsAssumption
     DEF IInv, TypeOK, CallersOK, SlotAccountedFor, RunningHasAccess
<1>7. RestOK'
  BY <1>1 DEF IInv, TypeOK, RestOK
<1> QED
  BY <1>4, <1>5, <1>6, <1>7, Assemble

\* No work runs unwanted when the loop of revokeMutations is through.
LEMMA RevokeDoneStep == ASSUME IInv, RevokeDone PROVE IInv'
<1>1. LineOK' /\ TurnsOK'
  BY DEF RevokeDone, IInv, scheduler, LineOK, ReadyHasTab, QueueHoldsEntries, TurnsOK,
         OneRunningPerTab
<1>2. SlotAccountedFor'
  BY DEF RevokeDone, IInv, scheduler, CallersOK, SlotAccountedFor
<1>3. RunningHasAccess'
  BY DEF RevokeDone, IInv, scheduler, LineOK, TurnsOK, CallersOK, SlotAccountedFor,
         RunningHasAccess
<1>4. RestOK'
  BY DEF RevokeDone, IInv, TypeOK, RestOK
<1> QED
  BY <1>1, <1>2, <1>3, <1>4, Assemble DEF CallersOK

\* Handlers that leave the scheduler, d.pending and the executor alone.
LEMMA QuietIInv ==
    ASSUME IInv, UNCHANGED <<pending, marked, count, scheduler, storing>>, RestOK',
           \A t \in Extension : access[t] \/ walking = t => access'[t] \/ walking' = t
    PROVE  IInv'
<1>1. LineOK' /\ TurnsOK' /\ CallersOK'
  BY QuietStep
<1> QED
  BY <1>1, Assemble

LEMMA SchedulerNext == IInv /\ [Next]_vars => IInv'
<1> SUFFICES ASSUME IInv, [Next]_vars PROVE IInv'
  OBVIOUS
<1>1. CASE \E p \in Agent \cup Extension : Connect(p)
  <2>1. RestOK' /\ UNCHANGED <<access, pending, marked, count, scheduler, storing, walking>>
    BY <1>1 DEF Connect, IInv, TypeOK, RestOK
  <2> QED
    BY <2>1, QuietIInv
<1>18. CASE \E t \in Extension : Identity(t)
  <2>1. RestOK' /\ UNCHANGED <<access, pending, marked, count, scheduler, storing, walking>>
    BY <1>18 DEF Identity, IInv, TypeOK, RestOK
  <2> QED
    BY <2>1, QuietIInv
<1>2. CASE \E t \in Extension : AccessGranted(t)
  BY <1>2, AccessGrantedStep
<1>3. CASE \E t \in Extension : AccessRevoked(t)
  <2> PICK t \in Extension : AccessRevoked(t)
    BY <1>3
  <2>1. RestOK' /\ UNCHANGED <<pending, marked, count, scheduler, storing>>
    BY DEF AccessRevoked, IInv, TypeOK, RestOK
  <2>2. \A x \in Extension : access[x] \/ walking = x => access'[x] \/ walking' = x
    BY ConstantsAssumption DEF AccessRevoked, MutexFree, IInv, TypeOK
  <2> QED
    BY <2>1, <2>2, QuietIInv
<1>4. CASE \E r \in Request : RevokeRequest(r)
  BY <1>4, FinishingStep DEF RevokeRequest
<1>5. CASE RevokeDone
  BY <1>5, RevokeDoneStep
<1>6. CASE \E p \in Agent \cup Extension : Disconnect(p)
  <2> PICK p \in Agent \cup Extension : Disconnect(p)
    BY <1>6
  <2>1. RestOK' /\ UNCHANGED <<pending, marked, count, scheduler, storing>>
    BY DEF Disconnect, IInv, TypeOK, RestOK
  <2>2. \A x \in Extension : access[x] \/ walking = x => access'[x] \/ walking' = x
    BY ConstantsAssumption DEF Disconnect, MutexFree, IInv, TypeOK
  <2> QED
    BY <2>1, <2>2, QuietIInv
<1>7. CASE \E r \in Request : Route(r)
  BY <1>7, RouteStep
<1>8. CASE \E r \in Request : Cancel(r) \/ Timeout(r)
  BY <1>8, FinishingStep DEF Cancel, Timeout
<1>9. CASE \E r \in Request, b \in Tab \cup {NoTab} : MutationReady(r, b)
  BY <1>9, ReadyStep
<1>10. CASE \E r \in Request : LateResponse(r)
  <2> PICK r \in Request : LateResponse(r)
    BY <1>10
  <2>1. RestOK' /\ UNCHANGED <<access, pending, marked, storing, walking>> /\ r \notin pending
    BY DEF LateResponse, IInv, TypeOK, RestOK
  <2>2. IF r \in entries THEN RemoveMutation(r) ELSE UNCHANGED scheduler
    BY DEF LateResponse
  <2> QED
    BY <2>1, <2>2, ReleasingStep DEF IInv, TypeOK
<1>11. CASE \E r \in Request : MalformedResponse(r)
  BY <1>11, FinishingStep DEF MalformedResponse
<1>12. CASE \E r \in Request, stored \in BOOLEAN : Response(r, stored)
  <2> PICK r \in Request, stored \in BOOLEAN : Response(r, stored)
    BY <1>12
  <2>1. /\ RestOK' /\ UNCHANGED <<access, walking>>
        /\ pending' \subseteq pending /\ pending \ pending' \subseteq {r}
        /\ marked' \subseteq marked /\ (r \in marked' => r \in storing')
        /\ storing \subseteq storing'
    BY ConstantsAssumption DEF Response, IInv, TypeOK, RestOK
  <2>2. IF r \in entries THEN RemoveMutation(r) ELSE UNCHANGED scheduler
    BY DEF Response
  <2> QED
    BY <2>1, <2>2, ReleasingStep
<1>13. CASE \E r \in Request : Stored(r)
  <2> PICK r \in Request : Stored(r)
    BY <1>13
  <2>1. CASE r \in pending
    BY <2>1, FinishingStep DEF Stored
  <2>2. CASE r \notin pending
    <3>1. /\ UNCHANGED <<peers, access, identified, pending, marked, count, unsettled,
                         walking, scheduler>>
          /\ storing' = storing \ {r}
      BY <2>2 DEF Stored
    <3>2. LineOK' /\ TurnsOK'
      BY <3>1 DEF IInv, scheduler, LineOK, ReadyHasTab, QueueHoldsEntries, TurnsOK,
                  OneRunningPerTab
    <3>3. CallersOK'
      BY <2>2, <3>1
         DEF IInv, TypeOK, scheduler, CallersOK, SlotAccountedFor, RunningHasAccess
    <3>4. RestOK'
      BY <3>1 DEF IInv, TypeOK, RestOK
    <3> QED
      BY <3>2, <3>3, <3>4, Assemble
  <2> QED
    BY <2>1, <2>2
<1>14. CASE \E r \in Request : Expire(r)
  <2> PICK r \in Request : Expire(r)
    BY <1>14
  <2>1. /\ RestOK' /\ UNCHANGED <<access, pending, marked, storing, walking>>
        /\ r \in entries /\ r \notin pending /\ RemoveMutation(r)
    BY DEF Expire, IInv, TypeOK, RestOK, CallersOK, SlotAccountedFor
  <2> QED
    BY <2>1, ReleasingStep DEF IInv, TypeOK
<1>15. CASE \E r \in Request : AbandonRequest(r)
  BY <1>15, FinishingStep DEF AbandonRequest
<1>16. CASE DisconnectDone
  BY <1>16, DisconnectDoneStep
<1>17. CASE UNCHANGED vars
  <2>1. RestOK' /\ UNCHANGED <<access, pending, marked, count, scheduler, storing, walking>>
    BY <1>17 DEF vars, scheduler, IInv, TypeOK, RestOK
  <2> QED
    BY <2>1, QuietIInv
<1> QED
  BY <1>1, <1>2, <1>3, <1>4, <1>5, <1>6, <1>7, <1>8, <1>9, <1>10, <1>11, <1>12, <1>13,
     <1>14, <1>15, <1>16, <1>17, <1>18 DEF Next

\* The inductive invariant holds in every behaviour of the scheduler.
LEMMA Invariant == Spec => []IInv
  BY SchedulerInit, SchedulerNext, PTL DEF Spec

-----------------------------------------------------------------------------
(* The scheduler gives turns as TabTurns promises. *)

\* What one step may do to the turns.
TurnStep ==
    /\ \A r \in granted \cap granted' : tab'[r] = tab[r]
    /\ canceled \cap granted' \subseteq canceled'
    /\ canceled' \subseteq granted
    /\ \A r \in granted' \ granted, s \in canceled' :
          Target[s] = Target[r] /\ tab'[s] = tab'[r] => PreemptsCanceled(r)

LEMMA RemoveTurn ==
    ASSUME IInv, NEW r \in entries, RemoveMutation(r) PROVE TurnStep
<1>1. /\ TurnsOK' /\ LineOK' /\ PassDone(Target[r])
      /\ entries' = entries \ {r} /\ canceled' = canceled \ {r}
  BY RemoveStep
<1>2. \A s \in entries' : tab'[s] = tab[s]
  BY <1>1 DEF RemoveMutation, IInv, LineOK
<1>3. canceled' \subseteq granted
  BY <1>1 DEF IInv, TurnsOK
<1> QED
  BY <1>1, <1>2, <1>3 DEF TurnStep, PassDone, TurnsOK, LineOK

LEMMA QuietTurn ==
    ASSUME IInv, granted' \subseteq granted, canceled \cap granted' \subseteq canceled',
           canceled' \subseteq granted, \A r \in granted \cap granted' : tab'[r] = tab[r]
    PROVE  TurnStep
  BY DEF TurnStep

LEMMA SameTurn == ASSUME IInv, UNCHANGED scheduler PROVE TurnStep
  BY QuietTurn DEF IInv, TurnsOK, scheduler

LEMMA FinishTurn == ASSUME IInv, NEW r, Finish(r) PROVE TurnStep
<1>1. CASE UNCHANGED scheduler
  BY <1>1, SameTurn
<1>2. CASE r \in entries /\ RemoveMutation(r)
  BY <1>2, RemoveTurn
<1>3. CASE /\ r \in entries \cap granted
           /\ canceled' = canceled \cup {r}
           /\ UNCHANGED <<entries, queue, tab, ready, granted>>
  BY <1>3, QuietTurn DEF IInv, TurnsOK
<1> QED
  BY <1>1, <1>2, <1>3 DEF Finish, CancelMutation

LEMMA EveryTurnStep == IInv /\ [Next]_vars => TurnStep
<1> SUFFICES ASSUME IInv, [Next]_vars PROVE TurnStep
  OBVIOUS
<1>1. CASE \E t \in Extension : AccessGranted(t)
  <2> PICK t \in Extension : AccessGranted(t)
    BY <1>1
  <2>1. LineOK' /\ canceled' = canceled \cap entries'
    BY DEF AccessGranted, IInv, LineOK, ReadyHasTab, QueueHoldsEntries, TurnsOK
  <2>2. TurnsOK' /\ PassDone(t)
    BY <2>1, PassStep DEF AccessGranted
  <2> QED
    BY <2>2 DEF AccessGranted, TurnStep, PassDone, IInv, TurnsOK
<1>2. CASE \E r \in Request, b \in Tab \cup {NoTab} : MutationReady(r, b)
  <2> PICK r \in Request, b \in Tab \cup {NoTab} : MutationReady(r, b)
    BY <1>2
  <2>1. CASE Finish(r)
    BY <2>1, FinishTurn
  <2>2. CASE /\ b \in Tab /\ tab[r] \in {NoTab, b}
             /\ tab' = [tab EXCEPT ![r] = b] /\ ready' = ready \cup {r}
             /\ UNCHANGED <<entries, queue, canceled>>
             /\ GrantMutations(Target[r])
    <3>1. r \in entries \ ready /\ Target[r] \in Extension
      BY ConstantsAssumption DEF MutationReady
    <3>2. LineOK'
      BY <2>2, <3>1 DEF IInv, LineOK, ReadyHasTab, QueueHoldsEntries
    <3>3. /\ canceled' = canceled \cap entries'
          /\ \A s \in granted \cap entries' : tab'[s] = tab[s]
      BY <2>2, <3>1 DEF IInv, LineOK, TurnsOK
    <3>4. TurnsOK' /\ PassDone(Target[r])
      BY <2>2, <3>1, <3>2, <3>3, PassStep
    <3> QED
      BY <2>2, <3>2, <3>3, <3>4 DEF TurnStep, PassDone, IInv, LineOK, TurnsOK
  <2> QED
    BY <2>1, <2>2 DEF MutationReady
<1>3. CASE \E r \in Request : Route(r)
  <2> PICK r \in Request : Route(r)
    BY <1>3
  <2>1. UNCHANGED <<granted, canceled>> /\ \A s \in granted : tab'[s] = tab[s]
    BY DEF Route, ScheduleMutation, scheduler, IInv, LineOK, TurnsOK
  <2> QED
    BY <2>1, QuietTurn DEF IInv, TurnsOK
<1>4. CASE DisconnectDone
  <2>1. /\ granted' = {r \in granted : Target[r] # walking}
        /\ canceled' = {r \in canceled : Target[r] # walking}
        /\ \A s \in granted' : tab'[s] = tab[s]
    BY <1>4 DEF DisconnectDone, IInv, LineOK, TurnsOK
  <2> QED
    BY <2>1, QuietTurn DEF IInv, TurnsOK
<1>5. CASE \E r \in Request : \/ RevokeRequest(r) \/ Cancel(r) \/ Timeout(r)
                               \/ MalformedResponse(r) \/ AbandonRequest(r)
  BY <1>5, FinishTurn DEF RevokeRequest, Cancel, Timeout, MalformedResponse, AbandonRequest
<1>6. CASE \E r \in Request : \/ LateResponse(r) \/ Stored(r) \/ Expire(r)
                               \/ \E stored \in BOOLEAN : Response(r, stored)
  <2> PICK r \in Request : \/ LateResponse(r) \/ Stored(r) \/ Expire(r)
                           \/ \E stored \in BOOLEAN : Response(r, stored)
    BY <1>6
  <2>1. \/ r \in entries /\ RemoveMutation(r)
        \/ Finish(r)
        \/ UNCHANGED scheduler
    BY DEF LateResponse, Stored, Expire, Response
  <2> QED
    BY <2>1, RemoveTurn, FinishTurn, SameTurn
<1>7. CASE \/ \E p \in Agent \cup Extension : Connect(p) \/ Disconnect(p)
           \/ \E t \in Extension : AccessRevoked(t) \/ Identity(t)
           \/ RevokeDone
           \/ UNCHANGED vars
  <2>1. UNCHANGED scheduler
    BY <1>7 DEF Connect, Disconnect, AccessRevoked, Identity, RevokeDone, vars, scheduler
  <2> QED
    BY <2>1, SameTurn
<1> QED
  BY <1>1, <1>2, <1>3, <1>4, <1>5, <1>6, <1>7 DEF Next

LEMMA TurnsInit == Init => Turns!Init
  BY DEF Init, Turns!Init, At, Place

LEMMA TurnsNext ==
    IInv /\ IInv' /\ [Next]_vars => [Turns!Next]_Turns!vars
<1> SUFFICES ASSUME IInv, IInv', TurnStep PROVE Turns!Next
  BY EveryTurnStep
<1>1. /\ granted \subseteq Request /\ canceled \subseteq Request
      /\ granted' \subseteq Request /\ canceled' \subseteq granted'
      /\ canceled \subseteq granted
  BY DEF IInv, LineOK, TurnsOK
<1> DEFINE running == At(granted \ canceled)
           draining == At(canceled)
<1>2. ASSUME NEW p \in Place
      PROVE  /\ running[p] = {r \in granted \ canceled : Target[r] = p[1] /\ tab[r] = p[2]}
             /\ running'[p] = {r \in granted' \ canceled' : Target[r] = p[1] /\ tab'[r] = p[2]}
             /\ draining[p] = {r \in canceled : Target[r] = p[1] /\ tab[r] = p[2]}
             /\ draining'[p] = {r \in canceled' : Target[r] = p[1] /\ tab'[r] = p[2]}
  BY DEF At, Place
<1>3. running' \in [Place -> SUBSET Request] /\ draining' \in [Place -> SUBSET Request]
  BY <1>1 DEF At, Place
<1> HIDE DEF running, draining
<1>4. ASSUME NEW p \in Place
      PROVE  /\ running'[p] \subseteq running[p]
                \/ \E w \in Request :
                      /\ running'[p] = {w}
                      /\ w \notin running[p] \cup draining[p]
                      /\ draining'[p] = {} \/ PreemptsCanceled(w)
             /\ draining'[p] \subseteq draining[p] \cup running[p]
             /\ running'[p] \cap draining'[p] = {}
             /\ running'[p] \cap draining[p] = {}
  <2>1. draining'[p] \subseteq draining[p] \cup running[p]
    BY <1>1, <1>2 DEF TurnStep
  <2>2. running'[p] \cap draining'[p] = {} /\ running'[p] \cap draining[p] = {}
    BY <1>1, <1>2 DEF TurnStep
  <2>3. CASE running'[p] \subseteq granted
    BY <1>1, <1>2, <2>1, <2>2, <2>3 DEF TurnStep
  <2>4. CASE \E w \in running'[p] : w \notin granted
    <3> PICK w \in running'[p] : w \notin granted
      BY <2>4
    <3>1. w \in Request /\ w \notin running[p] \cup draining[p]
      BY <1>1, <1>2
    <3>2. running'[p] = {w}
      BY <1>2 DEF IInv, TurnsOK, OneRunningPerTab
    <3>3. draining'[p] = {} \/ PreemptsCanceled(w)
      BY <1>1, <1>2 DEF TurnStep
    <3> QED
      BY <2>1, <2>2, <3>1, <3>2, <3>3
  <2> QED
    BY <2>3, <2>4
<1> QED
  BY <1>3, <1>4 DEF Turns!Next, Turns!PlaceStep, Turns!NoStart, Turns!Start, Turns!Drain,
                    running, draining

-----------------------------------------------------------------------------
(* Theorems. *)

\* Every table of the router keeps its type, and the flags of an entry are set
\* in their order: canceled work was granted, granted work was ready.
THEOREM TypeCorrect == Spec => []TypeOK
<1>1. IInv => TypeOK
  BY DEF IInv
<1> QED
  BY Invariant, <1>1, PTL

\* On no tab of any browser do two uncanceled mutations run at a time, for any
\* number of agents and whatever is canceled, times out, expires, loses access
\* or disconnects.
THEOREM MutualExclusion == Spec => []OneRunningPerTab
<1>1. IInv => OneRunningPerTab
  BY DEF IInv, TurnsOK
<1> QED
  BY Invariant, <1>1, PTL

\* The queues and the map of entries never drift apart.
THEOREM QueuesConsistent == Spec => []QueueHoldsEntries
<1>1. IInv => QueueHoldsEntries
  BY DEF IInv, LineOK
<1> QED
  BY Invariant, <1>1, PTL

\* Every reservation has a waiting caller or an armed expiry timer, so none
\* can be leaked; and no scheduled request loses its place while it is pending.
THEOREM NoSlotLeaks == Spec => []SlotAccountedFor
<1>1. IInv => SlotAccountedFor
  BY DEF IInv, CallersOK
<1> QED
  BY Invariant, <1>1, PTL

\* Nothing uncanceled runs in a window whose access has been withdrawn.
THEOREM AccessRespected == Spec => []RunningHasAccess
<1>1. IInv => RunningHasAccess
  BY DEF IInv, CallersOK
<1> QED
  BY Invariant, <1>1, PTL

\* The scheduler implements TabTurns: at every tab of every browser, turns are
\* given one at a time, only running work starts to drain, drained work never
\* runs again, and beside draining work only a navigation starts.
THEOREM Refinement == Spec => TurnsKept
<1>1. Spec => Turns!Init /\ [][Turns!Next]_Turns!vars
  BY Invariant, TurnsInit, TurnsNext, PTL DEF Spec
<1> QED
  BY <1>1 DEF TurnsKept, Turns!Spec

\* One of a set of numbers comes first.
LEMMA LeastElement ==
    ASSUME NEW S, S \subseteq Nat, S # {}
    PROVE  \E i \in S : \A j \in S : i <= j
<1>1. \E i \in S : \A j \in S : ~(<<j, i>> \in OpToRel(<, Nat))
  BY NatLessThanWellFounded, WFMin, Zenon
<1>2. \A i, j \in Nat : <<i, j>> \in OpToRel(<, Nat) <=> i < j
  BY DEF OpToRel
<1>3. \E i \in S : \A j \in S : ~(j < i)
  BY <1>1, <1>2, Zenon
<1> QED
  BY <1>3

-----------------------------------------------------------------------------
(* The counter of a peer's requests. *)

\* Cardinality only counts finite sets.
Counted == IsFiniteSet(pending) /\ PendingCounted

LEMMA ForgottenCounted ==
    ASSUME TypeOK, Counted, NEW r \in pending, pending' = pending \ {r},
           count' = [count EXCEPT ![Owner[r]] = @ - 1]
    PROVE  Counted'
<1> DEFINE Of(p) == {q \in pending : Owner[q] = p}
<1>1. r \in Request /\ Owner[r] \in Agent /\ count \in [Agent -> Int]
  BY ConstantsAssumption DEF TypeOK
<1>2. IsFiniteSet(pending') /\ \A p \in Agent : IsFiniteSet(Of(p))
  BY FS_Subset, FS_RemoveElement DEF Counted
<1>3. ASSUME NEW p \in Agent
      PROVE  count'[p] = Cardinality({q \in pending' : Owner[q] = p})
  <2>1. count[p] = Cardinality(Of(p))
    BY DEF Counted, PendingCounted
  <2>2. CASE p = Owner[r]
    <3>1. {q \in pending' : Owner[q] = p} = Of(p) \ {r} /\ r \in Of(p)
      BY <2>2
    <3>2. Cardinality(Of(p) \ {r}) = Cardinality(Of(p)) - 1
      BY <1>2, <3>1, FS_RemoveElement
    <3> QED
      BY <1>1, <2>1, <2>2, <3>1, <3>2
  <2>3. CASE p # Owner[r]
    <3>1. {q \in pending' : Owner[q] = p} = Of(p)
      BY <2>3
    <3> QED
      BY <1>1, <2>1, <2>3, <3>1
  <2> QED
    BY <2>2, <2>3
<1> QED
  BY <1>2, <1>3 DEF Counted, PendingCounted

LEMMA AcceptedCounted ==
    ASSUME TypeOK, Counted, NEW r \in Request \ pending, pending' = pending \cup {r},
           count' = [count EXCEPT ![Owner[r]] = @ + 1]
    PROVE  Counted'
<1> DEFINE Of(p) == {q \in pending : Owner[q] = p}
<1>1. Owner[r] \in Agent /\ count \in [Agent -> Int]
  BY ConstantsAssumption DEF TypeOK
<1>2. IsFiniteSet(pending') /\ \A p \in Agent : IsFiniteSet(Of(p))
  BY FS_Subset, FS_AddElement DEF Counted
<1>3. ASSUME NEW p \in Agent
      PROVE  count'[p] = Cardinality({q \in pending' : Owner[q] = p})
  <2>1. count[p] = Cardinality(Of(p))
    BY DEF Counted, PendingCounted
  <2>2. CASE p = Owner[r]
    <3>1. {q \in pending' : Owner[q] = p} = Of(p) \cup {r} /\ r \notin Of(p)
      BY <2>2
    <3>2. Cardinality(Of(p) \cup {r}) = Cardinality(Of(p)) + 1
      BY <1>2, <3>1, FS_AddElement
    <3> QED
      BY <1>1, <2>1, <2>2, <3>1, <3>2
  <2>3. CASE p # Owner[r]
    <3>1. {q \in pending' : Owner[q] = p} = Of(p)
      BY <2>3
    <3> QED
      BY <1>1, <2>1, <2>3, <3>1
  <2> QED
    BY <2>2, <2>3
<1> QED
  BY <1>2, <1>3 DEF Counted, PendingCounted

LEMMA SameCounted ==
    ASSUME Counted, UNCHANGED <<pending, count>> PROVE Counted'
  BY DEF Counted, PendingCounted

LEMMA CountedInit == Init => Counted
<1> SUFFICES ASSUME Init PROVE Counted
  OBVIOUS
<1>1. IsFiniteSet({}) /\ Cardinality({}) = 0
  BY FS_EmptySet
<1>2. \A p \in Agent : {r \in pending : Owner[r] = p} = {} /\ count[p] = 0
  BY DEF Init
<1> QED
  BY <1>1, <1>2 DEF Init, Counted, PendingCounted

LEMMA CountedNext == IInv /\ Counted /\ [Next]_vars => Counted'
<1> SUFFICES ASSUME IInv, Counted, [Next]_vars PROVE Counted'
  OBVIOUS
<1>0. TypeOK
  BY DEF IInv
<1>1. CASE \E r \in Request : Route(r)
  BY <1>0, <1>1, AcceptedCounted DEF Route
<1>2. CASE \E r \in pending : Finish(r)
  BY <1>0, <1>2, ForgottenCounted DEF Finish
<1>3. CASE \E r \in Request : Response(r, FALSE)
  BY <1>0, <1>3, ForgottenCounted DEF Response
<1>4. CASE UNCHANGED <<pending, count>>
  BY <1>4, SameCounted
<1>5. \/ \E r \in Request : Route(r)
      \/ \E r \in pending : Finish(r)
      \/ \E r \in Request : Response(r, FALSE)
      \/ UNCHANGED <<pending, count>>
  <2>1. CASE \E r \in Request : \/ RevokeRequest(r) \/ Cancel(r) \/ Timeout(r)
                                 \/ MalformedResponse(r) \/ AbandonRequest(r) \/ Stored(r)
    BY <2>1 DEF RevokeRequest, Cancel, Timeout, MalformedResponse, AbandonRequest, Stored
  <2>2. CASE \E r \in Request, b \in Tab \cup {NoTab} : MutationReady(r, b)
    BY <2>2 DEF MutationReady
  <2>3. CASE \E r \in Request, stored \in BOOLEAN : Response(r, stored)
    BY <2>3 DEF Response
  <2>4. CASE \E r \in Request : LateResponse(r) \/ Expire(r)
    BY <2>4 DEF LateResponse, Expire
  <2>5. CASE \/ \E p \in Agent \cup Extension : Connect(p) \/ Disconnect(p)
             \/ \E t \in Extension : AccessGranted(t) \/ AccessRevoked(t) \/ Identity(t)
             \/ RevokeDone \/ DisconnectDone \/ UNCHANGED vars
    BY <2>5 DEF Connect, Disconnect, AccessGranted, AccessRevoked, Identity, RevokeDone,
                DisconnectDone, vars
  <2> QED
    BY <2>1, <2>2, <2>3, <2>4, <2>5 DEF Next
<1> QED
  BY <1>1, <1>2, <1>3, <1>4, <1>5

LEMMA AlwaysCounted == Spec => []Counted
  BY CountedInit, CountedNext, Invariant, PTL DEF Spec

\* The whole of a reservation agrees.
THEOREM ReservationsAgree == Spec => []ReservationsKept
<1>1. IInv /\ Counted => ReservationsKept
  BY DEF IInv, LineOK, CallersOK, Counted, ReservationsKept
<1> QED
  BY <1>1, Invariant, AlwaysCounted, PTL

-----------------------------------------------------------------------------
(* Slots. *)

SlotStep ==
    \A r \in granted \ granted' :
        r \in canceled \/ r \in unsettled \ unsettled' \/ Target[r] \notin peers'

LEMMA RemoveSlot ==
    ASSUME IInv, NEW r \in entries, RemoveMutation(r)
    PROVE  granted \ granted' \subseteq {r}
<1>1. PassDone(Target[r]) /\ entries' = entries \ {r}
  BY RemoveStep
<1> QED
  BY <1>1 DEF PassDone, IInv, LineOK, TurnsOK

LEMMA FinishSlot ==
    ASSUME IInv, NEW r, Finish(r) PROVE granted \subseteq granted'
<1>1. CASE r \in entries \ granted /\ RemoveMutation(r)
  BY <1>1, RemoveSlot
<1> QED
  BY <1>1 DEF Finish, CancelMutation, scheduler

LEMMA EverySlotStep == IInv /\ [Next]_vars => SlotStep
<1> SUFFICES ASSUME IInv, [Next]_vars PROVE SlotStep
  OBVIOUS
<1>1. CASE \E r \in Request : \/ RevokeRequest(r) \/ Cancel(r) \/ Timeout(r)
                               \/ MalformedResponse(r) \/ AbandonRequest(r)
  BY <1>1, FinishSlot
     DEF RevokeRequest, Cancel, Timeout, MalformedResponse, AbandonRequest, SlotStep
<1>2. CASE \E r \in Request : Stored(r)
  BY <1>2, FinishSlot DEF Stored, SlotStep, scheduler
<1>3. CASE \E r \in Request, b \in Tab \cup {NoTab} : MutationReady(r, b)
  BY <1>3, FinishSlot DEF MutationReady, GrantMutations, SlotStep, IInv, LineOK, TurnsOK
<1>4. CASE \E r \in Request : LateResponse(r) \/ \E stored \in BOOLEAN : Response(r, stored)
  <2> PICK r \in Request : LateResponse(r) \/ \E stored \in BOOLEAN : Response(r, stored)
    BY <1>4
  <2>1. r \in unsettled \ unsettled'
    BY DEF LateResponse, Response
  <2>2. (r \in entries /\ RemoveMutation(r)) \/ UNCHANGED scheduler
    BY DEF LateResponse, Response
  <2> QED
    BY <2>1, <2>2, RemoveSlot DEF SlotStep, scheduler
<1>5. CASE \E r \in Request : Expire(r)
  BY <1>5, RemoveSlot DEF Expire, SlotStep
<1>6. CASE \E t \in Extension : AccessGranted(t)
  BY <1>6 DEF AccessGranted, GrantMutations, SlotStep, IInv, LineOK, TurnsOK
<1>7. CASE DisconnectDone
  BY <1>7 DEF DisconnectDone, SlotStep
<1>8. CASE \/ \E r \in Request : Route(r)
           \/ \E p \in Agent \cup Extension : Connect(p) \/ Disconnect(p)
           \/ \E t \in Extension : AccessRevoked(t) \/ Identity(t)
           \/ RevokeDone \/ UNCHANGED vars
  <2>1. UNCHANGED granted
    BY <1>8 DEF Route, ScheduleMutation, Connect, Disconnect, AccessRevoked, Identity,
                RevokeDone, vars, scheduler
  <2> QED
    BY <2>1 DEF SlotStep
<1> QED
  BY <1>1, <1>2, <1>3, <1>4, <1>5, <1>6, <1>7, <1>8 DEF Next

\* Only the browser's answer, the expiry of a canceled slot or the loss of the
\* browser ends a turn.
THEOREM SlotsKept == Spec => SlotKeptUntilSettled
<1>1. Spec => [][SlotStep]_vars
  BY Invariant, EverySlotStep, PTL DEF Spec
<1> QED
  BY <1>1 DEF SlotKeptUntilSettled, SlotStep

-----------------------------------------------------------------------------
(* A pass leaves nothing to do.                                               *)

\* After a pass no entry of its queue is eligible, whatever it granted: on each
\* tab the first eligible entry now holds the tab.
LEMMA PassExhausts ==
    ASSUME NEW q \in Seq(Request), NEW rd, NEW gr, NEW cn, NEW lv, NEW tb, NEW now,
           ToSet(q) \cap gr \subseteq now, Grants(q, rd, gr, cn, lv, tb) \subseteq now,
           now \subseteq gr \cup Grants(q, rd, gr, cn, lv, tb),
           NEW i \in 1..Len(q)
    PROVE  ~Eligible(q, rd, now, cn, lv, tb, i)
<1> DEFINE May(k) == Eligible(q, rd, gr, cn, lv, tb, k)
           Same == {k \in 1..Len(q) : May(k) /\ tb[q[k]] = tb[q[i]]}
           G == Grants(q, rd, gr, cn, lv, tb)
<1>0. DOMAIN q = 1..Len(q) /\ Len(q) \in Nat
  OBVIOUS
<1>1. SUFFICES ASSUME Eligible(q, rd, now, cn, lv, tb, i) PROVE FALSE
  OBVIOUS
<1>2. G \subseteq (rd \cap lv) \ (gr \cup cn)
  BY GrantsSound
<1>3. \A k \in 1..Len(q) : q[k] \in gr => q[k] \in now
  BY <1>0 DEF ToSet
<1> HIDE DEF G
<1>4. May(i)
  <2>0. i \in 1..Len(q) /\ \A j \in 1..(i - 1) : j \in 1..Len(q)
    BY <1>0
  <2>1. q[i] \in (rd \cap lv) \ (gr \cup cn)
    BY <1>1, <1>3 DEF Eligible
  <2>2. ~Held(q, gr \ cn, tb, tb[q[i]])
    BY <1>1, <1>3 DEF Eligible, Held
  <2>3. Held(q, gr \cap cn, tb, tb[q[i]]) => PreemptsCanceled(q[i])
    BY <1>1, <1>3 DEF Eligible, Held
  <2>4. \A j \in 1..(i - 1) : \/ q[j] \in rd \cup gr \cup cn
                               \/ tb[q[j]] \notin {NoTab, tb[q[i]]}
    BY <1>1, <1>2 DEF Eligible, G
  <2> QED
    BY <2>1, <2>2, <2>3, <2>4 DEF Eligible
<1>5. PICK k \in Same : \A j \in Same : k <= j
  <2>1. Same \subseteq Nat /\ i \in Same
    BY <1>0, <1>4
  <2> HIDE DEF Same
  <2> QED
    BY <2>1, LeastElement
<1> HIDE DEF May
<1>6. \A j \in 1..(k - 1) : May(j) => tb[q[j]] # tb[q[k]]
  BY <1>0, <1>5
<1>7. q[k] \in G
  BY <1>5, <1>6 DEF Grants, May, G
<1>8. Held(q, now \ cn, tb, tb[q[i]])
  BY <1>2, <1>5, <1>7 DEF Held, G
<1> QED
  BY <1>1, <1>8 DEF Eligible

\* What may still be waiting at t: work for tabs where canceled work drains.
Drains(t) ==
    t \in peers /\ access[t] =>
        \A i \in 1..Len(queue[t]) :
            Eligible(queue[t], ready, granted, canceled, pending, tab, i) =>
                Held(queue[t], granted \cap canceled, tab, tab[queue[t][i]])

\* The inductive form of NoTurnWasted.  A connection starts without access, so
\* registering one makes nothing eligible.
NothingFree ==
    /\ \A t \in Extension : access[t] => t \in peers
    /\ \A t \in Extension : Drains(t)

LEMMA NothingFreeSuffices == NothingFree => NoTurnWasted
<1> SUFFICES ASSUME NothingFree, NEW t \in Extension, NEW r \in Overdue(t)
             PROVE  PreemptsCanceled(r)
  BY DEF NoTurnWasted
<1>1. /\ t \in peers /\ access[t]
      /\ r \in Grants(queue[t], ready, granted, canceled, pending, tab)
  BY DEF Overdue
<1>2. PICK i \in 1..Len(queue[t]) :
          r = queue[t][i] /\ Eligible(queue[t], ready, granted, canceled, pending, tab, i)
  BY <1>1 DEF Grants
<1>3. Held(queue[t], granted \cap canceled, tab, tab[queue[t][i]])
  BY <1>1, <1>2 DEF NothingFree, Drains
<1> QED
  BY <1>2, <1>3 DEF Eligible

\* A line nobody touches stays as it is: eligibility depends on the flags of the
\* entries in line only, and losing callers makes none eligible.
LEMMA DrainsElsewhere ==
    ASSUME IInv, NEW t \in Extension, Drains(t), queue'[t] = queue[t],
           t \in peers' /\ access'[t] => t \in peers /\ access[t],
           \A e \in ToSet(queue[t]) : /\ e \in ready' <=> e \in ready
                                      /\ e \in granted' <=> e \in granted
                                      /\ e \in canceled' <=> e \in canceled
                                      /\ e \in pending' => e \in pending
                                      /\ tab'[e] = tab[e]
    PROVE  Drains(t)'
<1> SUFFICES ASSUME t \in peers', access'[t], NEW i \in 1..Len(queue[t]),
                    Eligible(queue[t], ready', granted', canceled', pending', tab', i)
             PROVE  Held(queue[t], granted' \cap canceled', tab', tab'[queue[t][i]])
  BY DEF Drains
<1> DEFINE q == queue[t]
<1>1. /\ q \in Seq(Request) /\ Len(q) \in Nat /\ DOMAIN q = 1..Len(q)
      /\ \A j \in 1..(i - 1) : j \in 1..Len(q)
  BY DEF IInv, LineOK
<1>2. \A k \in 1..Len(q) : /\ q[k] \in ready' <=> q[k] \in ready
                           /\ q[k] \in granted' <=> q[k] \in granted
                           /\ q[k] \in canceled' <=> q[k] \in canceled
                           /\ q[k] \in pending' => q[k] \in pending
                           /\ tab'[q[k]] = tab[q[k]]
  BY <1>1 DEF ToSet
<1> HIDE DEF q
<1>3. \A b : /\ Held(q, granted \cap canceled, tab, b)
                    <=> Held(q, granted' \cap canceled', tab', b)
             /\ Held(q, granted \ canceled, tab, b)
                    <=> Held(q, granted' \ canceled', tab', b)
  BY <1>2 DEF Held
<1>4. Eligible(q, ready, granted, canceled, pending, tab, i)
  BY <1>1, <1>2, <1>3 DEF Eligible, q
<1>5. Held(q, granted \cap canceled, tab, tab[q[i]])
  BY <1>4 DEF Drains, q
<1> QED
  BY <1>2, <1>3, <1>5 DEF q

\* A pass over t's line leaves nothing eligible in it.
LEMMA DrainsAfterPass ==
    ASSUME NEW t \in Extension, LineOK', GrantMutations(t)
    PROVE  Drains(t)'
<1> SUFFICES ASSUME t \in peers', access'[t], NEW i \in 1..Len(queue'[t])
             PROVE  ~Eligible(queue'[t], ready', granted', canceled', pending', tab', i)
  BY DEF Drains
<1> DEFINE G == Grants(queue'[t], ready', granted, canceled', pending', tab')
<1>1. granted' = (granted \cap entries') \cup G
  BY DEF GrantMutations, NewGrants
<1>2. queue'[t] \in Seq(Request) /\ ToSet(queue'[t]) \subseteq entries'
  BY DEF LineOK, QueueHoldsEntries
<1>3. ToSet(queue'[t]) \cap granted \subseteq granted' /\ G \subseteq granted'
      /\ granted' \subseteq granted \cup G
  BY <1>1, <1>2
<1> QED
  BY <1>2, <1>3, PassExhausts

LEMMA FreeRemove ==
    ASSUME IInv, NothingFree, NEW r \in entries, RemoveMutation(r),
           pending' \subseteq pending, UNCHANGED <<peers, access>>
    PROVE  NothingFree'
<1> DEFINE t == Target[r]
<1>1. t \in Extension /\ r \in Request
  BY ConstantsAssumption DEF IInv, LineOK
<1>2. /\ LineOK' /\ PassDone(t) /\ TurnsOK'
      /\ entries' = entries \ {r} /\ canceled' = canceled \ {r}
  BY RemoveStep
<1>3. /\ ready' = ready \ {r} /\ tab' = [tab EXCEPT ![r] = NoTab] /\ GrantMutations(t)
      /\ \A x \in Extension \ {t} : queue'[x] = queue[x]
  BY <1>1 DEF RemoveMutation, IInv, LineOK
<1>4. Drains(t)'
  BY <1>1, <1>2, <1>3, DrainsAfterPass
<1>5. ASSUME NEW x \in Extension \ {t} PROVE Drains(x)'
  <2>1. \A e \in ToSet(queue[x]) : e \in Request /\ Target[e] = x /\ e # r
    BY DEF IInv, LineOK, QueueHoldsEntries
  <2>2. \A e \in ToSet(queue[x]) : e \in granted' <=> e \in granted
    BY <1>2, <2>1 DEF PassDone, IInv, LineOK, TurnsOK, QueueHoldsEntries
  <2>3. tab \in [Request -> Tab \cup {NoTab}]
    BY DEF IInv, LineOK
  <2> QED
    BY <1>2, <1>3, <2>1, <2>2, <2>3, DrainsElsewhere DEF NothingFree
<1> QED
  BY <1>4, <1>5 DEF NothingFree

\* Marking a running slot frees its tab for a navigation only.
LEMMA FreeMark ==
    ASSUME IInv, NothingFree, NEW r \in entries \cap granted,
           canceled' = canceled \cup {r}, pending' \subseteq pending,
           UNCHANGED <<peers, access, entries, queue, tab, ready, granted>>
    PROVE  NothingFree'
<1> SUFFICES ASSUME NEW t \in Extension, t \in peers, access[t],
                    NEW i \in 1..Len(queue[t]),
                    Eligible(queue[t], ready, granted, canceled', pending', tab, i)
             PROVE  Held(queue[t], granted \cap canceled', tab, tab[queue[t][i]])
  BY DEF NothingFree, Drains
<1>1. /\ queue[t] \in Seq(Request)
      /\ ToSet(queue[t]) = {e \in entries : Target[e] = t}
  BY DEF IInv, LineOK, QueueHoldsEntries
<1>2. DOMAIN queue[t] = 1..Len(queue[t])
  BY <1>1
<1>3. CASE \E k \in 1..Len(queue[t]) : queue[t][k] = r /\ tab[r] = tab[queue[t][i]]
  BY <1>3 DEF Held
<1>4. CASE ~\E k \in 1..Len(queue[t]) : queue[t][k] = r /\ tab[r] = tab[queue[t][i]]
  <2>1. Eligible(queue[t], ready, granted, canceled, pending, tab, i)
    BY <1>4 DEF Eligible, Held
  <2>2. Held(queue[t], granted \cap canceled, tab, tab[queue[t][i]])
    BY <2>1 DEF NothingFree, Drains
  <2> QED
    BY <2>2 DEF Held
<1> QED
  BY <1>3, <1>4

LEMMA FreeSame ==
    ASSUME IInv, NothingFree, UNCHANGED scheduler,
           \A e \in entries : e \in pending' => e \in pending,
           \A t \in Extension : /\ access'[t] => t \in peers'
                                /\ t \in peers' /\ access'[t] => t \in peers /\ access[t]
    PROVE  NothingFree'
<1>1. ASSUME NEW t \in Extension PROVE Drains(t)'
  <2>1. \A e \in ToSet(queue[t]) : e \in entries
    BY DEF IInv, LineOK, QueueHoldsEntries
  <2> QED
    BY <2>1, DrainsElsewhere DEF NothingFree, scheduler
<1> QED
  BY <1>1 DEF NothingFree

LEMMA FreeFinish ==
    ASSUME IInv, NothingFree, NEW r, Finish(r), UNCHANGED <<peers, access>>
    PROVE  NothingFree'
<1>1. pending' \subseteq pending
  BY DEF Finish
<1>2. CASE UNCHANGED scheduler
  BY <1>1, <1>2, FreeSame DEF NothingFree
<1>3. CASE r \in entries /\ RemoveMutation(r)
  BY <1>1, <1>3, FreeRemove
<1>4. CASE /\ r \in entries \cap granted /\ canceled' = canceled \cup {r}
           /\ UNCHANGED <<entries, queue, tab, ready, granted>>
  BY <1>1, <1>4, FreeMark
<1> QED
  BY <1>2, <1>3, <1>4 DEF Finish, CancelMutation

\* A newcomer is not ready.
LEMMA FreeRoute == ASSUME IInv, NothingFree, NEW r \in Request, Route(r) PROVE NothingFree'
<1> DEFINE t == Target[r]
<1>1. /\ pending' = pending \cup {r} /\ r \notin entries
      /\ UNCHANGED <<peers, access>>
      /\ t \in Extension
  BY ConstantsAssumption DEF Route
<1>2. CASE UNCHANGED scheduler
  BY <1>1, <1>2, FreeSame DEF NothingFree
<1>3. CASE /\ queue' = [queue EXCEPT ![t] = Append(queue[t], r)]
           /\ tab' = [tab EXCEPT ![r] = RequestTab[r]]
           /\ UNCHANGED <<ready, granted, canceled>>
  <2>1. /\ queue \in [Extension -> Seq(Request)] /\ tab \in [Request -> Tab \cup {NoTab}]
        /\ r \notin ready /\ r \notin granted /\ r \notin canceled
    BY <1>1 DEF IInv, LineOK, TurnsOK
  <2>2. \A x \in Extension : \A e \in ToSet(queue[x]) : e \in entries /\ e # r /\ e \in Request
    BY <1>1 DEF IInv, LineOK, QueueHoldsEntries
  <2>3. ASSUME NEW x \in Extension \ {t} PROVE Drains(x)'
    BY <1>1, <1>3, <2>1, <2>2, DrainsElsewhere DEF NothingFree
  <2>4. Drains(t)'
    <3> DEFINE q == queue[t]
    <3>1. /\ q \in Seq(Request) /\ Len(q) \in Nat
          /\ queue'[t] = Append(q, r)
          /\ Len(queue'[t]) = Len(q) + 1 /\ queue'[t][Len(q) + 1] = r
          /\ \A k \in 1..Len(q) : queue'[t][k] = q[k] /\ q[k] \in ToSet(q)
      BY <1>1, <1>3, <2>1 DEF ToSet
    <3> HIDE DEF q
    <3> SUFFICES ASSUME t \in peers, access[t], NEW i \in 1..(Len(q) + 1),
                        Eligible(queue'[t], ready, granted, canceled, pending', tab', i)
                 PROVE  Held(queue'[t], granted \cap canceled, tab', tab'[queue'[t][i]])
      BY <1>1, <1>3, <3>1 DEF Drains
    <3>2. i \in 1..Len(q)
      <4>1. queue'[t][i] \in ready
        BY DEF Eligible
      <4> QED
        BY <2>1, <3>1, <4>1
    <3>3. /\ queue'[t][i] = q[i] /\ tab'[q[i]] = tab[q[i]]
          /\ \A k \in 1..Len(q) : /\ queue'[t][k] = q[k] /\ tab'[q[k]] = tab[q[k]]
                                  /\ q[k] # r
      <4>1. \A k \in 1..Len(q) : q[k] \in Request /\ q[k] # r
        BY <1>1, <2>2, <3>1 DEF q
      <4>2. \A e \in Request : e # r => tab'[e] = tab[e]
        BY <1>3, <2>1
      <4> QED
        BY <3>1, <3>2, <4>1, <4>2
    <3>4. \A S, b : S \subseteq granted =>
              (Held(q, S, tab, b) <=> Held(queue'[t], S, tab', b))
      BY <2>1, <3>1, <3>3 DEF Held
    <3>5. Eligible(q, ready, granted, canceled, pending, tab, i)
      <4>1. q[i] \in (ready \cap pending) \ (granted \cup canceled)
        BY <1>1, <3>2, <3>3 DEF Eligible
      <4>2. ~Held(q, granted \ canceled, tab, tab[q[i]])
        <5>1. ~Held(queue'[t], granted \ canceled, tab', tab'[q[i]])
          BY <3>3 DEF Eligible
        <5>2. granted \ canceled \subseteq granted
          OBVIOUS
        <5> QED
          BY <3>3, <3>4, <5>1, <5>2
      <4>3. Held(q, granted \cap canceled, tab, tab[q[i]]) => PreemptsCanceled(q[i])
        BY <3>3, <3>4 DEF Eligible
      <4>4. \A j \in 1..(i - 1) : \/ q[j] \in ready \cup granted \cup canceled
                                  \/ tab[q[j]] \notin {NoTab, tab[q[i]]}
        <5>1. \A j \in 1..(i - 1) : j \in 1..Len(q)
          BY <3>1, <3>2
        <5> QED
          BY <3>3, <5>1 DEF Eligible
      <4> QED
        BY <4>1, <4>2, <4>3, <4>4 DEF Eligible
    <3>6. Held(q, granted \cap canceled, tab, tab[q[i]])
      BY <1>1, <3>2, <3>5 DEF NothingFree, Drains, q
    <3> QED
      BY <3>3, <3>4, <3>6
  <2> QED
    BY <1>1, <2>3, <2>4 DEF NothingFree
<1> QED
  BY <1>2, <1>3 DEF Route, ScheduleMutation

\* A reported tab and a restored access end in a pass over the one line they
\* change.
LEMMA FreePass ==
    ASSUME IInv, IInv', NothingFree, NEW t \in Extension, GrantMutations(t),
           UNCHANGED <<peers, pending, queue, canceled, entries>>,
           t \in peers,
           \A x \in Extension \ {t} : access'[x] = access[x],
           \A e \in entries : Target[e] # t => (e \in ready' <=> e \in ready) /\ tab'[e] = tab[e]
    PROVE  NothingFree'
<1>1. Drains(t)'
  BY DrainsAfterPass DEF IInv
<1>2. ASSUME NEW x \in Extension \ {t} PROVE Drains(x)'
  <2>1. \A e \in ToSet(queue[x]) : e \in entries /\ Target[e] = x
    BY DEF IInv, LineOK, QueueHoldsEntries
  <2>2. \A e \in NewGrants(t) : Target[e] = t
    <3>1. queue'[t] \in Seq(Request) /\ ToSet(queue'[t]) = {e \in entries' : Target[e] = t}
      BY DEF IInv, LineOK, QueueHoldsEntries
    <3> QED
      BY <3>1, GrantsSound DEF NewGrants
  <2>3. \A e \in ToSet(queue[x]) : e \in granted' <=> e \in granted
    BY <2>1, <2>2 DEF GrantMutations
  <2> QED
    BY <2>1, <2>3, DrainsElsewhere DEF NothingFree
<1> QED
  BY <1>1, <1>2 DEF NothingFree

LEMMA FreeInit == Init => NothingFree
  BY DEF Init, NothingFree, Drains

LEMMA FreeNext == IInv /\ IInv' /\ NothingFree /\ [Next]_vars => NothingFree'
<1> SUFFICES ASSUME IInv, IInv', NothingFree, [Next]_vars PROVE NothingFree'
  OBVIOUS
<1>1. CASE \E r \in Request : \/ RevokeRequest(r) \/ Cancel(r) \/ Timeout(r)
                               \/ MalformedResponse(r) \/ AbandonRequest(r)
  BY <1>1, FreeFinish DEF RevokeRequest, Cancel, Timeout, MalformedResponse, AbandonRequest
<1>2. CASE \E r \in Request : \/ LateResponse(r) \/ Stored(r) \/ Expire(r)
                               \/ \E stored \in BOOLEAN : Response(r, stored)
  <2> PICK r \in Request : \/ LateResponse(r) \/ Stored(r) \/ Expire(r)
                           \/ \E stored \in BOOLEAN : Response(r, stored)
    BY <1>2
  <2>1. UNCHANGED <<peers, access>> /\ pending' \subseteq pending
    BY DEF LateResponse, Stored, Expire, Response, Finish
  <2>2. \/ r \in entries /\ RemoveMutation(r)
        \/ Finish(r)
        \/ UNCHANGED scheduler
    BY DEF LateResponse, Stored, Expire, Response
  <2> QED
    BY <2>1, <2>2, FreeRemove, FreeFinish, FreeSame DEF NothingFree
<1>3. CASE \E r \in Request, b \in Tab \cup {NoTab} : MutationReady(r, b)
  <2> PICK r \in Request, b \in Tab \cup {NoTab} : MutationReady(r, b)
    BY <1>3
  <2>1. CASE Finish(r) /\ UNCHANGED <<peers, access>>
    BY <2>1, FreeFinish
  <2>2. CASE /\ tab' = [tab EXCEPT ![r] = b] /\ ready' = ready \cup {r}
             /\ UNCHANGED <<peers, access, pending, marked, count, entries, queue, canceled>>
             /\ GrantMutations(Target[r])
    <3>1. Target[r] \in Extension /\ tab \in [Request -> Tab \cup {NoTab}]
          /\ entries \subseteq Request
      BY ConstantsAssumption DEF IInv, LineOK
    <3>2. CASE Target[r] \in peers
      BY <2>2, <3>1, <3>2, FreePass
    <3>3. CASE Target[r] \notin peers
      <4>1. ASSUME NEW x \in Extension PROVE Drains(x)'
        <5>1. CASE x = Target[r]
          BY <2>2, <3>3, <5>1 DEF Drains
        <5>2. CASE x # Target[r]
          <6>1. \A e \in ToSet(queue[x]) : e \in entries /\ Target[e] = x /\ e # r
            BY <5>2 DEF IInv, LineOK, QueueHoldsEntries
          <6>2. granted' = granted
            BY <2>2, <3>3 DEF GrantMutations, NewGrants, IInv, LineOK, TurnsOK
          <6> QED
            BY <2>2, <3>1, <6>1, <6>2, DrainsElsewhere DEF NothingFree
        <5> QED
          BY <5>1, <5>2
      <4> QED
        BY <2>2, <4>1 DEF NothingFree
    <3> QED
      BY <3>2, <3>3
  <2> QED
    BY <2>1, <2>2 DEF MutationReady
<1>4. CASE \E r \in Request : Route(r)
  BY <1>4, FreeRoute
<1>5. CASE \E t \in Extension : AccessGranted(t)
  BY <1>5, FreePass DEF AccessGranted, IInv, TypeOK
<1>6. CASE DisconnectDone
  <2>1. ASSUME NEW x \in Extension PROVE Drains(x)'
    <3>1. CASE x = walking
      BY <1>6, <3>1 DEF DisconnectDone, Drains
    <3>2. CASE x # walking
      <4>1. \A e \in ToSet(queue[x]) : e \in entries /\ Target[e] = x /\ e \in Request
        BY DEF IInv, LineOK, QueueHoldsEntries
      <4>2. queue'[x] = queue[x]
        BY <1>6, <3>2 DEF DisconnectDone
      <4>3. \A e \in ToSet(queue[x]) : /\ e \in ready' <=> e \in ready
                                       /\ e \in granted' <=> e \in granted
                                       /\ e \in canceled' <=> e \in canceled
                                       /\ tab'[e] = tab[e]
        BY <1>6, <3>2, <4>1 DEF DisconnectDone
      <4> QED
        BY <1>6, <4>2, <4>3, DrainsElsewhere DEF NothingFree, DisconnectDone
    <3> QED
      BY <3>1, <3>2
  <2> QED
    BY <1>6, <2>1 DEF NothingFree, DisconnectDone
<1>7. CASE \/ \E p \in Agent \cup Extension : Connect(p) \/ Disconnect(p)
           \/ \E t \in Extension : AccessRevoked(t) \/ Identity(t)
           \/ RevokeDone \/ UNCHANGED vars
  <2>1. UNCHANGED <<scheduler, pending>>
    BY <1>7 DEF Connect, Disconnect, AccessRevoked, Identity, RevokeDone, vars, scheduler
  <2>2. \A t \in Extension : /\ access'[t] => t \in peers'
                             /\ t \in peers' /\ access'[t] => t \in peers /\ access[t]
    BY <1>7 DEF Connect, Disconnect, AccessRevoked, Identity, RevokeDone, vars, NothingFree,
                IInv, TypeOK
  <2> QED
    BY <2>1, <2>2, FreeSame
<1> QED
  BY <1>1, <1>2, <1>3, <1>4, <1>5, <1>6, <1>7 DEF Next

\* No event that frees a tab forgets to look at the line: at any moment another
\* pass could at most let a navigation take over from draining work.
THEOREM TurnsUsed == Spec => []NoTurnWasted
<1>1. Spec => []NothingFree
  BY Invariant, FreeInit, FreeNext, PTL DEF Spec
<1> QED
  BY <1>1, NothingFreeSuffices, PTL

-----------------------------------------------------------------------------
(* The order of turns.                                                        *)

Ahead(q, a, b) == \E j, i \in DOMAIN q : j < i /\ q[j] = a /\ q[i] = b

\* Leaving a line keeps the order of the others.
LEMMA RemoveAtOrder ==
    ASSUME NEW S, NEW s \in Seq(S), NEW i \in 1..Len(s)
    PROVE  \A a, b : Ahead(s, a, b) /\ a # s[i] /\ b # s[i] => Ahead(RemoveAt(s, i), a, b)
<1> SUFFICES ASSUME NEW j \in 1..Len(s), NEW k \in 1..Len(s), j < k, j # i, k # i
             PROVE  Ahead(RemoveAt(s, i), s[j], s[k])
  BY DEF Ahead
<1>1. \A m \in 1..(Len(s) - 1) : RemoveAt(s, i)[m] = IF m < i THEN s[m] ELSE s[m + 1]
  BY RemoveAtElements
<1> DEFINE to(m) == IF m < i THEN m ELSE m - 1
<1>2. Len(s) \in Nat
  OBVIOUS
<1>3. to(j) \in 1..(Len(s) - 1) /\ to(k) \in 1..(Len(s) - 1) /\ to(j) < to(k)
  BY <1>2
<1>4. RemoveAt(s, i)[to(j)] = s[j] /\ RemoveAt(s, i)[to(k)] = s[k]
  <2>1. CASE j < i
    <3>1. to(j) = j /\ RemoveAt(s, i)[to(j)] = s[j]
      BY <1>1, <1>3, <2>1
    <3>2. CASE k < i
      BY <1>1, <1>3, <3>1, <3>2
    <3>3. CASE k > i
      <4>1. to(k) = k - 1 /\ ~(to(k) < i) /\ to(k) + 1 = k
        BY <1>2, <3>3
      <4> QED
        BY <1>1, <1>3, <3>1, <4>1
    <3> QED
      BY <1>2, <3>2, <3>3
  <2>2. CASE j > i
    <3>1. /\ to(j) = j - 1 /\ ~(to(j) < i) /\ to(j) + 1 = j
          /\ to(k) = k - 1 /\ ~(to(k) < i) /\ to(k) + 1 = k
      BY <1>2, <2>2
    <3> QED
      BY <1>1, <1>3, <3>1
  <2> QED
    BY <1>2, <2>1, <2>2
<1> HIDE DEF to
<1>5. DOMAIN RemoveAt(s, i) = 1..(Len(s) - 1)
  BY RemoveAtElements
<1> QED
  BY <1>3, <1>4, <1>5 DEF Ahead

\* The rule passes over an earlier entry only when that is bound for another tab,
\* cannot run, or must wait for draining work that the later entry takes over.
LEMMA GrantsInOrder ==
    ASSUME NEW q \in Seq(Request), IsInjective(q),
           NEW rd, NEW gr, NEW cn, NEW lv, NEW tb,
           NEW i \in 1..Len(q), NEW j \in 1..Len(q), j < i,
           q[i] \in Grants(q, rd, gr, cn, lv, tb), q[j] \notin gr \cup cn
    PROVE  /\ q[j] \in rd \/ tb[q[j]] \notin {NoTab, tb[q[i]]}
           /\ q[j] \in rd \cap lv /\ tb[q[j]] = tb[q[i]] =>
                 /\ ~PreemptsCanceled(q[j]) /\ PreemptsCanceled(q[i])
                 /\ \E c \in ToSet(q) \cap gr \cap cn : tb[c] = tb[q[i]]
<1> DEFINE May(k) == Eligible(q, rd, gr, cn, lv, tb, k)
<1>0. /\ DOMAIN q = 1..Len(q) /\ Len(q) \in Nat /\ j \in 1..(i - 1)
      /\ \A k \in 1..(j - 1) : k \in 1..(i - 1)
  OBVIOUS
<1>1. May(i) /\ \A k \in 1..(i - 1) : May(k) => tb[q[k]] # tb[q[i]]
  BY <1>0 DEF Grants, IsInjective
<1>2. q[j] \in rd \/ tb[q[j]] \notin {NoTab, tb[q[i]]}
  BY <1>0, <1>1 DEF Eligible
<1>3. ASSUME q[j] \in rd \cap lv, tb[q[j]] = tb[q[i]]
      PROVE  /\ ~PreemptsCanceled(q[j]) /\ PreemptsCanceled(q[i])
             /\ Held(q, gr \cap cn, tb, tb[q[i]])
  <2>1. ~May(j)
    BY <1>0, <1>1, <1>3
  <2>2. ~Held(q, gr \ cn, tb, tb[q[j]])
    BY <1>1, <1>3 DEF Eligible
  <2>3. \A k \in 1..(j - 1) : \/ q[k] \in rd \cup gr \cup cn
                              \/ tb[q[k]] \notin {NoTab, tb[q[j]]}
    BY <1>0, <1>1, <1>3 DEF Eligible
  <2>4. Held(q, gr \cap cn, tb, tb[q[j]]) /\ ~PreemptsCanceled(q[j])
    BY <1>3, <2>1, <2>2, <2>3 DEF Eligible
  <2> QED
    BY <1>1, <1>3, <2>4 DEF Eligible
<1> HIDE DEF May
<1> QED
  BY <1>0, <1>2, <1>3 DEF Held, ToSet

OrderStep ==
    \A r \in granted' \ granted, s \in entries' \ granted' :
        Before(s, r) =>
            /\ tab'[s] # NoTab
            /\ tab'[s] = tab'[r] =>
                  /\ s \in ready' /\ ~PreemptsCanceled(s) /\ PreemptsCanceled(r)
                  /\ \E c \in canceled' : Target[c] = Target[r] /\ tab'[c] = tab'[r]

\* A pass over t's line after a change that kept the order of those in it.
LEMMA PassOrder ==
    ASSUME IInv, IInv', NEW t \in Extension, GrantMutations(t),
           \A s, r \in entries' :
               Before(s, r) /\ Target[r] = t => Ahead(queue'[t], s, r)
    PROVE  OrderStep
<1> SUFFICES ASSUME NEW r \in granted' \ granted, NEW s \in entries' \ granted', Before(s, r)
             PROVE  /\ tab'[s] # NoTab
                    /\ tab'[s] = tab'[r] =>
                          /\ s \in ready' /\ ~PreemptsCanceled(s) /\ PreemptsCanceled(r)
                          /\ \E c \in canceled' : Target[c] = Target[r] /\ tab'[c] = tab'[r]
  BY DEF OrderStep
<1> DEFINE q == queue'[t]
           G == Grants(q, ready', granted, canceled', pending', tab')
<1>1. granted' = (granted \cap entries') \cup G /\ r \in G
  BY DEF GrantMutations, NewGrants
<1>2. /\ q \in Seq(Request) /\ IsInjective(q)
      /\ ToSet(q) = {e \in entries' : Target[e] = t}
  BY DEF IInv, LineOK, QueueHoldsEntries
<1>3. /\ canceled' \subseteq granted' /\ granted' \subseteq ready' /\ ready' \subseteq entries'
      /\ \A e \in ready' : tab'[e] \in Tab
      /\ s \in canceled' \/ s \in pending'
  BY DEF IInv, LineOK, TurnsOK, ReadyHasTab, CallersOK, SlotAccountedFor
<1> HIDE DEF G
<1>4. r \in entries' /\ Target[r] = t
  <2>1. r \in ToSet(q)
    BY <1>1, <1>2, GrantsSound DEF G
  <2> QED
    BY <1>2, <2>1
<1>5. PICK j \in DOMAIN q, i \in DOMAIN q : j < i /\ q[j] = s /\ q[i] = r
  BY <1>4 DEF Ahead
<1>6. j \in 1..Len(q) /\ i \in 1..Len(q)
  BY <1>2, <1>5
<1> HIDE DEF q
<1>7. s \notin granted \cup canceled'
  BY <1>1, <1>3
<1>8. /\ s \in ready' \/ tab'[s] \notin {NoTab, tab'[r]}
      /\ s \in ready' \cap pending' /\ tab'[s] = tab'[r] =>
            /\ ~PreemptsCanceled(s) /\ PreemptsCanceled(r)
            /\ \E c \in ToSet(q) \cap granted \cap canceled' : tab'[c] = tab'[r]
  BY <1>1, <1>2, <1>5, <1>6, <1>7, GrantsInOrder DEF G
<1>9. s \in pending' /\ (s \in ready' => tab'[s] # NoTab)
  BY <1>3, <1>7, ConstantsAssumption
<1> QED
  BY <1>2, <1>4, <1>8, <1>9

LEMMA RemoveOrder ==
    ASSUME IInv, IInv', NEW r \in entries, RemoveMutation(r) PROVE OrderStep
<1> DEFINE t == Target[r]
           at == CHOOSE i \in DOMAIN queue[t] : queue[t][i] = r
<1>1. /\ r \in Request /\ t \in Extension
      /\ queue[t] \in Seq(Request) /\ r \in ToSet(queue[t]) /\ IsInjective(queue[t])
      /\ DOMAIN queue[t] = 1..Len(queue[t])
  BY ConstantsAssumption DEF IInv, LineOK, QueueHoldsEntries
<1>2. at \in 1..Len(queue[t]) /\ queue[t][at] = r
  BY <1>1 DEF ToSet
<1> HIDE DEF at
<1>3. /\ entries' = entries \ {r} /\ GrantMutations(t)
      /\ queue'[t] = RemoveAt(queue[t], at)
  BY <1>1 DEF RemoveMutation, IInv, LineOK, at
<1>4. \A s, w : Ahead(queue[t], s, w) /\ s # r /\ w # r => Ahead(queue'[t], s, w)
  BY <1>1, <1>2, <1>3, RemoveAtOrder
<1>5. ASSUME NEW s \in entries', NEW w \in entries', Before(s, w), Target[w] = t
      PROVE  Ahead(queue'[t], s, w)
  BY <1>3, <1>4, <1>5 DEF Before, Ahead
<1> QED
  BY <1>1, <1>3, <1>5, PassOrder

LEMMA EveryOrderStep == IInv /\ IInv' /\ [Next]_vars => OrderStep
<1> SUFFICES ASSUME IInv, IInv', [Next]_vars PROVE OrderStep
  OBVIOUS
<1>1. CASE granted' \subseteq granted
  BY <1>1 DEF OrderStep
<1>2. CASE \E r \in entries : RemoveMutation(r)
  BY <1>2, RemoveOrder
<1>3. CASE \E t \in Extension : GrantMutations(t) /\ UNCHANGED queue
  BY <1>3, PassOrder DEF Before, Ahead
<1>4. \/ granted' \subseteq granted
      \/ \E r \in entries : RemoveMutation(r)
      \/ \E t \in Extension : GrantMutations(t) /\ UNCHANGED queue
  <2>1. CASE \E r \in Request : \/ RevokeRequest(r) \/ Cancel(r) \/ Timeout(r)
                                \/ MalformedResponse(r) \/ AbandonRequest(r)
    BY <2>1 DEF RevokeRequest, Cancel, Timeout, MalformedResponse, AbandonRequest, Finish,
                CancelMutation, scheduler
  <2>2. CASE \E r \in Request : \/ LateResponse(r) \/ Stored(r) \/ Expire(r)
                                \/ \E stored \in BOOLEAN : Response(r, stored)
    BY <2>2 DEF LateResponse, Stored, Expire, Response, Finish, CancelMutation, scheduler
  <2>3. CASE \E r \in Request, b \in Tab \cup {NoTab} : MutationReady(r, b)
    BY <2>3, ConstantsAssumption DEF MutationReady, Finish, CancelMutation, scheduler
  <2>4. CASE \E t \in Extension : AccessGranted(t)
    BY <2>4 DEF AccessGranted
  <2>5. CASE \/ \E r \in Request : Route(r)
             \/ \E p \in Agent \cup Extension : Connect(p) \/ Disconnect(p)
             \/ \E t \in Extension : AccessRevoked(t) \/ Identity(t)
             \/ RevokeDone \/ DisconnectDone \/ UNCHANGED vars
    BY <2>5 DEF Route, ScheduleMutation, Connect, Disconnect, AccessRevoked, Identity,
                RevokeDone, DisconnectDone, vars, scheduler
  <2> QED
    BY <2>1, <2>2, <2>3, <2>4, <2>5 DEF Next
<1> QED
  BY <1>1, <1>2, <1>3, <1>4

\* Turns follow the order of arrival on every tab; only a navigation passes the
\* input that waits for draining work.
THEOREM ArrivalOrder == Spec => TurnsInOrder
<1>1. Spec => [][OrderStep]_vars
  BY Invariant, EveryOrderStep, PTL DEF Spec
<1> QED
  BY <1>1 DEF TurnsInOrder, OrderStep
=============================================================================
