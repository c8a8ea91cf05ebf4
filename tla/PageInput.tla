------------------------------- MODULE PageInput -------------------------------
(* Input with DOM events in a page's document: the references elements are     *)
(* given (content-element-registry.ts) and the calls that wait for their       *)
(* targets, press, hold, release and click (content-input.ts) while the page   *)
(* goes on rendering. A new document has a new registry and is left out.       *)
EXTENDS Naturals, Sequences, FiniteSetsExt, Functions, TLC

CONSTANTS
    Element, NoElement,
    InputCall,      \* calls, once each
    MaxRefs,        \* MAX_REGISTRY_SIZE: 5000
    PruneBatch,     \* ELEMENT_REGISTRY_PRUNE_BATCH_SIZE: 100
    MaxCandidates,  \* MAX_STALE_RECOVERY_CANDIDATES: 100
    MaxMinted,      \* references given out
    MaxPageMoves    \* changes the page makes

VARIABLES
    node,      \* element -> whether it is attached, and its strong descriptor, 0 for none
    pageUrl,
    registry,  \* elementRegistry, elementDescriptors, the counter and the prune iterator
    given,     \* every reference given out: for what, and whether that has stayed since
    domCalls,    \* call -> where it is
    pageMoves

pageInputVars == <<node, pageUrl, registry, given, domCalls, pageMoves>>

NoInput == [stage |-> "none"]
NoSample == [el |-> NoElement]

PageInputInit ==
    /\ node = [e \in Element |-> [here |-> TRUE, name |-> 1]] /\ pageUrl = 1
    /\ registry = [refs |-> <<>>, known |-> <<>>, minted |-> 0, cursor |-> 0]
    /\ given = <<>> /\ domCalls = [c \in InputCall |-> NoInput] /\ pageMoves = 0

-----------------------------------------------------------------------------
(* content-element-registry.ts. References are numbers, in the order given.   *)

IsThere(e) == node[e].here
Attached == {e \in Element : IsThere(e)}
Without(f, refs) == Restrict(f, DOMAIN f \ refs)
Forget(g, refs) == [g EXCEPT !.refs = Without(@, refs)]

\* pruneElementRegistryEntries: the iterator goes on where it stopped; one that
\* has come to the end starts again the next time.
Prune(g) ==
    LET later == {r \in DOMAIN g.refs : r > g.cursor}
        seen == {r \in later : Cardinality({q \in later : q < r}) < PruneBatch}
    IN  [Forget(g, {r \in seen : ~IsThere(g.refs[r])})
            EXCEPT !.cursor = IF Cardinality(later) < PruneBatch THEN 0 ELSE Max(seen)]

\* evictOldestElementRegistryEntry, as long as there is no room
EvictOldest(g) ==
    IF Cardinality(DOMAIN g.refs) < MaxRefs THEN g
    ELSE LET oldest == {Min(DOMAIN g.refs)}
         IN  [Forget(g, oldest) EXCEPT !.known = Without(@, oldest)]

RefsOf(g, e) == {r \in DOMAIN g.refs : g.refs[r] = e}

\* rememberElement
Remember(g, e) ==
    IF RefsOf(g, e) # {} THEN g
    ELSE LET room == EvictOldest(IF Cardinality(DOMAIN g.refs) < MaxRefs THEN g ELSE Prune(g))
             ref == g.minted + 1
             known == room.known @@ (ref :> [name |-> node[e].name, url |-> pageUrl])
             extra == {r \in DOMAIN known : Cardinality({q \in DOMAIN known : q > r}) >= MaxRefs}
         IN  [room EXCEPT !.minted = ref, !.refs = @ @@ (ref :> e), !.known = Without(known, extra)]

\* What else could be the element a descriptor was written for
Matches(g, ref) ==
    IF ref \notin DOMAIN g.known \/ Cardinality(Attached) > MaxCandidates THEN {}
    ELSE {e \in Attached : /\ g.known[ref].url = pageUrl
                           /\ g.known[ref].name # 0 /\ node[e].name = g.known[ref].name}

\* resolveInputReference, and getRequiredElement where nothing is recovered
Resolve(g, ref, recover) ==
    IF ref \in DOMAIN g.refs /\ IsThere(g.refs[ref])
    THEN [reg |-> g, el |-> g.refs[ref], recovered |-> FALSE]
    ELSE LET left == Forget(g, {ref})
             matches == IF recover THEN Matches(left, ref) ELSE {}
         IN  IF Cardinality(matches) = 1
             THEN LET e == CHOOSE e \in matches : TRUE
                  IN  [reg |-> Remember(left, e), el |-> e, recovered |-> TRUE]
             ELSE [reg |-> left, el |-> NoElement, recovered |-> FALSE]

Registers(g) ==
    /\ g.minted <= MaxMinted /\ registry' = g
    /\ given' = [r \in 1..g.minted |->
                    IF r \in DOMAIN given THEN given[r]
                    ELSE [el |-> g.refs[r], name |-> node[g.refs[r]].name, url |-> pageUrl,
                          stayed |-> IsThere(g.refs[r])]]

\* A read that returns an element with its reference
Reads(e) ==
    /\ IsThere(e) /\ Registers(Remember(registry, e))
    /\ UNCHANGED <<node, pageUrl, domCalls, pageMoves>>

\* A request other than input that names a reference
Looks(ref) ==
    /\ Registers(Resolve(registry, ref, FALSE).reg)
    /\ UNCHANGED <<node, pageUrl, domCalls, pageMoves>>

-----------------------------------------------------------------------------
(* Targets: withInputPipeline and prepareNativeInput                          *)

\* A target is a reference, or 0 for a selector, which may match any element.
\* "prepare" is the part of debugger input that the page does.
InputKinds == {"click", "double", "key", "type", "set", "hover", "drag", "touch", "prepare"}

DomInputCalled(c, kind, recover, targets) ==
    /\ domCalls[c] = NoInput /\ Len(targets) = IF kind = "drag" THEN 2 ELSE 1
    /\ domCalls' = [domCalls EXCEPT ![c] =
          [stage |-> IF kind = "touch" THEN "act" ELSE "find", kind |-> kind, recover |-> recover,
           want |-> targets, found |-> <<>>, sample |-> NoSample, alive |-> TRUE,
           down |-> NoElement, acted |-> {}, clicked |-> {}]]
    /\ UNCHANGED <<node, pageUrl, registry, given, pageMoves>>

At(c, stage) == domCalls[c].stage = stage
\* A page's listeners run inside a call, other calls do not.
MyTurn(c) == \A d \in InputCall \ {c} : ~At(d, "pressed")
InputOver(c) == domCalls' = [domCalls EXCEPT ![c].stage = "over"]

\* resolveActionableTarget. `right` says whether the element is the one asked for.
Resolutions(g, want, recover) ==
    IF want = 0 THEN {[reg |-> g, el |-> e, right |-> TRUE] : e \in Attached}
    ELSE LET found == Resolve(g, want, recover)
         IN  {[reg |-> found.reg, el |-> found.el,
               right |-> IF ~found.recovered THEN found.el = given[want].el
                         ELSE /\ recover /\ given[want].url = pageUrl
                              /\ {e \in Attached : node[e].name = given[want].name} = {found.el}]}

\* The pipeline hands an exact reference to the action.
Finds(c, el, right, g) ==
    LET left == Tail(domCalls[c].want)
    IN  domCalls' = [domCalls EXCEPT ![c].found = Append(@, [ref |-> Max(RefsOf(g, el)), el |-> el, right |-> right]),
                                 ![c].want = left, ![c].sample = NoSample,
                                 ![c].stage = IF left # <<>> THEN "find"
                                              ELSE IF domCalls[c].kind = "prepare" THEN "over" ELSE "act"]

\* One attempt of awaitActionableTarget: the element is usable, or moves and is
\* looked at again after a while, or is not usable, which the error gives a
\* reference for; a reference that cannot be resolved ends the call.
FindTarget(c) ==
    /\ At(c, "find") /\ MyTurn(c) /\ domCalls[c].sample = NoSample
    /\ IF domCalls[c].alive
       THEN \E choice \in Resolutions(registry, Head(domCalls[c].want), domCalls[c].recover) :
              LET g == Remember(choice.reg, choice.el)
              IN  IF choice.el = NoElement THEN Registers(choice.reg) /\ InputOver(c)
                  ELSE \/ Registers(g) /\ Finds(c, choice.el, choice.right, g)
                       \/ /\ Registers(choice.reg)
                          /\ domCalls' = [domCalls EXCEPT ![c].sample = [el |-> choice.el, right |-> choice.right]]
                       \/ Registers(g) /\ (InputOver(c) \/ UNCHANGED domCalls)
       ELSE InputOver(c) /\ UNCHANGED <<registry, given>>
    /\ UNCHANGED <<node, pageUrl, pageMoves>>

\* The element stood still, or it moved or left and is resolved again.
SampleTaken(c) ==
    /\ At(c, "find") /\ MyTurn(c) /\ domCalls[c].sample # NoSample
    /\ \/ ~domCalls[c].alive /\ InputOver(c) /\ UNCHANGED <<registry, given>>
       \/ /\ domCalls[c].alive /\ domCalls' = [domCalls EXCEPT ![c].sample = NoSample]
          /\ UNCHANGED <<registry, given>>
       \/ LET taken == domCalls[c].sample
              g == Remember(registry, taken.el)
          IN  domCalls[c].alive /\ IsThere(taken.el) /\ Registers(g) /\ Finds(c, taken.el, taken.right, g)
    /\ UNCHANGED <<node, pageUrl, pageMoves>>

\* A selector that matches nothing, or too many, or a wait that is over
FindFails(c) ==
    /\ At(c, "find") /\ MyTurn(c) /\ InputOver(c)
    /\ UNCHANGED <<node, pageUrl, registry, given, pageMoves>>

-----------------------------------------------------------------------------
(* Actions                                                                    *)

\* What the action's own resolution finds: exactly what was handed to it, but a
\* touch resolves for itself.
Target(c, n) ==
    IF domCalls[c].kind = "touch" THEN Resolutions(registry, Head(domCalls[c].want), domCalls[c].recover)
    ELSE LET found == Resolve(registry, domCalls[c].found[n].ref, FALSE)
         IN  {[reg |-> found.reg, el |-> found.el,
               right |-> domCalls[c].found[n].right /\ found.el = domCalls[c].found[n].el]}

\* The call resolves its target, and acts on it. The page's listeners may change
\* the page, which a drag notices when it resolves its destination.
Acts(c, kinds, next, presses) ==
    /\ At(c, "act") /\ MyTurn(c) /\ domCalls[c].kind \in kinds
    /\ IF ~domCalls[c].alive THEN InputOver(c) /\ UNCHANGED <<registry, given>>
       ELSE \E choice \in Target(c, 1) :
              /\ Registers(choice.reg)
              /\ \/ InputOver(c)   \* not usable, or gone
                 \/ /\ choice.el # NoElement
                    /\ domCalls' = [domCalls EXCEPT
                           ![c].acted = @ \union {[el |-> choice.el, right |-> choice.right]},
                           ![c].down = IF presses THEN choice.el ELSE NoElement,
                           ![c].stage = next]
    /\ UNCHANGED <<node, pageUrl, pageMoves>>

ClickPresses(c) == Acts(c, {"click", "double"}, "hold", TRUE)
KeyPresses(c) == Acts(c, {"key"}, "hold", TRUE)
DragPresses(c) == Acts(c, {"drag"}, "pressed", TRUE)
Touches(c) == Acts(c, {"touch"}, "hold", TRUE)
Types(c) == Acts(c, {"type"}, "over", FALSE)
Sets(c) == Acts(c, {"set"}, "over", FALSE)
Hovers(c) == Acts(c, {"hover"}, "over", FALSE)

\* Broken variant: a destination that cannot be resolved ends the drag at once.
LeftDown(c) == InputOver(c)

\* dragTarget: the button is released at the source
LetGoOfSource(c) == domCalls' = [domCalls EXCEPT ![c].down = NoElement, ![c].stage = "over"]

\* A native drag is over at once, a pointer drag moves.
DragGoesOn(c) ==
    /\ At(c, "pressed")
    /\ \E choice \in Target(c, 2) :
          /\ Registers(choice.reg)
          /\ \/ LetGoOfSource(c)
             \/ /\ choice.el # NoElement
                /\ domCalls' = [domCalls EXCEPT
                       ![c].acted = @ \union {[el |-> choice.el, right |-> choice.right]},
                       ![c].stage = "hold"]
    /\ UNCHANGED <<node, pageUrl, pageMoves>>

\* getReleaseTarget: the pressed element, or what is under the pointer if it has gone
ReleaseTargets(c) ==
    IF IsThere(domCalls[c].down) THEN {domCalls[c].down} ELSE Attached \union {NoElement}

Clicked(c, e) == domCalls[c].clicked \union {[el |-> e, gone |-> ~IsThere(domCalls[c].down)]}

\* The hold is over. A canceled call only lets go. A second press goes to the
\* element that was resolved.
ClickReleases(c) ==
    /\ At(c, "hold") /\ MyTurn(c) /\ domCalls[c].kind \in {"click", "double"}
    /\ \E under \in ReleaseTargets(c) :
          domCalls' = [domCalls EXCEPT
              ![c] = CASE ~@.alive -> [@ EXCEPT !.down = NoElement, !.stage = "over"]
                       [] @.kind = "double" -> [@ EXCEPT !.clicked = Clicked(c, under), !.kind = "click"]
                       [] OTHER -> [@ EXCEPT !.clicked = Clicked(c, under), !.down = NoElement, !.stage = "over"]]
    /\ UNCHANGED <<node, pageUrl, registry, given, pageMoves>>

TouchLifts(c) ==
    /\ At(c, "hold") /\ MyTurn(c) /\ domCalls[c].kind = "touch"
    /\ \E under \in ReleaseTargets(c), swallowed \in BOOLEAN :
          domCalls' = [domCalls EXCEPT
              ![c].clicked = IF swallowed \/ ~domCalls[c].alive THEN @ ELSE Clicked(c, under),
              ![c].down = NoElement, ![c].stage = "over"]
    /\ UNCHANGED <<node, pageUrl, registry, given, pageMoves>>

\* The key is let go where it was pressed, a drag ends under the pointer.
OthersRelease(c) ==
    /\ At(c, "hold") /\ MyTurn(c) /\ domCalls[c].kind \in {"key", "drag"}
    /\ domCalls' = [domCalls EXCEPT ![c].down = NoElement, ![c].stage = "over"]
    /\ UNCHANGED <<node, pageUrl, registry, given, pageMoves>>

\* The background has canceled the request, or its time is over.
InputCanceled(c) ==
    /\ domCalls[c] # NoInput /\ ~At(c, "over") /\ domCalls[c].alive /\ ~\E d \in InputCall : At(d, "pressed")
    /\ domCalls' = [domCalls EXCEPT ![c].alive = FALSE]
    /\ UNCHANGED <<node, pageUrl, registry, given, pageMoves>>

-----------------------------------------------------------------------------
(* The page                                                                   *)

PageMoves == pageMoves < MaxPageMoves /\ pageMoves' = pageMoves + 1

Leaves(e) ==
    /\ PageMoves /\ IsThere(e) /\ node' = [node EXCEPT ![e].here = FALSE]
    /\ given' = [r \in DOMAIN given |-> [given[r] EXCEPT !.stayed = @ /\ given[r].el # e]]
    /\ UNCHANGED <<pageUrl, registry, domCalls>>

Joins(e) ==
    /\ PageMoves /\ ~IsThere(e) /\ \E name \in {0, 1} : node' = [node EXCEPT ![e] = [here |-> TRUE, name |-> name]]
    /\ UNCHANGED <<pageUrl, registry, given, domCalls>>

Renames(e) ==
    /\ PageMoves /\ IsThere(e) /\ node' = [node EXCEPT ![e].name = 1 - @]
    /\ UNCHANGED <<pageUrl, registry, given, domCalls>>

Routes ==
    /\ PageMoves /\ pageUrl' = 3 - pageUrl
    /\ UNCHANGED <<node, registry, given, domCalls>>

PageInputNext ==
    \/ \E e \in Element : Reads(e) \/ Leaves(e) \/ Joins(e) \/ Renames(e)
    \/ Routes \/ \E ref \in DOMAIN registry.refs : Looks(ref)
    \/ \E c \in InputCall :
          \/ \E kind \in InputKinds, recover \in BOOLEAN :
                \E targets \in UNION {[1..n -> 0..registry.minted] : n \in 1..2} :
                    DomInputCalled(c, kind, recover, targets)
          \/ FindTarget(c) \/ SampleTaken(c) \/ FindFails(c)
          \/ ClickPresses(c) \/ KeyPresses(c) \/ DragPresses(c) \/ Touches(c)
          \/ Types(c) \/ Sets(c) \/ Hovers(c)
          \/ DragGoesOn(c) \/ ClickReleases(c) \/ TouchLifts(c) \/ OthersRelease(c)
          \/ InputCanceled(c)

-----------------------------------------------------------------------------
(* Input goes where it was asked to go, although the page re-renders at every  *)
(* wait and the registry prunes and evicts: a call acts on the element its     *)
(* reference was given for, or, if it asked for recovery, on the only one of   *)
(* the same description at the same URL; the element it waited for is the one  *)
(* it presses and clicks, as long as that is in the page; no call ends with a  *)
(* button or finger down. And a reference whose element never left the page is *)
(* good as long as fewer than MaxRefs newer ones were given out.               *)
InputExact ==
    /\ \A c \in InputCall : domCalls[c] # NoInput =>
          /\ \A act \in domCalls[c].acted : act.right
          /\ \A click \in domCalls[c].clicked : click.gone \/ \E act \in domCalls[c].acted : act.el = click.el
          /\ At(c, "over") => domCalls[c].down = NoElement
    /\ \A r \in DOMAIN given :
          given[r].stayed /\ registry.minted - r < MaxRefs =>
              r \in DOMAIN registry.refs /\ registry.refs[r] = given[r].el
    /\ \A r, q \in DOMAIN registry.refs : registry.refs[r] = registry.refs[q] => r = q
=============================================================================
