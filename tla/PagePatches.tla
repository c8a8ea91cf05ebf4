------------------------------ MODULE PagePatches ------------------------------
(* Reversible patches (content-patch.ts): how they come to a frame of the tab, *)
(* what they remember, and how all of them are undone when the tab's access    *)
(* ends (background-tab-cleanup.ts). A frame stands for one property of one of *)
(* its elements, which is a number.                                            *)
EXTENDS Naturals, Sequences, SequencesExt

CONSTANTS
    Frame, TopFrame,
    Patcher,       \* requests, once each
    PatchValue,    \* what a patch sets, other than 0
    MaxPatches,    \* getMaxPatchRegistrySize: 2000
    MaxPageTurns   \* what the page does by itself: writes, navigations, lost frames

ASSUME PatchFrames == TopFrame \in Frame /\ "cleanup" \notin Patcher /\ "list" \notin Patcher

VARIABLES
    doc,        \* frame -> its document: script loaded, value, patchRegistry
    patching,   \* request -> where it is
    mail,       \* frame -> messages on their way to it, in order
    patched,    \* patchFrames: frames that patches were sent to
    undo,       \* rollbackAllPatchesForTab
    patchAccess,\* the window's grant
    pageTurns

patchVars == <<doc, patching, mail, patched, undo, patchAccess, pageTurns>>

\* `own` is the value the page would show by itself; `clean` says that nothing but
\* patches, undone in reverse order, has touched it.
Loaded(script) ==
    [script |-> script, shown |-> 0, own |-> 0, clean |-> TRUE, alone |-> TRUE, records |-> <<>>]

PatchInit ==
    /\ doc = [f \in Frame |-> Loaded(TRUE)]
    /\ patching = [p \in Patcher |-> [stage |-> "none"]]
    /\ mail = [f \in Frame |-> <<>>] /\ patched = {} /\ patchAccess = TRUE /\ pageTurns = 0
    /\ undo = [stage |-> "off", todo |-> [f \in Frame |-> <<>>], late |-> FALSE]

-----------------------------------------------------------------------------
(* content-patch.ts                                                           *)

\* applyDomPatch and applyStylePatch. A class that is there already is not added.
Apply(d, p, value, isClass) ==
    IF Len(d.records) >= MaxPatches THEN d
    ELSE [d EXCEPT !.shown = value,
                   !.records = Append(@, [id |-> p, was |-> d.shown,
                                          acts |-> ~isClass \/ value # d.shown])]

\* rollbackPatch puts back what the patch found, whatever was done since.
RollBack(d, id) ==
    LET at == SelectInSeq(d.records, LAMBDA r : r.id = id)
    IN  IF at = 0 THEN d
        ELSE [d EXCEPT !.shown = IF d.records[at].acts THEN d.records[at].was ELSE @,
                       !.records = RemoveAt(@, at)]

\* commitSessionBaseline
Commit(d) == [d EXCEPT !.records = <<>>, !.own = d.shown, !.alone = @ /\ d.records = <<>>]

-----------------------------------------------------------------------------
(* Requests: handleTabBoundRequest                                            *)

PatchWork == [kind : {"apply"}, value : PatchValue, isClass : BOOLEAN]
             \union {[kind |-> "rollback", id |-> p] : p \in Patcher} \union {[kind |-> "commit"]}

PatchCalled(p, f, work) ==
    /\ patching[p].stage = "none" /\ patchAccess
    /\ patching' = [patching EXCEPT ![p] = [stage |-> "ready", frame |-> f, work |-> work]]
    /\ UNCHANGED <<doc, mail, patched, undo, patchAccess, pageTurns>>

Posted(f, message) == mail' = [mail EXCEPT ![f] = Append(@, message)]
IsAt(p, stage) == patching[p].stage = stage
Over(p) == patching' = [patching EXCEPT ![p] = [stage |-> "over"]]

\* assertAccess, trackPatchFrame and sendMessageWithTimeout
PatchSent(p) ==
    /\ IsAt(p, "ready")
    /\ IF patchAccess
       THEN /\ Posted(patching[p].frame, [from |-> p, work |-> patching[p].work])
            /\ patching' = [patching EXCEPT ![p].stage = "sent"]
            /\ patched' = IF patching[p].work.kind = "apply"
                          THEN patched \union {patching[p].frame} ELSE patched
       ELSE Over(p) /\ UNCHANGED <<mail, patched>>
    /\ UNCHANGED <<doc, undo, patchAccess, pageTurns>>

\* recoverContentScript, and the same message again: the access is not looked at,
\* only the request's lifetime, which a revocation ends later, if at all.
PatchRetried(p) ==
    /\ IsAt(p, "retry")
    /\ \/ /\ Posted(TopFrame, [from |-> p, work |-> patching[p].work])
          /\ patching' = [patching EXCEPT ![p].stage = "sent"]
          /\ doc' = [doc EXCEPT ![TopFrame].script = TRUE]
          /\ patched' = IF patching[p].work.kind = "apply" THEN patched \union {TopFrame} ELSE patched
          /\ undo' = [undo EXCEPT !.late = @ \/ ~patchAccess]
       \/ Over(p) /\ UNCHANGED <<doc, mail, patched, undo>>
    /\ UNCHANGED <<patchAccess, pageTurns>>

Latest(d, id) == SelectInSeq(d.records, LAMBDA r : r.id = id) \in {0, Len(d.records)}

\* The frame's listener. A top frame without one gets its script and the message
\* again, another frame's request has failed.
PatchArrives(f) ==
    /\ mail[f] # <<>> /\ Head(mail[f]).from \in Patcher /\ mail' = [mail EXCEPT ![f] = Tail(@)]
    /\ LET p == Head(mail[f]).from
           work == Head(mail[f]).work
       IN  IF doc[f].script
           THEN /\ Over(p)
                /\ doc' = [doc EXCEPT ![f] = CASE work.kind = "apply" -> Apply(@, p, work.value, work.isClass)
                                               [] work.kind = "rollback" -> [RollBack(@, work.id) EXCEPT !.clean = doc[f].clean /\ Latest(doc[f], work.id)]
                                               [] OTHER -> Commit(@)]
           ELSE /\ IF f = TopFrame THEN patching' = [patching EXCEPT ![p].stage = "retry"] ELSE Over(p)
                /\ UNCHANGED doc
    /\ UNCHANGED <<patched, undo, patchAccess, pageTurns>>

-----------------------------------------------------------------------------
(* rollbackAllPatchesForTab                                                   *)

PatchAccessEnds ==
    /\ patchAccess /\ patchAccess' = FALSE /\ undo' = [undo EXCEPT !.stage = "begun"]
    /\ UNCHANGED <<doc, patching, mail, patched, pageTurns>>

\* The tab is back in the enabled window: shouldContinue stops the cleanup, which has
\* at most one message on the way to a frame.
PatchAccessReturns ==
    /\ ~patchAccess /\ undo.stage # "done" /\ patchAccess' = TRUE
    /\ undo' = [undo EXCEPT !.stage = "off", !.todo = [f \in Frame |-> <<>>]]
    /\ mail' = [f \in Frame |-> RemoveFirstMatch(mail[f], LAMBDA m : m.from = "cleanup")]
    /\ UNCHANGED <<doc, patching, patched, pageTurns>>

\* getCleanupFrames: those that patches were sent to or that have some.
UndoFrames == {TopFrame} \union patched \union {f \in Frame : doc[f].script /\ doc[f].records # <<>>}

\* ensureContentScript, and patch.list to each frame
UndoBegins ==
    /\ undo.stage = "begun" /\ doc' = [doc EXCEPT ![TopFrame].script = TRUE]
    /\ undo' = [undo EXCEPT !.stage = "undoing",
                            !.todo = [f \in Frame |-> IF f \in UndoFrames THEN <<"list">> ELSE <<>>]]
    /\ mail' = [f \in Frame |-> IF f \in UndoFrames
                                THEN Append(mail[f], [from |-> "cleanup", id |-> "list"]) ELSE mail[f]]
    /\ UNCHANGED <<patching, patched, patchAccess, pageTurns>>

\* Broken variant: patches are undone in the order they are listed in.
AsListed(ids) == ids

\* The last patch is undone first.
UndoOrder(ids) == Reverse(ids)

\* One message at a time: the answer to one sends the next. A frame that has
\* gone answers nothing more.
UndoGoesOn(f) ==
    /\ undo.stage = "undoing" /\ mail[f] # <<>> /\ Head(mail[f]).from = "cleanup"
    /\ LET id == Head(mail[f]).id
           left == IF ~doc[f].script THEN <<>>
                   ELSE IF id = "list"
                        THEN UndoOrder([n \in DOMAIN doc[f].records |-> doc[f].records[n].id])
                        ELSE Tail(undo.todo[f])
       IN  /\ doc' = [doc EXCEPT ![f] = IF doc[f].script /\ id # "list" THEN RollBack(@, id) ELSE @]
           /\ undo' = [undo EXCEPT !.todo[f] = left]
           /\ mail' = [mail EXCEPT ![f] = IF left = <<>> THEN Tail(@)
                                          ELSE Append(Tail(@), [from |-> "cleanup", id |-> Head(left)])]
    /\ UNCHANGED <<patching, patched, patchAccess, pageTurns>>

\* clearFrames
UndoEnds ==
    /\ undo.stage = "undoing" /\ \A f \in Frame : undo.todo[f] = <<>>
    /\ undo' = [undo EXCEPT !.stage = "done"] /\ patched' = {}
    /\ UNCHANGED <<doc, patching, mail, patchAccess, pageTurns>>

-----------------------------------------------------------------------------
(* The page                                                                   *)

PageTurn == pageTurns < MaxPageTurns /\ pageTurns' = pageTurns + 1

PageWrites(f, value) ==
    /\ PageTurn
    /\ doc' = [doc EXCEPT ![f].shown = value, ![f].own = value,
                          ![f].alone = @ /\ doc[f].records = <<>>]
    /\ UNCHANGED <<patching, mail, patched, undo, patchAccess>>

\* A new document has no script and no patches.
PageLoads(f) ==
    /\ PageTurn /\ doc' = [doc EXCEPT ![f] = Loaded(FALSE)]
    /\ UNCHANGED <<patching, mail, patched, undo, patchAccess>>

PatchNext ==
    \/ \E p \in Patcher : \/ \E f \in Frame, work \in PatchWork : PatchCalled(p, f, work)
                          \/ PatchSent(p) \/ PatchRetried(p)
    \/ \E f \in Frame : PatchArrives(f) \/ UndoGoesOn(f) \/ PageLoads(f)
                        \/ \E value \in PatchValue : PageWrites(f, value)
    \/ PatchAccessEnds \/ PatchAccessReturns \/ UndoBegins \/ UndoEnds

PatchSpec == PatchInit /\ [][PatchNext]_patchVars

-----------------------------------------------------------------------------
(* When the cleanup of a tab whose access ended is over, no frame has a patch   *)
(* left, however requests that were under way, navigations and the cleanup's    *)
(* own messages were ordered; and a frame shows what its page would show, if    *)
(* only patches wrote to it and none was rolled back under a later one. A patch *)
(* sent again after an injection is not covered: it may come after the cleanup  *)
(* (background-content-script.ts, sendTabMessage).                              *)
PatchesUndone ==
    undo.stage = "done" /\ ~undo.late =>
        \A f \in Frame : /\ doc[f].records = <<>>
                         /\ doc[f].clean /\ doc[f].alone => doc[f].shown = doc[f].own

=============================================================================
