------------------------------- MODULE WorkerMC -------------------------------
(* Five parts of the service worker, none of which shares state with another  *)
(* here: the first state says which of them moves.                            *)
EXTENDS NavigationWaits, PerformOutcomes, ActionLog, FetchIntercept, VisualBaselines, TLC

VARIABLE focus

\* Waiters are two of the values that are rules.
Alike == Permutations(Waiter)

WorkerInit ==
    /\ focus \in {"navigation", "perform", "log", "fetch", "visual"}
    /\ NavigationInit /\ PerformInit /\ LogInit /\ FetchInit /\ VisualInit
    /\ focus # "navigation" => webTab.match /\ ~webTab.loading
    /\ focus # "perform" => ~perform.stubborn /\ perform.dom = "pending"

WorkerNext ==
    /\ UNCHANGED focus
    /\ \/ /\ focus = "navigation" /\ NavigationNext
          /\ UNCHANGED <<performVars, logVars, fetchVars, visualVars>>
       \/ /\ focus = "perform" /\ PerformNext
          /\ UNCHANGED <<navigationVars, logVars, fetchVars, visualVars>>
       \/ /\ focus = "log" /\ LogNext
          /\ UNCHANGED <<navigationVars, performVars, fetchVars, visualVars>>
       \/ /\ focus = "fetch" /\ FetchNext
          /\ UNCHANGED <<navigationVars, performVars, logVars, visualVars>>
       \/ /\ focus = "visual" /\ VisualNext
          /\ UNCHANGED <<navigationVars, performVars, logVars, fetchVars>>

Worker == WorkerInit /\ [][WorkerNext]_<<focus, navigationVars, performVars, logVars, fetchVars,
                                         visualVars>>
=============================================================================
