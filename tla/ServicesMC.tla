------------------------------ MODULE ServicesMC ------------------------------
(* Seven parts that share nothing, explored side by side: the first state says *)
(* which of them moves.                                                       *)
EXTENDS NativeUpdate, DomBaselines, WindowActions, DaemonPeers, BridgeClient,
        DaemonLifecycle, AccessPrompts, TLC

VARIABLE focus

Feeds == <<{1, 2}, {2, 3}>>
Alike == Permutations(Process) \union Permutations(Tab)

ServicesInit ==
    /\ focus \in {"update", "baselines", "actions", "peers", "client",
                 "lifecycle", "prompts"}
    /\ UpdateInit /\ BaselinesInit /\ ActionsInit /\ PeersInit /\ ClientInit
    /\ LifecycleInit /\ PromptInit
    /\ focus # "update" => bootstrap = 1
    /\ focus # "lifecycle" => socket = NoDaemon

ServicesNext ==
    /\ UNCHANGED focus
    /\ \/ /\ focus = "update" /\ UpdateNext
          /\ UNCHANGED <<baselineVars, actionVars, peerVars, clientVars,
                         lifecycleVars, promptVars>>
       \/ /\ focus = "baselines" /\ BaselinesNext
          /\ UNCHANGED <<updateVars, actionVars, peerVars, clientVars,
                         lifecycleVars, promptVars>>
       \/ /\ focus = "actions" /\ ActionsNext
          /\ UNCHANGED <<updateVars, baselineVars, peerVars, clientVars,
                         lifecycleVars, promptVars>>
       \/ /\ focus = "peers" /\ PeersNext
          /\ UNCHANGED <<updateVars, baselineVars, actionVars, clientVars,
                         lifecycleVars, promptVars>>
       \/ /\ focus = "client" /\ ClientNext
          /\ UNCHANGED <<updateVars, baselineVars, actionVars, peerVars,
                         lifecycleVars, promptVars>>
       \/ /\ focus = "lifecycle" /\ LifecycleNext
          /\ UNCHANGED <<updateVars, baselineVars, actionVars, peerVars,
                         clientVars, promptVars>>
       \/ /\ focus = "prompts" /\ PromptNext
          /\ UNCHANGED <<updateVars, baselineVars, actionVars, peerVars,
                         clientVars, lifecycleVars>>

Services == ServicesInit /\ [][ServicesNext]_<<focus, updateVars, baselineVars, actionVars, peerVars,
                                               clientVars, lifecycleVars, promptVars>>
=============================================================================
