---------------------------- MODULE WindowSessionMC ----------------------------
(* The window's grant and two parts that follow it, each with the grant        *)
(* abstracted in its own way: the first state says which of them moves.        *)
EXTENDS WindowSession, AgentTabs, TLC

VARIABLE focus

\* Window and AgentTab are the same values.
Alike == Permutations(Window) \union Permutations(Route)

WindowInit ==
    /\ focus \in {"session", "tabs", "groups"}
    /\ Init /\ AgentTabsInit /\ GroupsInit
    /\ focus # "session" => enabled = NoGrant /\ stored = Nothing
    /\ focus # "groups" => strip = SetToSeq(StripTab)

\* The bounds of the two others may be used up.
Rests == focus # "session" /\ UNCHANGED <<vars, tabVars, groupVars>>

WindowNext ==
    /\ UNCHANGED focus
    /\ \/ /\ focus = "session" /\ Next
          /\ UNCHANGED <<tabVars, groupVars>>
       \/ /\ focus = "tabs" /\ AgentTabsNext
          /\ UNCHANGED <<vars, groupVars>>
       \/ /\ focus = "groups" /\ GroupsNext
          /\ UNCHANGED <<vars, tabVars>>
       \/ Rests

WindowRuns == WindowInit /\ [][WindowNext]_<<focus, vars, tabVars, groupVars>>
===============================================================================
