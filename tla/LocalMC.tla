-------------------------------- MODULE LocalMC --------------------------------
(* Tools of a website and the console of its page, and two parts that work on   *)
(* files of the machine.  None shares state with another: the first state says  *)
(* which of them moves.                                                         *)
EXTENDS WebTools, ConsoleCapture, SkillInstall, NativeLauncher, TLC

VARIABLE focus

\* Calls are alike, and so are the processes that install or look for the binary.
Alike == Permutations(WebCall) \union Permutations(Installer)

\* Two clients share a directory, the third has its own; a batch may span both.
RunsOf ==
    {[remove |-> r, targets |-> t] : r \in {FALSE}, t \in {<<1, 2>>, <<2, 3>>}} \union
    {[remove |-> TRUE, targets |-> <<t>>] : t \in {1, 2}}
PlaceFor(client) == IF client = 3 THEN 2 ELSE 1

LocalInit ==
    /\ focus \in {"web", "console", "skill", "launch"}
    /\ WebInit /\ ConsoleInit /\ SkillInit /\ LaunchInit
    /\ focus # "skill" => \A d \in Place : skills[d] = Absent

LocalNext ==
    /\ UNCHANGED focus
    /\ \/ focus = "web" /\ WebNext /\ UNCHANGED <<consoleVars, skillVars, launchVars>>
       \/ focus = "console" /\ ConsoleNext /\ UNCHANGED <<webVars, skillVars, launchVars>>
       \/ focus = "skill" /\ SkillNext /\ UNCHANGED <<webVars, consoleVars, launchVars>>
       \/ focus = "launch" /\ LaunchNext /\ UNCHANGED <<webVars, consoleVars, skillVars>>

Local == LocalInit /\ [][LocalNext]_<<focus, webVars, consoleVars, skillVars, launchVars>>
=============================================================================
