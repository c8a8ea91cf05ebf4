-------------------------- MODULE DaemonStorageMC --------------------------
(* Small instances of DaemonStorage: two screenshots of one chunk and a       *)
(* recording with a journal, one agent that asked for them, one browser.      *)
EXTENDS DaemonStorage

CONSTANTS s1, s2, j1,   \* requests
          p1,           \* the agent
          x, y          \* the extension connections

OneOwner == [r \in Request |-> p1]
TwoTargets == [r \in Request |-> IF r = s2 THEN y ELSE x]
OneChunk == [r \in Request |-> IF r = j1 THEN 0 ELSE 1]
\* The two screenshots differ in name only.
Alike == Permutations({s1, s2})
=============================================================================
