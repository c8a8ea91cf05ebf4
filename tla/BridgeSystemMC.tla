--------------------------- MODULE BridgeSystemMC ---------------------------
(* Small instances of BridgeSystem: one agent, one browser, one tab.         *)
EXTENDS BridgeSystem

CONSTANTS a, b,      \* requests
          p1,        \* the agent
          x,         \* the extension connection
          t1         \* the tab

\* An input that learns its tab, and a navigation of that tab.
TwoOwner == [r \in Request |-> p1]
TwoTarget == [r \in Request |-> x]
TwoTab == [r \in Request |-> IF r = a THEN NoTab ELSE t1]
InputAndNavigation ==
    [r \in Request |-> IF r = b THEN "navigation" ELSE "input"]
=============================================================================
