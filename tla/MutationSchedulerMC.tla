------------------------ MODULE MutationSchedulerMC ------------------------
(***************************************************************************)
(* Small instances of MutationScheduler.  What the agents ask for is given  *)
(* by definitions: the model values a, b, ... are routed requests.          *)
(***************************************************************************)
EXTENDS MutationScheduler

CONSTANTS a, b, c, d,      \* requests
          p1, p2,          \* agents
          x, y,            \* extension connections
          t1, t2           \* tabs

\* Two browsers with the same tab ids: two inputs and a navigation compete
\* in the first, and two requests may turn out to be for any tab.
TwoBrowsersOwner == (a :> p1) @@ (b :> p2) @@ (c :> p1) @@ (d :> p2)
TwoBrowsersTarget == (a :> x) @@ (b :> x) @@ (c :> x) @@ (d :> y)
TwoBrowsersMethod ==
    (a :> "input") @@ (b :> "navigation") @@ (c :> "input") @@ (d :> "input")
TwoBrowsersTab == (a :> t1) @@ (b :> t1) @@ (c :> NoTab) @@ (d :> NoTab)

\* One browser: a mutation whose answer passes through the storage executor,
\* a read beside it, and an input; p1 may have one request pending, not two.
ExportOwner == (a :> p1) @@ (b :> p1) @@ (c :> p2)
ExportTarget == [r \in {a, b, c} |-> x]
ExportMethod == (a :> "export") @@ (b :> "read") @@ (c :> "input")
ExportTab == (a :> NoTab) @@ (b :> NoTab) @@ (c :> t1)
=============================================================================
