---------------------------- MODULE ConsoleCapture ----------------------------
(***************************************************************************)
(* Console capture in one tab: scripts the worker sends to the page's main  *)
(* world (src/packages/extension/src/background-console.ts) and the record  *)
(* they keep there under a key of the extension's session                   *)
(* (background-main-world-instrumentation.ts).  The page wraps and restores  *)
(* the console too.  What an entry says is left out: entries are counted.   *)
(***************************************************************************)
EXTENDS Naturals, FiniteSets, SequencesExt

CONSTANTS
    MaxConsoleBuffer,  \* MAX, 200 in the code
    MaxEntries,        \* entries the page makes
    MaxConsoleTurns    \* what the user, the page and the browser do

VARIABLES
    page,          \* the console's wrappers, outermost first, and the records, by key
    shared,        \* __bb_console_dropped: one for all records
    consoleSent,   \* executeScript calls on their way, in order
    consoleAccess, \* the window's grant, and the extension's session: its key
    consolePast,   \* history: entries heard, told and thrown away unread, other records,
                   \* the page's wrapping
    entriesMade, consoleTurns

consoleVars == <<page, shared, consoleSent, consoleAccess, consolePast, entriesMade, consoleTurns>>

RecordKey == 1..(1 + MaxConsoleTurns)
PageItself == 0      \* a wrapper of the page's own
NoRecord == [made |-> FALSE, on |-> FALSE, held |-> 0, dropped |-> 0, listens |-> FALSE, under |-> <<>>]
Fresh == [chain |-> <<>>, records |-> [k \in RecordKey |-> NoRecord]]
NothingHeard == [heard |-> 0, told |-> 0, thrown |-> 0, alone |-> TRUE, wrapped |-> FALSE]

ConsoleInit ==
    /\ page = Fresh /\ shared = 0 /\ consoleSent = <<>>
    /\ consoleAccess = [on |-> FALSE, key |-> 1]
    /\ consolePast = NothingHeard
    /\ entriesMade = 0 /\ consoleTurns = 0

ConsoleTurn == consoleTurns < MaxConsoleTurns /\ consoleTurns' = consoleTurns + 1
Sent(parts) == consoleSent' = consoleSent \o [i \in DOMAIN parts |-> [part |-> parts[i], key |-> consoleAccess.key]]
Current == page.records[consoleAccess.key]

-----------------------------------------------------------------------------
(* What the worker asks for                                                 *)

\* primeTabConsoleCapture with and without reset; page.get_console.
Prime(reset) == IF reset THEN <<"ensure", "discard">> ELSE <<"ensure">>

\* setWindowEnabled, for the window that is enabled too; whatever its records hold goes.
SwitchesOn ==
    /\ ConsoleTurn
    /\ consoleAccess' = [consoleAccess EXCEPT !.on = TRUE] /\ Sent(Prime(TRUE))
    /\ UNCHANGED <<page, shared, consolePast, entriesMade>>

\* initializeState: a worker that starts anew, the old one having been idle, primes likewise.
WorkerStarts ==
    /\ consoleAccess.on /\ consoleSent = <<>> /\ ConsoleTurn /\ Sent(Prime(TRUE))
    /\ UNCHANGED <<page, shared, consoleAccess, consolePast, entriesMade>>

\* The cleanup of the tab comes after its access has ended.
SwitchesOff ==
    /\ consoleAccess.on /\ ConsoleTurn
    /\ consoleAccess' = [consoleAccess EXCEPT !.on = FALSE] /\ Sent(<<"disable">>)
    /\ UNCHANGED <<page, shared, consolePast, entriesMade>>

AsksConsole(clears) ==
    /\ consoleAccess.on /\ ConsoleTurn /\ Sent(Prime(FALSE) \o <<IF clears THEN "clear" ELSE "read">>)
    /\ UNCHANGED <<page, shared, consoleAccess, consolePast, entriesMade>>

\* A new document: what was sent to the old one may find the new one.
LoadsPage(kept) ==
    /\ ConsoleTurn /\ page' = Fresh /\ shared' = 0 /\ consolePast' = NothingHeard
    /\ LET left == IF kept THEN consoleSent ELSE <<>>
       IN  consoleSent' = IF consoleAccess.on
                          THEN Append(left, [part |-> "ensure", key |-> consoleAccess.key]) ELSE left
    /\ UNCHANGED <<consoleAccess, entriesMade>>

\* An extension that is reloaded loses its session storage, and its grant.
Reloads ==
    /\ ConsoleTurn /\ consoleSent' = <<>>
    /\ consoleAccess' = [on |-> FALSE, key |-> consoleAccess.key + 1]
    /\ consolePast' = [NothingHeard EXCEPT !.wrapped = consolePast.wrapped,
                                             !.alone = \A k \in RecordKey : ~page.records[k].made]
    /\ UNCHANGED <<page, shared, entriesMade>>

-----------------------------------------------------------------------------
(* The scripts                                                              *)

Runs(part) == consoleSent # <<>> /\ Head(consoleSent).part = part /\ consoleSent' = Tail(consoleSent)
Record == page.records[Head(consoleSent).key]
Wrapped(k, chain) == chain # <<>> /\ Head(chain) = k

\* ensureConsoleInterceptor: the record is made once, and its wrappers put back only over
\* what they wrapped.
Ensures ==
    LET k == Head(consoleSent).key
        r == Record
        again == r.made /\ page.chain = r.under
    IN  /\ Runs("ensure")
        /\ page' = [chain |-> IF again \/ ~r.made THEN <<k>> \o page.chain ELSE page.chain,
                    records |-> [page.records EXCEPT ![k] =
                        IF r.made THEN [r EXCEPT !.on = TRUE, !.listens = TRUE,
                                                 !.held = IF r.on THEN @ ELSE 0,
                                                 !.dropped = IF r.on THEN @ ELSE 0]
                        ELSE [NoRecord EXCEPT !.made = TRUE, !.on = TRUE, !.listens = TRUE,
                                              !.under = page.chain]]]
        /\ shared' = page'.records[k].dropped
        /\ consolePast' = IF r.on THEN consolePast ELSE [consolePast EXCEPT !.heard = 0, !.told = 0, !.thrown = 0]
        /\ UNCHANGED <<consoleAccess, entriesMade, consoleTurns>>

\* disableConsoleInterceptor
Disables ==
    LET k == Head(consoleSent).key
    IN  /\ Runs("disable") /\ shared' = 0
        /\ page' = IF ~Record.made THEN page
                   ELSE [chain |-> IF Wrapped(k, page.chain) THEN Record.under ELSE page.chain,
                         records |-> [page.records EXCEPT ![k].on = FALSE, ![k].held = 0,
                                                          ![k].dropped = 0, ![k].listens = FALSE]]
        /\ consolePast' = [consolePast EXCEPT !.heard = 0, !.told = 0, !.thrown = 0]
        /\ UNCHANGED <<consoleAccess, entriesMade, consoleTurns>>

\* Broken variant of Cleared: the entries go, the count of those dropped stays.
BufferOnly(r) == [r EXCEPT !.held = 0]
Cleared(r) == [r EXCEPT !.held = 0, !.dropped = 0]

\* readConsoleBuffer: the entries and how many are missing; one that clears takes them,
\* for a reader, or for a prime that drops what it is given.
ReadsBuffer(part) ==
    LET k == Head(consoleSent).key
        taken == Record.held + Record.dropped
    IN  /\ Runs(part)
        /\ page' = IF part = "read" THEN page ELSE [page EXCEPT !.records[k] = Cleared(@)]
        /\ shared' = IF part = "read" THEN shared ELSE 0
        /\ consolePast' = CASE part = "read" -> consolePast
                             [] part = "clear" -> [consolePast EXCEPT !.told = @ + taken]
                             [] part = "discard" -> [consolePast EXCEPT !.thrown = @ + taken]
        /\ UNCHANGED <<consoleAccess, entriesMade, consoleTurns>>

-----------------------------------------------------------------------------
(* The page                                                                 *)

\* pushEntry, of a record the entry reaches: all add to the one count of those dropped.
Pushed(p, k) ==
    LET r == p.page.records[k]
        full == r.held = MaxConsoleBuffer
    IN  IF ~r.on THEN p
        ELSE IF full
        THEN [page |-> [p.page EXCEPT !.records[k].dropped = p.shared + 1], shared |-> p.shared + 1]
        ELSE [p EXCEPT !.page.records[k].held = @ + 1]

Heard(ks) ==
    LET after == FoldSeq(LAMBDA k, p : Pushed(p, k), [page |-> page, shared |-> shared], ks)
    IN  /\ page' = after.page /\ shared' = after.shared
        /\ consolePast' = IF Current.on /\ consoleAccess.key \in ToSet(ks)
                          THEN [consolePast EXCEPT !.heard = @ + 1] ELSE consolePast

MakesEntry == entriesMade < MaxEntries /\ entriesMade' = entriesMade + 1

\* console.log: through every wrapper, to the console.
Logs ==
    /\ MakesEntry /\ Heard(SelectSeq(page.chain, LAMBDA k : k # PageItself))
    /\ UNCHANGED <<consoleSent, consoleAccess, consoleTurns>>

\* An error nobody caught reaches the listeners.
Throws ==
    /\ MakesEntry
    /\ Heard(SetToSortSeq({k \in RecordKey : page.records[k].listens}, <))
    /\ UNCHANGED <<consoleSent, consoleAccess, consoleTurns>>

\* The page wraps the console, or puts back what it had wrapped.
PageWraps ==
    /\ ConsoleTurn /\ PageItself \notin ToSet(page.chain)
    /\ page' = [page EXCEPT !.chain = <<PageItself>> \o @]
    /\ consolePast' = [consolePast EXCEPT !.wrapped = TRUE]
    /\ UNCHANGED <<shared, consoleSent, consoleAccess, entriesMade>>

PageUnwraps ==
    /\ ConsoleTurn /\ Wrapped(PageItself, page.chain)
    /\ page' = [page EXCEPT !.chain = Tail(@)]
    /\ UNCHANGED <<shared, consoleSent, consoleAccess, consolePast, entriesMade>>

ConsoleNext ==
    \/ SwitchesOn \/ WorkerStarts \/ SwitchesOff \/ (\E b \in BOOLEAN : AsksConsole(b) \/ LoadsPage(b)) \/ Reloads
    \/ Ensures \/ Disables \/ (\E part \in {"read", "clear", "discard"} : ReadsBuffer(part))
    \/ Logs \/ Throws \/ PageWraps \/ PageUnwraps

-----------------------------------------------------------------------------
\* Console capture hears everything once and lets the page go (background-console.ts:44-281).
\* Of what reached the record since it was switched on, every entry was given to a reader, was
\* thrown away by the prime of a worker that started or of a window enabled (again), is
\* held, or is counted as dropped, if no record of an earlier extension session is in the
\* page; an entry passes a wrapper once; and once access has ended and the scripts have run,
\* the record is off and empty, without listeners, and its wrapper stays only if the page had wrapped it.
ConsoleHeardOnce ==
    LET settled == consoleSent = <<>> /\ ~consoleAccess.on
    IN  /\ consolePast.alone /\ Current.on =>
              consolePast.heard = consolePast.told + consolePast.thrown + Current.held + Current.dropped
        /\ \A i, j \in DOMAIN page.chain : page.chain[i] = page.chain[j] => i = j
        /\ settled => /\ ~Current.on /\ ~Current.listens /\ Current.held = 0 /\ Current.dropped = 0
                      /\ Wrapped(consoleAccess.key, page.chain) => consolePast.wrapped
=============================================================================
