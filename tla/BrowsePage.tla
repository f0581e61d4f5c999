----------------------------- MODULE BrowsePage -----------------------------
(***************************************************************************)
(* The browse page (templates/index.html) against the server behind it.    *)
(* The page loads counts, categories and rows, then asks for the catalog's *)
(* revision every five seconds and refreshes all three when the revision   *)
(* differs from the one it knows.  Nothing orders the answers: each is     *)
(* shown when it arrives, and a poll does not wait for the one before.     *)
(***************************************************************************)
EXTENDS Naturals

CONSTANTS
  Polls,         \* polls that can be under way at a time: 1..n
  Visitors,      \* the visitor's searches that can be under way at a time
  Script,        \* sends what nobody waits for
  Facts,         \* what a refresh asks for first, together: stats and categories
  MaxCatalogs,   \* bound: the catalogs ever served, numbered in their order
  MaxTroubles    \* bound: restarts of the server and failed requests, together

Parts == Facts \cup {"rows"}

ASSUME PageAssumption ==
  /\ 1 \in Polls
  /\ Visitors # {} /\ Facts # {} /\ "rows" \notin Facts
  /\ Polls \cap (Visitors \cup {Script}) = {}
  /\ MaxCatalogs \in Nat \ {0}
  /\ MaxTroubles \in Nat

VARIABLES
  served,      \* the server's catalog
  revision,    \* and its revision, 1 in a new process
  life,        \* restarts so far
  known,       \* catalogRevision; 0 is null
  knownLife,   \* history: the process that revision came from
  refreshing,  \* catalogRefreshInFlight
  step,        \* where each poll is
  heard,       \* the answer on its way to each poll: a revision and its process
  flight,      \* requests for parts: who sent it, which, the catalog in its answer
  shown,       \* the catalog each part of the page is of; 0 is none
  troubles,    \* restarts and failed requests so far
  disturbed    \* history: a cause of staleness since the last refresh began

pageVars == <<served, revision, life, known, knownLife, refreshing, step, heard,
              flight, shown, troubles, disturbed>>

NotHeard == [revision |-> 0, life |-> 0]
Sent(who, parts) == {[by |-> who, part |-> p, catalog |-> 0] : p \in parts}

\* What the Promise.all of a poll waits for.
Awaited(who) == {f \in flight : who \in Polls /\ f.by = who /\ f.part \in Facts}

\* The page has just run its script.
PageInit ==
  /\ served = 1
  /\ revision = 1
  /\ life = 0
  /\ known = 0
  /\ knownLife = 0
  /\ refreshing = FALSE
  /\ step = [p \in Polls |-> IF p = 1 THEN "asking" ELSE "idle"]
  /\ heard = [p \in Polls |-> NotHeard]
  /\ \E v \in Visitors : flight = Sent(Script, Facts) \cup Sent(v, {"rows"})
  /\ shown = [p \in Parts |-> 0]
  /\ troubles = 0
  /\ disturbed = FALSE

-----------------------------------------------------------------------------
\* The server: a load takes service with the next revision...
Switches ==
  /\ served < MaxCatalogs
  /\ served' = served + 1
  /\ revision' = revision + 1
  /\ disturbed' = (disturbed \/ known = 0)
  /\ UNCHANGED <<life, known, knownLife, refreshing, step, heard, flight, shown, troubles>>

\* ...or another process starts, with the same catalog or another.
Restarts ==
  /\ troubles < MaxTroubles
  /\ troubles' = troubles + 1
  /\ life' = life + 1
  /\ revision' = 1
  /\ \/ UNCHANGED <<served, disturbed>>
     \/ /\ served < MaxCatalogs
        /\ served' = served + 1
        /\ disturbed' = (disturbed \/ known = 0)
  /\ UNCHANGED <<known, knownLife, refreshing, step, heard, flight, shown>>

\* The handlers answer from the catalog they find.
Serves(f) ==
  /\ f.catalog = 0
  /\ flight' = (flight \ {f}) \cup {[f EXCEPT !.catalog = served]}
  /\ UNCHANGED <<served, revision, life, known, knownLife, refreshing, step, heard,
                 shown, troubles, disturbed>>

ServesStatus(p) ==
  /\ step[p] = "asking"
  /\ heard[p] = NotHeard
  /\ heard' = [heard EXCEPT ![p] = [revision |-> revision, life |-> life]]
  /\ UNCHANGED <<served, revision, life, known, knownLife, refreshing, step, flight,
                 shown, troubles, disturbed>>

-----------------------------------------------------------------------------
\* The interval timer starts the next poll, whatever became of the one before.
StartsPoll(p) ==
  /\ step[p] = "idle"
  /\ step' = [step EXCEPT ![p] = "asking"]
  /\ UNCHANGED <<served, revision, life, known, knownLife, refreshing, heard, flight,
                 shown, troubles, disturbed>>

\* An answer arrives: its revision is recorded or not, a refresh begins or not.  A
\* poll that ends clears the flag, even when the refresh is not its own.
Hears(p, records, refreshes) ==
  /\ step[p] = "asking"
  /\ heard[p] # NotHeard
  /\ heard' = [heard EXCEPT ![p] = NotHeard]
  /\ known' = IF records THEN heard[p].revision ELSE known
  /\ knownLife' = IF records THEN heard[p].life ELSE knownLife
  /\ refreshing' = refreshes
  /\ step' = [step EXCEPT ![p] = IF refreshes THEN "refreshing" ELSE "idle"]
  /\ flight' = IF refreshes THEN flight \cup Sent(p, Facts) ELSE flight
  /\ disturbed' = (disturbed /\ ~refreshes)
  /\ UNCHANGED <<served, revision, life, shown, troubles>>

\* Wrong: the revision is recorded before another refresh is looked for.
HearsStatusWrong(p) ==
  Hears(p, TRUE, known \notin {0, heard[p].revision} /\ ~refreshing)

\* Wrong: a revision that is not higher than the known one is taken for an old answer.
IgnoresLowerWrong(p) ==
  LET refreshes == known # 0 /\ heard[p].revision > known /\ ~refreshing
  IN Hears(p, known = 0 \/ refreshes, refreshes)

\* The first revision is only recorded; a revision that is known, or that comes
\* during a refresh, is dropped; another is recorded and begins a refresh.
HearsStatus(p) ==
  LET refreshes == known \notin {0, heard[p].revision} /\ ~refreshing
  IN Hears(p, known = 0 \/ refreshes, refreshes)

StatusFails(p) ==
  /\ step[p] = "asking"
  /\ troubles < MaxTroubles
  /\ troubles' = troubles + 1
  /\ heard' = [heard EXCEPT ![p] = NotHeard]
  /\ step' = [step EXCEPT ![p] = "idle"]
  /\ refreshing' = FALSE
  /\ UNCHANGED <<served, revision, life, known, knownLife, flight, shown, disturbed>>

\* The visitor searches, or takes another page, whatever became of the searches
\* before: the old rows go at once.
Searches(v) ==
  /\ \A f \in flight : f.by # v
  /\ flight' = flight \cup Sent(v, {"rows"})
  /\ shown' = [shown EXCEPT !["rows"] = 0]
  /\ UNCHANGED <<served, revision, life, known, knownLife, refreshing, step, heard,
                 troubles, disturbed>>

\* An answer is shown, over an earlier or a later one.  A poll that has both its
\* facts goes on to search, and one that has its rows is over.
Shows(f) ==
  LET complete == Awaited(f.by) = {f}
      over == f.by \in Polls /\ f.part = "rows"
  IN /\ f.catalog # 0
     /\ disturbed' = (disturbed \/ f.catalog < shown[f.part])
     /\ flight' = (flight \ {f}) \cup (IF complete THEN Sent(f.by, {"rows"}) ELSE {})
     /\ shown' = [p \in Parts |-> IF p = f.part THEN f.catalog
                                 ELSE IF p = "rows" /\ complete THEN 0 ELSE shown[p]]
     /\ step' = IF complete THEN [step EXCEPT ![f.by] = "searching"]
                ELSE IF over THEN [step EXCEPT ![f.by] = "idle"] ELSE step
     /\ refreshing' = (refreshing /\ ~over)
     /\ UNCHANGED <<served, revision, life, known, knownLife, heard, troubles>>

\* A request fails: rows make way for the message, and the refresh it was for is
\* over.  Of its other fact, which is shown when it comes, it does not wait.
PartFails(f) ==
  /\ troubles < MaxTroubles
  /\ troubles' = troubles + 1
  /\ flight' = (flight \ (Awaited(f.by) \cup {f}))
               \cup {[g EXCEPT !.by = Script] : g \in Awaited(f.by) \ {f}}
  /\ disturbed' = TRUE
  /\ shown' = IF f.part = "rows" THEN [shown EXCEPT !["rows"] = 0] ELSE shown
  /\ step' = IF f.by \in Polls THEN [step EXCEPT ![f.by] = "idle"] ELSE step
  /\ refreshing' = (refreshing /\ f.by \notin Polls)
  /\ UNCHANGED <<served, revision, life, known, knownLife, heard>>

PageNext ==
  \/ Switches \/ Restarts
  \/ \E p \in Polls : ServesStatus(p) \/ StartsPoll(p) \/ HearsStatus(p) \/ StatusFails(p)
  \/ \E v \in Visitors : Searches(v)
  \/ \E f \in flight : Serves(f) \/ Shows(f) \/ PartFails(f)

PageSpec == PageInit /\ [][PageNext]_pageVars

\* The timer keeps firing; a request is answered and its answer arrives.
PageFairness ==
  /\ \A p \in Polls : WF_pageVars(StartsPoll(p) \/ ServesStatus(p) \/ HearsStatus(p))
  /\ \A who \in Polls \cup Visitors \cup {Script}, part \in Parts :
       WF_pageVars(\E f \in flight : f.by = who /\ f.part = part /\ (Serves(f) \/ Shows(f)))

FairPageSpec == PageSpec /\ PageFairness

-----------------------------------------------------------------------------
(* When no request is under way and the page knows the server's revision,  *)
(* counts, categories and rows are all of the catalog being served: what   *)
(* index.html:259-264 does on a change cannot miss one that comes in the   *)
(* middle of a refresh.  What can leave the page stale until the next      *)
(* change is excepted by name: a failed request, an answer shown over a    *)
(* newer one, a switch before the first poll recorded the revision         *)
(* (`disturbed`), and a revision known from an earlier process.            *)
PageIsCurrent ==
  flight = {} /\ known = revision /\ knownLife = life /\ ~disturbed =>
    \A p \in Parts : shown[p] = served

(* Once the server stays as it is and requests are answered, every page    *)
(* comes to know its revision (index.html:259) and ends its refreshes,     *)
(* however its polls overlapped, whatever failed before, and also when a   *)
(* new process has started its revisions from 1 again.                     *)
PageCatchesUp ==
  <>[](known = revision /\ \A p \in Polls : step[p] \in {"idle", "asking"})
=============================================================================
