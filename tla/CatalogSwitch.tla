--------------------------- MODULE CatalogSwitch ---------------------------
(***************************************************************************)
(* How the running service replaces the catalog it serves                  *)
(* (internal/app/app.go): any number of loads run replaceCatalog at the    *)
(* same time (admin handlers, and the recovery goroutine) while requests   *)
(* query the catalog under catalogMu, the process may be shut down, killed *)
(* and restarted at any step, and the operator replaces or removes files.  *)
(*                                                                         *)
(* catalogMu is a Go RWMutex: a writer first announces itself, which keeps *)
(* new readers out, and then waits for the readers already inside.         *)
(***************************************************************************)
EXTENDS Naturals, FiniteSets

CONSTANTS
  Paths,          \* catalog database files
  DefaultPath,    \* the configured CATALOG_DB_PATH
  Names,          \* display names a load can give
  ConfiguredName, \* "Configured catalog"
  Loaders,        \* goroutines that run replaceCatalog
  Readers,        \* requests that query the catalog
  NoHandle,       \* nil *catalog.Catalog
  NoLabel,        \* no active_catalog_* rows in settings
  Nobody,         \* a free mutex
  Closer,         \* the goroutine that runs App.Close
  EditsInFlight,  \* may a file change between its validation and its opening?
  IndexCanFail,   \* may indexing a valid catalog fail (disk full, ...)?
  MaxOpens        \* bound: no load begins once a process has opened this many

ASSUME ConstantsAssumption ==
  /\ DefaultPath \in Paths
  /\ ConfiguredName \in Names
  /\ Closer \notin Loaders
  /\ Nobody \notin Loaders \cup {Closer}
  /\ NoLabel \notin [path : Paths, name : Names]
  /\ MaxOpens \in Nat
  /\ EditsInFlight \in BOOLEAN
  /\ IndexCanFail \in BOOLEAN

\* good: Validate accepts it. damaged: SQLite opens it, but a table, its rows
\* or its integrity are missing. unusable: SQLite cannot open it.
Contents == {"good", "damaged", "unusable"}
Labels   == [path : Paths, name : Names]

\* An open database: id 0 is opened by the process start, id n by the n-th load
\* that gets as far as opening one. An info is what catalogInfo returns.
Handles == [id : Nat, path : Paths, content : {"good", "damaged"}]
Infos   == [label : Labels, revision : Nat]

ASSUME NoHandleAssumption == NoHandle \notin Handles \cup Infos

ConfiguredLabel == [path |-> DefaultPath, name |-> ConfiguredName]

VARIABLES
  file,      \* what each path holds
  saved,     \* the selection stored in app_state.sqlite
  phase,     \* of the process: down, up, closing, draining, closingState, closed
  open,      \* catalog handles that are open
  live,      \* App.catalog
  label,     \* App.catalogPath and App.catalogName
  revision,  \* App.catalogRevision; 0 while there is no process
  writer,    \* the writer that announced itself on catalogMu
  indexing,  \* holder of searchIndexBuildMu
  opened,    \* handles opened by loads of this process
  lpc,       \* where each load is
  want,      \* its arguments
  next,      \* the handle it opened
  old,       \* the handle it replaced
  inside,    \* requests that hold catalogMu for reading
  seen       \* what a request has read of the catalog during its query

disk    == <<file, saved>>
shared  == <<open, live, label, revision, writer>>
loading == <<indexing, opened, lpc, want, next, old>>
reading == <<inside, seen>>
vars    == <<disk, phase, shared, loading, reading>>

Init ==
  /\ file \in [Paths -> Contents]
  /\ saved = NoLabel
  /\ phase = "down"
  /\ open = {} /\ live = NoHandle /\ label = NoLabel /\ revision = 0
  /\ writer = Nobody /\ indexing = Nobody /\ opened = 0
  /\ lpc = [l \in Loaders |-> "idle"]
  /\ want = [l \in Loaders |-> NoLabel]
  /\ next = [l \in Loaders |-> NoHandle]
  /\ old = [l \in Loaders |-> NoHandle]
  /\ inside = {} /\ seen = [r \in Readers |-> {}]

---------------------------------------------------------------------------
(* Process start (NewWithOptions) and end.                                 *)

\* Wrong: a file SQLite cannot read yields a handle.
OpensAnything(p) == p \in Paths

\* sql.Open and Ping accept every file SQLite can read.
Opens(p) == file[p] # "unusable"

\* Outcomes of building or reusing the search index of p. A damaged catalog
\* can still have a readable torrents table, which is all the build reads.
IndexOutcomes(p) ==
  CASE file[p] = "good"     -> IF IndexCanFail THEN {TRUE, FALSE} ELSE {TRUE}
    [] file[p] = "damaged"  -> {TRUE, FALSE}
    [] file[p] = "unusable" -> {FALSE}

Serve(l) ==
  LET h == [id |-> 0, path |-> l.path, content |-> file[l.path]]
  IN /\ Opens(l.path)
     /\ phase' = "up"
     /\ open' = {h} /\ live' = h /\ label' = l /\ revision' = 1
     /\ UNCHANGED <<file, writer, loading, reading>>

\* No selection is stored: open the configured database, without an index.
StartConfigured ==
  /\ phase = "down" /\ saved = NoLabel
  /\ Serve(ConfiguredLabel)
  /\ UNCHANGED saved

StartSelected ==
  /\ phase = "down" /\ saved # NoLabel
  /\ TRUE \in IndexOutcomes(saved.path)
  /\ Serve(saved)
  /\ UNCHANGED saved

\* The selection cannot be indexed or opened: forget it (an error of the
\* delete is ignored) and open the configured database.
SelectionFails == saved # NoLabel /\ FALSE \in IndexOutcomes(saved.path)

StartFallback ==
  /\ phase = "down" /\ SelectionFails
  /\ saved' \in {NoLabel, saved}
  /\ Serve(ConfiguredLabel)

\* ... which cannot be opened either, so the process exits; or it is killed
\* right after the delete. The selection is gone.
StartAbandoned ==
  /\ phase = "down" /\ SelectionFails
  /\ saved' = NoLabel
  /\ UNCHANGED <<file, phase, shared, loading, reading>>

\* App.Close, run when Shutdown returned, perhaps at its 10 s timeout: handlers
\* and background goroutines can still be running.
BeginClose ==
  /\ phase = "up"
  /\ phase' = "closing"
  /\ UNCHANGED <<disk, shared, loading, reading>>

CloseLock ==
  /\ phase = "closing" /\ writer = Nobody
  /\ phase' = "draining" /\ writer' = Closer
  /\ UNCHANGED <<disk, open, live, label, revision, loading, reading>>

CloseCatalog ==
  /\ phase = "draining" /\ inside = {}
  /\ phase' = "closingState"
  /\ open' = open \ {live} /\ live' = NoHandle
  /\ writer' = Nobody
  /\ UNCHANGED <<disk, label, revision, loading, reading>>

CloseState ==
  /\ phase = "closingState"
  /\ phase' = "closed"
  /\ UNCHANGED <<disk, shared, loading, reading>>

\* The process exits or is killed, at any step.
ProcessEnds ==
  /\ phase # "down"
  /\ phase' = "down"
  /\ open' = {} /\ live' = NoHandle /\ label' = NoLabel /\ revision' = 0
  /\ writer' = Nobody /\ indexing' = Nobody /\ opened' = 0
  /\ lpc' = [l \in Loaders |-> "idle"]
  /\ want' = [l \in Loaders |-> NoLabel]
  /\ next' = [l \in Loaders |-> NoHandle]
  /\ old' = [l \in Loaders |-> NoHandle]
  /\ inside' = {} /\ seen' = [r \in Readers |-> {}]
  /\ UNCHANGED disk

---------------------------------------------------------------------------
(* One load: replaceCatalog, then replaceCatalogValidated.                 *)

At(l, place) == phase # "down" /\ lpc[l] = place

Goto(l, place) ==
  /\ lpc' = [lpc EXCEPT ![l] = place]
  /\ UNCHANGED <<want, next, old>>

\* The function returns, with or without an error; its locals are gone.
Return(l) ==
  /\ lpc' = [lpc EXCEPT ![l] = "idle"]
  /\ want' = [want EXCEPT ![l] = NoLabel]
  /\ next' = [next EXCEPT ![l] = NoHandle]
  /\ old' = [old EXCEPT ![l] = NoHandle]

\* A handler, or the recovery goroutine, which shutdown does not wait for.
BeginLoad(l, request) ==
  /\ At(l, "idle") /\ opened < MaxOpens
  /\ lpc' = [lpc EXCEPT ![l] = "validate"]
  /\ want' = [want EXCEPT ![l] = request]
  /\ UNCHANGED <<disk, phase, shared, indexing, opened, next, old, reading>>

\* Wrong: the load goes on although validation failed.
ValidateIgnored(l) ==
  /\ At(l, "validate")
  /\ Goto(l, "index")
  /\ UNCHANGED <<disk, phase, shared, indexing, opened, reading>>

Validate(l) ==
  /\ At(l, "validate")
  /\ IF file[want[l].path] = "good" THEN Goto(l, "index") ELSE Return(l)
  /\ UNCHANGED <<disk, phase, shared, indexing, opened, reading>>

EnterIndex(l) ==
  /\ At(l, "index") /\ indexing = Nobody
  /\ indexing' = l
  /\ Goto(l, "indexing")
  /\ UNCHANGED <<disk, phase, shared, opened, reading>>

BuildIndex(l) ==
  /\ At(l, "indexing")
  /\ indexing' = Nobody
  /\ \E ok \in IndexOutcomes(want[l].path) :
       IF ok THEN Goto(l, "open") ELSE Return(l)
  /\ UNCHANGED <<disk, phase, shared, opened, reading>>

\* Open the file and query its statistics: a damaged file may pass both.
OpenNext(l) ==
  LET p == want[l].path
      h == [id |-> opened + 1, path |-> p, content |-> file[p]]
  IN /\ At(l, "open") /\ Opens(p)
     /\ lpc' = [lpc EXCEPT ![l] = "persist"]
     /\ next' = [next EXCEPT ![l] = h]
     /\ open' = open \cup {h} /\ opened' = opened + 1
     /\ UNCHANGED <<disk, phase, live, label, revision, writer, indexing, want, old, reading>>

\* The file cannot be opened, or it can but the statistics query fails and
\* the handle is closed again.
OpenFails(l) ==
  /\ At(l, "open") /\ file[want[l].path] # "good"
  /\ Return(l)
  /\ UNCHANGED <<disk, phase, shared, indexing, opened, reading>>

\* Wrong: the selection is not stored.
PersistForgotten(l) ==
  /\ At(l, "persist")
  /\ Goto(l, "announce")
  /\ UNCHANGED <<disk, phase, shared, indexing, opened, reading>>

\* SetActiveCatalog commits the name and the path in one transaction.
Persist(l) ==
  /\ At(l, "persist") /\ phase # "closed"
  /\ saved' = want[l]
  /\ Goto(l, "announce")
  /\ UNCHANGED <<file, phase, shared, indexing, opened, reading>>

\* Wrong: the new handle is not closed when storing the selection failed.
PersistFailsOpen(l) ==
  /\ At(l, "persist")
  /\ Return(l)
  /\ UNCHANGED <<disk, phase, shared, indexing, opened, reading>>

\* It failed: the state database is closed, busy or full.
PersistFails(l) ==
  /\ At(l, "persist")
  /\ open' = open \ {next[l]}
  /\ Return(l)
  /\ UNCHANGED <<disk, phase, live, label, revision, writer, indexing, opened, reading>>

\* catalogMu.Lock, first half: no reader enters any more.
AnnounceLock(l) ==
  /\ At(l, "announce") /\ writer = Nobody
  /\ writer' = l
  /\ Goto(l, "swap")
  /\ UNCHANGED <<disk, phase, open, live, label, revision, indexing, opened, reading>>

\* Wrong: the handle is replaced while requests are querying it.
SwapHandleAtOnce(l) ==
  /\ At(l, "swap")
  /\ live' = next[l]
  /\ old' = [old EXCEPT ![l] = live]
  /\ next' = [next EXCEPT ![l] = NoHandle]
  /\ lpc' = [lpc EXCEPT ![l] = "label"]
  /\ UNCHANGED <<disk, phase, open, label, revision, writer, indexing, opened, want, reading>>

\* The readers that were inside have left; replace the handle ...
SwapHandle(l) ==
  /\ At(l, "swap") /\ inside = {}
  /\ live' = next[l]
  /\ old' = [old EXCEPT ![l] = live]
  /\ next' = [next EXCEPT ![l] = NoHandle]
  /\ lpc' = [lpc EXCEPT ![l] = "label"]
  /\ UNCHANGED <<disk, phase, open, label, revision, writer, indexing, opened, want, reading>>

\* ... then its path, name and revision, and unlock.
SwapLabel(l) ==
  /\ At(l, "label")
  /\ label' = want[l]
  /\ revision' = revision + 1
  /\ writer' = Nobody
  /\ Goto(l, "closeOld")
  /\ UNCHANGED <<disk, phase, open, live, indexing, opened, reading>>

CloseOld(l) ==
  /\ At(l, "closeOld")
  /\ open' = open \ {old[l]}
  /\ Return(l)
  /\ UNCHANGED <<disk, phase, live, label, revision, writer, indexing, opened, reading>>

---------------------------------------------------------------------------
(* One query: catalogHealthy, catalogStats, catalogCategories,             *)
(* catalogSearchPage, catalogInfo, loadTorrentPageData.                    *)

\* Wrong: a request enters past a writer that is waiting or inside.
EnterQueryPastWriter(r) ==
  /\ phase # "down" /\ r \notin inside
  /\ inside' = inside \cup {r}
  /\ UNCHANGED <<disk, phase, shared, loading, seen>>

\* RLock waits while a writer holds catalogMu or has announced itself.
EnterQuery(r) ==
  /\ phase # "down" /\ r \notin inside /\ writer = Nobody
  /\ inside' = inside \cup {r}
  /\ UNCHANGED <<disk, phase, shared, loading, seen>>

\* Dereference the catalog pointer and query it; the torrent page does it
\* twice. A nil pointer ends the query ("catalog is unavailable").
ReadCatalog(r) ==
  /\ r \in inside /\ seen[r] \subseteq Handles
  /\ seen' = [seen EXCEPT ![r] = @ \cup {live}]
  /\ UNCHANGED <<disk, phase, shared, loading, inside>>

ReadInfo(r) ==
  /\ r \in inside /\ seen[r] = {}
  /\ seen' = [seen EXCEPT ![r] = {[label |-> label, revision |-> revision]}]
  /\ UNCHANGED <<disk, phase, shared, loading, inside>>

LeaveQuery(r) ==
  /\ r \in inside /\ seen[r] # {}
  /\ inside' = inside \ {r}
  /\ seen' = [seen EXCEPT ![r] = {}]
  /\ UNCHANGED <<disk, phase, shared, loading>>

---------------------------------------------------------------------------
(* The operator's files.                                                   *)

\* The steps of a load between the validation of its file and its opening.
BetweenChecks == {"index", "indexing", "open"}

\* A file is replaced (renamed over) or removed: a handle that is open keeps
\* what it opened.
ChangeFile(p, content) ==
  /\ file[p] # content
  /\ \/ EditsInFlight
     \/ \A l \in Loaders : ~(lpc[l] \in BetweenChecks /\ want[l].path = p)
  /\ file' = [file EXCEPT ![p] = content]
  /\ UNCHANGED <<saved, phase, shared, loading, reading>>

---------------------------------------------------------------------------
Start == StartConfigured \/ StartSelected \/ StartFallback \/ StartAbandoned
Close == BeginClose \/ CloseLock \/ CloseCatalog \/ CloseState

LoadStep(l) ==
  \/ Validate(l) \/ EnterIndex(l) \/ BuildIndex(l) \/ OpenNext(l) \/ OpenFails(l)
  \/ Persist(l) \/ PersistFails(l) \/ AnnounceLock(l)
  \/ SwapHandle(l) \/ SwapLabel(l) \/ CloseOld(l)

QueryStep(r) == ReadCatalog(r) \/ ReadInfo(r) \/ LeaveQuery(r)

Next ==
  \/ Start \/ Close \/ ProcessEnds
  \/ \E l \in Loaders : LoadStep(l) \/ \E request \in Labels : BeginLoad(l, request)
  \/ \E r \in Readers : EnterQuery(r) \/ QueryStep(r)
  \/ \E p \in Paths, content \in Contents : ChangeFile(p, content)

Spec == Init /\ [][Next]_vars

\* Go schedules every goroutine, and both mutexes hand themselves to a waiter
\* that has waited long enough, hence strong fairness where a lock is taken.
Fairness ==
  /\ WF_vars(CloseCatalog)
  /\ \A l \in Loaders :
       /\ WF_vars(LoadStep(l))
       /\ SF_vars(EnterIndex(l)) /\ SF_vars(AnnounceLock(l))
  /\ \A r \in Readers : WF_vars(QueryStep(r)) /\ WF_vars(LeaveQuery(r))

FairSpec == Spec /\ Fairness
---------------------------------------------------------------------------
(* Properties.                                                             *)

Places == {"idle", "validate", "index", "indexing", "open", "persist",
           "announce", "swap", "label", "closeOld"}
Phases == {"down", "up", "closing", "draining", "closingState", "closed"}

\* Every variable stays in its range.
TypeOK ==
  /\ file \in [Paths -> Contents]
  /\ saved \in Labels \cup {NoLabel}
  /\ phase \in Phases
  /\ open \subseteq Handles
  /\ live \in Handles \cup {NoHandle}
  /\ label \in Labels \cup {NoLabel}
  /\ revision \in Nat
  /\ writer \in Loaders \cup {Closer, Nobody}
  /\ indexing \in Loaders \cup {Nobody}
  /\ opened \in Nat
  /\ lpc \in [Loaders -> Places]
  /\ want \in [Loaders -> Labels \cup {NoLabel}]
  /\ next \in [Loaders -> Handles \cup {NoHandle}]
  /\ old \in [Loaders -> Handles \cup {NoHandle}]
  /\ inside \subseteq Readers
  /\ seen \in [Readers -> SUBSET (Handles \cup {NoHandle} \cup Infos)]

\* No request ever queries a database that a load or the shutdown has closed:
\* a handle a running query has read stays open until the query leaves.
NoUseAfterClose ==
  \A r \in inside : seen[r] \cap Handles \subseteq open

\* A torrent page is built from one catalog even when a load replaces the
\* catalog between its two queries.
OneCatalogPerQuery ==
  \A r \in Readers : \A v, w \in seen[r] : v = w

\* Every open database is the served one or still belongs to a load under
\* way: no outcome of a load, and no interleaving of two, loses a handle.
NoLeakedHandle ==
  open \subseteq {live} \cup {next[l] : l \in Loaders} \cup {old[l] : l \in Loaders}

\* When no file changes between its validation and its opening, a catalog that
\* a load put in service is one that Validate accepted, whatever other loads
\* and the operator did meanwhile.
ServedWasValidated ==
  (~EditsInFlight /\ live # NoHandle /\ live.id > 0) => live.content = "good"

\* No load is between storing its selection and serving it.
Settled == \A l \in Loaders : lpc[l] \notin {"announce", "swap", "label"}

\* What a restart would reopen is what is being served. (A start that fell
\* back to the configured catalog and failed to delete the selection keeps it.)
SelectionSurvivesRestart ==
  (phase = "up" /\ Settled) =>
     \/ label = (IF saved = NoLabel THEN ConfiguredLabel ELSE saved)
     \/ label = ConfiguredLabel /\ revision = 1

\* A restart never gives up a selection whose file is still a valid catalog.
ValidSelectionRemembered ==
  [][phase = "down" /\ saved # NoLabel /\ file[saved.path] = "good" =>
       saved' = saved]_vars

\* The catalog, label and revision the requests observe change together, and
\* each query is answered from one moment: CatalogSwitch implements
\* ServedCatalog, a load taking effect when its label is in place.
ServedNow ==
  [handle   |-> IF \E l \in Loaders : lpc[l] = "label" THEN old[writer] ELSE live,
   label    |-> label,
   revision |-> revision]

Abs == INSTANCE ServedCatalog WITH served <- ServedNow, answer <- seen

ImplementsServedCatalog == Abs!AbsSpec

\* Every load returns, however many requests keep querying the catalog.
LoadsFinish == \A l \in Loaders : lpc[l] # "idle" ~> lpc[l] = "idle"

\* Shutdown gets past the readers and withdraws the catalog.
CloseFinishes == phase = "draining" ~> phase # "draining"
=============================================================================
