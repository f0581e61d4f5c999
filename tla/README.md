# Who Pirates the Pirates: TLA+ models and proofs

The program serves a read-only SQLite torrent catalog over HTTP and gives an
administrator the means to replace that catalog while it is being served:
uploads, local files, and references that `aria2c` downloads and the program
then extracts, validates and loads by itself. This directory models the parts of
it in which several activities meet: goroutines and mutexes, background work,
crashes and restarts, and state kept partly in memory and partly on disk.

Every definition is translated from the code and named after it where TLA+
allows. `PROJECT.json` lists, for each one, the lines it stands for.

## The system

| Component | State | Operations | Talks to |
| --- | --- | --- | --- |
| Active catalog (`app.go`, `state.go`) | `App.catalog`, path, name and revision under `catalogMu`; the stored selection `active_catalog_*`; `searchIndexBuildMu` | start with fallback, `replaceCatalog`, queries, `Close` | every request handler, recovery, state store, search index |
| Reference download and recovery (`recovery.go`, `app.go`) | `import_references`, files in the download and extraction directories, `recoveryMu`, the `downloads` map | record, start and watch `aria2c`, recover, resume after a restart, reset | `aria2c`, `7z`, the active catalog, catalog sources |
| Admin session and login limiter (`app.go`, `state.go`) | `admin_session_epoch`, the secret, `loginAttempts` under `loginMu` | login, logout, settings update, expiry | every admin handler |
| Search index on disk (`search_index.go`) | the FTS database beside the state, its fingerprint | match, adopt, build, attach | active catalog |
| Catalog reader and page cache (`catalog.go`, `search_cache.go`) | pooled connections, cached statistics and categories, an LRU of result pages | validate, open, search, close | active catalog, search index |
| Browse page (`index.html`) | revision last seen, refresh flag, displayed rows | poll, refresh, search | `/api/catalog-status`, `/api/stats`, `/api/categories`, `/api/search` |
| Catalog sources and uploads (`app.go`, `state.go`) | `catalog_sources`, uploaded copies | create, update, delete, upload, load | active catalog, recovery |
| `setup` and `load-catalog` commands (`setup.go`) | the configured catalog file and its backups, `service.env` | create, validate, back up, copy, rename | the next process start |
| Manifest import (`internal/importer`) | none; rows in the state store | parse, validate, preview | state store |
| `aria2c` output (`aria2.go`) | a partial line | split, parse | downloads map |
| Operational records (`state.go`) | manifests, runs, sources, audit | list, export, delete | admin handlers |
| HTTP surface, services and packaging | none shared | routing, headers, templates, installation | |

What is hard in it, and what each component has to guarantee:

- **Active catalog.** Loads run in admin handlers and in the recovery goroutine
  at the same time, while queries hold `catalogMu` for reading and shutdown stops
  waiting for handlers after ten seconds. A query must never use a closed
  database or two catalogs; no failure may leak a database; the revision the
  browse page polls must change with the catalog; what a restart reopens must be
  what was served; a load must not wait for ever.
- **Recovery.** `aria2c` can outlive the process, a crash leaves files
  half-written, the watcher and the resume both want to recover a reference, and
  the operator removes files or resets the records in between. Only complete,
  valid catalogs may be reported loaded or be selected, nothing may be recovered
  twice, every recovery must end, and a restart must pick up what is left.
- **Admin session.** Logout revokes by raising an epoch that another handler
  reads and writes back; the login limit is checked and counted in separate
  critical sections. A revoked token must stay revoked, guesses and the table of
  clients must stay bounded.
- **Search index.** It lies beside a catalog file that the operator may replace at
  any moment, is built while queries run, and is attached by connections made at
  different times. A search must never join a catalog with the index of another.
- **Page cache.** Two limits in one loop, entries that replace themselves, several
  requests that miss the same page. It must stay within its limits and evict the
  oldest; following `nextOffset` must show every result once.
- **Browse page.** Requests and polls overlap and are answered in any order, by a
  server that restarts with its revisions at 1. The page must end up knowing the
  revision being served, and must show that catalog unless an answer was lost or
  overtaken.
- **Catalog sources and uploads.** Handlers read and write in separate statements,
  a file is in place before its row. Rows must name whole files, files must not be
  left over, and a button must act on the source it was shown beside.
- **`setup` and `load-catalog`.** Killed between any two steps they must not
  leave a catalog that is incomplete, nor lose one that was installed.
- **`aria2c` output.** A pipe cuts it anywhere, and three activities write the
  status it feeds. Where it is cut must not matter, and nothing may change the
  outcome once it is known.
- **Manifest import and records.** Files grow while they are hashed; foreign keys
  hold per connection. Limits must hold whatever the files do, runs must have
  sources, a manifest and its run must appear together.

`PROJECT.json` lists the hazards one by one, at their lines, with the property
that covers each or the reason why none does.

## Modules

| Module | What it is |
| --- | --- |
| `ServedCatalog` | What the requests are promised: catalog, label and revision change as one, and a query is answered from one moment. |
| `CatalogSwitch` | How the code does it: concurrent loads, the RWMutex, queries, start, shutdown, kill, restart, changing files. Implements `ServedCatalog`. |
| `CatalogSwitchProofs` | Its inductive invariant, the theorems, and the refinement. |
| `LoginLimiter` | The limiter's operations, each under `loginMu`. |
| `AdminSession` | Login, logout, settings update and expiry over `LoginLimiter`, which it extends. |
| `AdminSessionProofs` | The theorems on revocation, on the limit of guesses and on the limiter's table. |
| `ReferenceRecovery` | Download, recovery and resume of references. |
| `ReferenceRecoveryProofs` | Its inductive invariant and the theorems. |
| `SearchIndex` | The index beside a catalog, its builds, and the connections that attach it. |
| `SearchIndexProofs` | Its inductive invariant and the theorems. |
| `CatalogInstall` | The commands `setup` and `load-catalog`, step by step. |
| `CatalogInstallProofs` | Its inductive invariant and the theorems. |
| `CatalogSources` | The table of sources, uploads, and the row a recovery registers. |
| `CatalogSourcesProofs` | Its inductive invariant and the theorems. |
| `SearchPages` | Clients that page through results, and the cache of pages. |
| `DownloadProgress` | The output of `aria2c`, the status in memory and in the row. |
| `ManifestCheck` | The files of a manifest, hashed while others write to them. |
| `ImportRecords` | Import sources, runs and manifests under SQLite's transactions. |
| `ImportProofs` | The theorems of `ImportRecords` and of `ManifestCheck`, each with its inductive invariant. |
| `BrowsePage` | The page, its polls and its requests, and the server it asks. |
| `DisplayProofs` | The theorems of `SearchPages`, `DownloadProgress` and `BrowsePage`, each with its inductive invariant, and the lemmas on sums and folds they share. |
| `MCComponents` | One instance for the seven modules that share no state: which of them moves is chosen at the start. |
| `MC*` | The other small instances for TLC, one `.cfg` per run. |

`CatalogSwitch`, `AdminSession` (with `LoginLimiter`) and `ReferenceRecovery` each
name their variables alone. The other modules prefix what they share names for
(`InstallNext`, `IndexNext`, ...), so that `MCComponents` can extend all seven.
Where two modules meet, each has the other's outcome: the load of a catalog is
`CatalogSwitch`'s, with its steps, and one step in `ReferenceRecovery`,
`SearchIndex` and `CatalogSources`; a build is `SearchIndex`'s, and an outcome
with a lock in `CatalogSwitch`; the row a recovery registers is
`CatalogSources`'s, and an outcome in `ReferenceRecovery`.

### CatalogSwitch

`file` is the file system, `saved` the selection in `app_state.sqlite`, `live`,
`label`, `revision` the fields of `App`, `open` the databases that are open,
`writer` and `inside` the two sides of `catalogMu`, `indexing` the owner of
`searchIndexBuildMu`. A load's `lpc` walks through `replaceCatalogValidated` one
interleaving point at a time: validate, wait for and build the index, open,
store the selection, announce the write lock, wait for the readers and swap the
handle, swap the label, close the old database. Go's `RWMutex` prefers writers,
so announcing (`AnnounceLock`) and getting in (`SwapHandle`) are two steps:
between them no new reader enters. The handle and the label are two steps too,
so that what protects readers from the moment in between is the lock and not
the grain of the model.

A file is `good` (passes `Validate`), `damaged` (SQLite opens it, a check would
refuse it) or `unusable`. An index build may succeed on a damaged file. The
process can be killed at any step. `Close` runs while loads are still running:
`Shutdown` gives up after its timeout and the recovery goroutine is never waited
for. Refused requests and audit rows change nothing here and are left out.

`ServedNow` is the refinement mapping: a load takes effect when its label is in
place, so in the middle of the swap the abstract catalog is still the old one.

### AdminSession

A token carries the epoch and secret it was signed with; `Accepted` is `isAdmin`.
`handleAdminTorUpdate` reads the settings and writes all of them back in another
transaction (`TorReads`, `TorWrites`); logout is a single `UPDATE`. In the
limiter time is reduced to what the code compares: whether a client's window is
over, and the order in which clients were last seen. That order is a relation,
`before`, and the oldest of some clients (`Oldest`) is the one that was seen
before all the others.

### ReferenceRecovery

Each reference downloads one file into `reference-<id>`; the file is absent,
partial or whole. `Found` is `findReferenceArtifact` with its three stages: the
reference's own directory, names that fit in the whole download directory, the
only file there. `handler` is the request handler that becomes the watcher of
`aria2c`; `job` is the one recovery that holds `recoveryMu`, `waiting` the
goroutines that want it; `resume` is the goroutine a start launches, which works
through what it read of the rows (`resuming`), newest first. A row's statuses
change exactly where the code calls `setDownloadStatus` and `setRecoveryStatus`,
and an update of a deleted row changes nothing. Extraction may stop at any
moment and leave a part of a catalog file, also when the process dies. An
`aria2c` that survives the process completes its file later; a surviving `7z`
completes it at once. Loading the catalog
is one step, since `CatalogSwitch` has its details; it opens whatever file is
there, because `replaceCatalogValidated` does not validate again.

Left out: the numbers of the transfer (`DownloadProgress` has them, and the
in-memory `downloads` map; the path it carries over into a status is modelled in
`SetProgress`), several files in one reference's directory, the limit of 100
references a resume reads, an unavailable state store. The two `UPDATE`s of `setDownloadStatus` are one step.

### SearchIndex

A catalog file has a content and a modification time, which is what
`fingerprintSource` tells apart; the operator may rename a newer or an older file
over it, and remove the index. A build takes the fingerprint, opens the source,
copies, stamps and renames, in that order; `xpc` is where the one load is that
holds `searchIndexBuildMu`. Connections of the pool that is served are made when
a request needs one, from the files that are there at that moment, and keep them.
A page is put together from a count and a list, each on any connection. Two
conditions bound what is promised, and both are history variables: `moved` (the
file was replaced while it was being loaded) and `backdated` (an older file was
put in place, which no time gives away). Adopting an index of an older release may also fail with its metadata table
made and empty (`Unstamped`): the next load then builds a new one.

### CatalogInstall

`cpc` walks each command through its steps; an error or a kill may end it at any
of them (`SetupStops`, `LoadStops`). A backup is named after the second, and may
be given to `load-catalog` again. The creation of an empty catalog is two steps,
because the file appears with the first of its statements.

### CatalogSources

Each admin request is at a place `spc`, with the form it was sent or the source
whose button was pressed (`target`, on a page that may be old). `rows` maps ids to
rows; `last` is the `autoincrement` counter, which neither deletions nor the reset
set back. An upload is a spool file, then a file of its own, then a row.

### SearchPages

A page is the range of results it holds, a query one value for text, category
and order. `Put` says what remains after the eviction loop: the largest number of
most recent pages that leaves room. `recent` is a history, the relation of which
cached key was used after which; it is kept apart from the cache's own list, so
that eviction is compared with actual uses. The sizes of pages are summed by a
recursive function. The order of a query's matches is taken to be total; in the code no
`ORDER BY` ends in a unique column, and equal rows come in the order SQLite takes.

### DownloadProgress

`hpc` is the request handler, `apc` the watcher, `wpc` the goroutine that copies the
output. `memory` changes under `downloadMu`, `row` in a later step, as in
`setDownloadStatus` and `setDownloadProgress`. The text of the output is a
sequence of numbers and line ends; a line that is cut off is not a progress line.
`Reading` reads a text in one pass, one character after the other, and `Consume`
applies it to the incomplete line and the chunk that has come.

### ManifestCheck and ImportRecords

In the first, any file may change its length between two steps; names resolve
through links to the same or to no file. In the second, `work` is what an open
transaction has changed, seen by nobody else; `Permits` is the foreign key as
each connection enforces it.

### BrowsePage

`flight` holds the requests of the page; a request gets its catalog when the
server handles it (`Serves`) and is shown later (`Shows`), in any order. `known` is
`catalogRevision`. A poll is started by the timer whether or not the one before is
over, so several can be under way, and each clears the refresh flag when it ends.
`Facts` is what a refresh asks for first, statistics and categories: a poll goes on
to search when it has both (`Awaited`), and no longer waits for one when the other
failed. `Visitors` is how many searches the visitor may have under way at a time;
what nobody waits for is sent by `Script`. `disturbed` records the ways in which a
page does become stale until the next change: a failed request, an older answer
shown over a newer, and a switch before the first poll.

## Runs

| Run | Shows | Expectation |
| --- | --- | --- |
| `switch_overlap` | two loads, one query, files changing at any time: `NoUseAfterClose`, `OneCatalogPerQuery`, `NoLeakedHandle`, `ImplementsServedCatalog` | pass |
| `switch_serial` | one load at a time, two requests that never stop: `SelectionSurvivesRestart`, `ServedWasValidated`, `LoadsFinish`, `CloseFinishes` | pass |
| `switch_selection` | `SelectionSurvivesRestart` when two loads overlap | violated |
| `switch_forget` | `ValidSelectionRemembered` when an index cannot be built at start | violated |
| `session` | `RevokedStaysRevoked`, `GuessesBounded`, `TableBounded` | pass |
| `session_tor` | `RevokedStaysRevoked` when a logout falls into a settings update | violated |
| `recovery` | `LoadedIsValid`, `SelectionIsValid`, `RecoveredOnce`, with an operator who interferes | pass |
| `recovery_live` | `RecoveriesEnd`, `RestartResumes` | pass |
| `components` | `InstalledIsWhole`, `CatalogsKept`, `SetupIsComplete`; `IndexIsOfSource`, `SearchesAgree`; `UploadsAreWhole`, `NoStrayFiles`, `ActsOnWhatWasShown`, `RecoveredIsListed`; `CacheBounded`, `EvictsOldestOnly`, `BrowsingIsComplete`; `ChunksDoNotMatter`, `OutcomeStands`, `ProgressIsShown`; `ManifestIsBounded`; `RunsHaveSources`, `SeenTogether`, `ResetGoesThrough` | pass |
| `browse_page` | `PageIsCurrent`, `PageCatchesUp` | pass |
| `recovery_foreign` | `LoadedIsRequested`: a recorded reference loads its own catalog | violated |
| `recovery_partial` | `CompletedIsWhole`: a completed download is complete | violated |

Every property of a passing run is broken by a wrong variant of some definition
(the operators under a comment that begins with "Wrong:"), which shows that it
depends on what the code does.

### What the properties except

Some properties hold only apart from a case that the code does not handle. Each such
case is a named history variable or hypothesis, as narrow as the code allows; without
it, TLC finds the property violated in that case.

| Property | Excepts | What happens then |
| --- | --- | --- |
| `SelectionSurvivesRestart` | two loads that overlap | run `switch_selection` |
| `RevokedStaysRevoked` | a settings update that overlaps a logout (`TorOverlaps`) | run `session_tor` |
| `ServedWasValidated` | a file that changes after its validation (`EditsInFlight`) | It is served unvalidated; the deployment guides have the operator stop the service first. |
| `RecoveredOnce` | the outcome a watcher writes when its own download ends | It replaces that of a resume that was faster, and the reference is recovered again. |
| `InstalledIsWhole`, `SetupIsComplete` | the one file a setup was writing when it was cut short (`interrupted`) | The next setup keeps a catalog without its tables, or a blank `service.env`, and reports completion. |
| `CatalogsKept` | two loads at once, two backups of one name (`overlapped`, `reused`) | A backup, or a catalog that was just installed, is overwritten. |
| `IndexIsOfSource`, `SearchesAgree` | an older file put in place (`backdated`) | The index of the former catalog is adopted, if it has no metadata. |
| `IndexIsOfSource`, `SearchesAgree` | a file replaced under a load, or while it is served (`moved`, `servedMoved`) | Connections join different catalogs until the next load. |
| `NoStrayFiles` | the upload a kill cut short (`cutShort`) | Its whole file stays, and nothing refers to it. |
| `RecoveredIsListed` | rows that others wrote between reading and writing (`changed`) | If the row itself was deleted, the catalog is loaded without a source. |
| `ProgressIsShown` | progress told before the started status is in place (`raced`) | It is not shown until the next is told. |
| `PageIsCurrent` | a failed request, an older answer over a newer, a switch before the first poll (`disturbed`); a revision known from an earlier process | The page is stale until the next change. |

What `load-catalog` does between its renames is in no property's way: once the
installed catalog is a backup, and until the copy is in its place, a service that
starts finds none, also after a load that failed or was killed there.
`InstalledIsWhole` says that what is found is complete, `CatalogsKept` that the
former catalog is still there as a backup.

### What the violated runs show

- `switch_selection`: load A stores its selection, load B stores its own and
  swaps, then A swaps. The process serves A and the store says B, which the next
  start opens. Storing and swapping are not one critical section.
- `switch_forget`: `NewWithOptions` treats every failure of
  `ensureCatalogSearchIndex` as a bad selection and deletes it, so a full disk
  at one start loses the selection of a valid catalog.
- `session_tor`: a settings update reads epoch *n*, a logout makes it *n+1*, the
  update writes *n* back: the tokens the logout revoked are accepted again.
- `recovery_foreign`: with one file under the download directory a newly
  recorded reference finds it as its own "existing completed download", never
  downloads, and loads another reference's catalog.
- `recovery_partial`: the resume marks a download completed for a file `aria2c`
  left incomplete; the handler's check for the `.aria2` control file is not
  made there. Validation still refuses the file (`LoadedIsValid` holds).

### Bounds, and why they are enough

- Two files, two loads, one or two requests. The loads' interactions are
  pairwise: two mutexes, one pointer, one stored row. `MaxOpens` bounds the
  catalogs a process loads one after another (a load may begin while fewer have
  been opened, so with two loads both can be under way at once); restarts are not
  bounded. One name is enough, as a label also has its path. The theorems below
  remove these bounds for the safety properties.
- Three clients with room for two, a limit of two guesses, two requests: the
  smallest numbers with an eviction of a client other than the one that arrives,
  and with two attempts that pass the check together. Two logins, two logouts and
  one restart let a revoked token meet a later login, a later logout and a new
  process.
- Two references, a plain catalog and an archive: every
  branch of `recoverReference` is reached (an archive can still fail, be left
  half-extracted or be reused), and two recoveries compete for `recoveryMu` with
  the resume. A third adds only another waiter. In `recovery_live` the archive
  holds no valid catalog, so that failures are reported as well as successes.
  Restarts, and the operator's actions, are not bounded.
- `components`: two commands on two sources, so that a load can overtake another,
  with two seconds, so that two backups can have one name or two; two contents and
  two times of a catalog file with two connections, one made before and one after
  a replacement; two admin requests, two rows and one upload, so that a deletion
  can come between the two statements of another request and an id could be given
  twice; two readers and two queries of three and six results, read in pages of
  one or six with room for two pages and five units, so that either limit can be
  the one that is exceeded (two pages of four and two units do not fit although
  two entries may be kept, and one of seven is never kept) and an entry can be
  evicted while another request queries it; three lines of progress, one of them with two line ends and one
  without a meaning, in writes of any length; manifests of up to three names, two
  files of up to three bytes and a limit of two files and three bytes; two admins,
  two connections and two ids. The components share no state, so that exploring
  one at a time loses no behaviour. Kills, failures and replacements are not bounded.
- `browse_page`: three catalogs (a switch in the middle of the refresh for another),
  two polls that can overlap, and one restart or failed request. One fact stands for
  the two, which are asked for together and shown alike, and the visitor has one
  search under way beside those of the polls; with two of either the states are too
  many. `PageCorrect` is for any number of both.

### Fairness, and why the code justifies it

- Steps of a goroutine that is not blocked are weakly fair: Go schedules it.
- Taking a contended lock is strongly fair (`EnterIndex`, `AnnounceLock`,
  `Begin`): a `sync.Mutex` enters starvation mode after a millisecond and is
  handed to the oldest waiter, and an `RWMutex` takes its inner mutex for
  writers. Waiting for readers needs no such assumption: once the writer has
  announced itself no reader enters, and readers leave because queries end
  (`LeaveQuery`).
- `7z` need not end by itself: `ExtractorSucceeds` has no fairness. What ends an
  extraction is `archiveExtractTimeout` (`ExtractorStopped`).
- The page's timer keeps firing and its requests are answered, or fail, a bounded
  number of times (`PageFairness`): `setInterval` and `fetch`. The server's
  switches are bounded, so `PageCatchesUp` is about the time after the last one.
- `aria2c`, process starts, kills, the operator, and new requests have none.

Deadlock is checked in every run: a process that has stopped can always start
again, and a download that is over is given a step that changes nothing.

## Proofs

`tlapm` checks these for all values of the constants that satisfy the named
assumptions of the modules (`ConstantsAssumption`, `NoHandleAssumption`,
`LimiterAssumption`, `SessionAssumption`, `RecoveryAssumption`, `IndexAssumption`,
`InstallAssumption`, `RecordsAssumption`, `SourcesAssumption`,
`ManifestAssumption`, `PagesAssumption`, `ProgressAssumption`, `PageAssumption`:
model values are distinct from what they stand apart from, bounds are positive,
names resolve to files, queries have a number of matches, the output is a sequence
of numbers, the requests served at a time are finitely many). Every safety
property of a passing run is stated by a theorem.

`CatalogSwitchProofs`:

- `TypeCorrect`, `QueriesOpenCatalogs`, `QueriesOneCatalog`, `HandlesOwned`: the
  safety invariants of `switch_overlap`, for any number of files, loads and
  requests.
- `Implements`: `Spec => AbsSpec` under the mapping `ServedNow`.
- `ServesValidated`: only validated catalogs are put in service, if files do not
  change under a load.
- `SelectionKept`: what is served is what a restart reopens, if no two loads
  overlap (stated as: there is at most one loader). `switch_selection` shows that
  the hypothesis is needed.

None of the safety properties is inductive by itself. `IInv` adds who holds
`catalogMu` at which place (`LockInv`: with it, nobody is inside when the label
is swapped), who owns which database (`OwnerInv`), that no database has two
owners (`DistinctInv`: otherwise one load could close what another serves), that
a new database is really new (`FreshInv`), that what a running query has read is
still what is served (`SeenInv`: the reason why closing the old database after
the swap is safe), that a load has its arguments (`ArgInv`), and that a process
that is down holds nothing (`PhaseInv`). Each part has a lemma with one step per
action; `ValidInv` and `SelectionInv` extend it for the last two theorems.

`AdminSessionProofs`: `LogoutRevokes`, revocation for any number of clients,
requests, logins and restarts, provided that no logout falls into a settings
update. `EpochInv` says that no token and no login under way is ahead of the
stored epoch, that an update about to write holds the stored epoch, and that the
epoch has moved past all revoked tokens. `GuessesLimited` bounds the failures that
overlapping logins of one client can count: `GuessInv` says that once the limit is
reached, the failures counted and the attempts that passed the check before
together stay below the limit plus the number of requests. `TypesCorrect` and
`TableCorrect` rest on `LimiterInv`: the tracked clients are finitely many, and
`before` orders them totally and without cycles. Without that there need be no
oldest client, and `CHOOSE` would name one that is not in the table, so that
evicting it would make no room; `OldestIs` shows that the client the fewest others
were seen before is the oldest.

`ReferenceRecoveryProofs`: `LoadedCorrect`, `SelectionCorrect` and `OnceCorrect`, for any
number of references and any interference by the operator. None of the three is
inductive: that what is loaded is valid depends on what a job will report later,
and on files that are still being written. `RecoveryIInv` adds to the type invariant

- `StartInv`: a reference that has not been started has neither a file nor an
  `aria2c`, and a running `aria2c` has no whole file. Without it a reference could
  trust a path at which a file is only now beginning.
- `TrustInv`: whatever the selection, a loaded row, or a job about to register,
  load or report relies on is *sound*: a complete and valid catalog, or removed
  since. `SoundNext` shows that a sound path stays sound, and `TrustNext` that
  nobody relies on another one than was validated or trusted before.
- `JobInv`: the reference a job works on is not reported as loaded, and an
  extraction under way has an empty directory, so that a half-extracted file
  never replaces a validated one.

`SearchIndexProofs`: `IndexCorrect` and `SearchesCorrect`, for any catalogs, times and
connections. The invariant says that nothing on disk is newer than the clock and
that the source is the newest file unless one was backdated (`TimeInv`), that what
an index says of itself is true of the source or of the past (`MetaInv`), that
a build under way has read what its fingerprint names, or the past (`BuildInv`),
and that connections and pages are those of the source while it stays
(`ServedInv`).

`CatalogInstallProofs`: `InstalledCorrect`, `BackupsCorrect` and `SetupCorrect`, for any
number of commands and sources. The invariant says who can be at work at once
(`OneAtATime`), that whatever is incomplete, a backup or a copy included, is the
work of a setup that is under way or was cut short (`WholeInv`), what a setup has
done at each place (`SetupInv`), and that a command that is about to put a catalog
in place finds none there (`VacantInv`).

`ImportProofs`: of `ImportRecords`, `SourcesStay`, `ResetSucceeds` and
`RecordedTogether`, for any number of requests, connections and records. The
invariant says that one request is in a transaction (`WriterInv`), that no id is
given twice (`IdsInv`), and what a recording has inserted (`RecordingInv`) and a
reset has emptied so far (`ResetInv`, which is why the sources can go last). Of
`ManifestCheck`, `ManifestCorrect`, for any names, links, lengths and limits:
`ListsInv` says that the files read are different and that every name listed was
read or is still to be examined, `BytesInv` that what is reported was read.

`CatalogSourcesProofs`: `UploadsCorrect`, `NothingIsLeftBehind`, `ActsRight` and
`RecoveredRegistered`, for any number of requests, uploads and sources. `BornInv` says
that an id is the number of its insertion, in the table and on every page that was
shown, so that no id stands for a second source. `UploadInv` says that an upload
which has a path and no row yet is named by nobody else: that is why a request
whose insertion fails can remove the file, and why a row's file never goes.
`LookedInv` says that what a recovery has read is still so of every row that nobody
wrote since.

`DisplayProofs`, of three modules:

- `CacheCorrect`, `EvictionCorrect` and `BrowsingCorrect` of `SearchPages`, for any
  queries, numbers of matches, limits and readers. `CacheInv` says that the cached
  pages are those their keys ask for, that their sizes add up to the count that is
  kept, and that the list is in the order of the uses (`recent`); `ReaderInv` that
  what a reader has seen is the first *n* matches, where *n* is the offset it asks
  for next. That the eviction loop keeps the largest number of pages for which there
  is room, and that the rest adds up, are lemmas on parts of sequences (`PutIs`,
  `SizesOfConcat`, `OneOfMany`).
- `OutputCorrect`, `OutcomeCorrect` and `ProgressCorrect` of `DownloadProgress`, for
  any output. `Chunks` is the reason why it does not matter where the pipe cuts:
  reading what was left of the last line and then the new chunk tells the same
  as reading on. `Phases` says which of handler, process, watcher and writer can be
  at work together, `ReadSoFar` what was told, `ShowsLast` what memory and row
  show of it, and `Ends` what the watcher has recorded.
- `PageCorrect` of `BrowsePage`, for any number of polls, catalogs and restarts.
  `CoveredInv` says of each part that it is of the catalog whose revision the page
  knows, or that an answer is coming that is (`Promises`): a poll that waits for a
  fact will ask for the rows.

The sums of `SearchPages` and the readings of `DownloadProgress` are recursive functions.
The library's induction theorems cannot be used for them, as they take an operator.
`Inductive` states induction for a *set* of numbers, from the well-foundedness of
`<`; `FoldExists` derives from it that a function computed from one value to the
next exists, and the lemmas on sums and readings use the two.

Only model-checked: the liveness properties, as the provers do not handle fairness
and `ENABLED` (`LoadsFinish`, `CloseFinishes`, `RecoveriesEnd`, `RestartResumes`,
`PageCatchesUp`), and what the violated runs show.

## Plan

What is left, in the order of what it would add:

1. An abstract specification of a reference's recovery (asked for, then recovered or
   failed, recovered once), and the proof that `ReferenceRecovery` implements it.
2. `ReferenceRecovery` with several files in one download directory, where
   `findReferenceArtifact` takes the newest.
3. `CatalogSwitch`'s build outcome as an abstraction of `SearchIndex`, by refinement.
4. The cached statistics and categories of a catalog handle.

Runs stay few: what a new module shares with an old question joins its run.

## Not modelled

- Templates, styling, response headers, `Host` and origin checks, request limits:
  stateless decisions about one request.
- Listing, filtering and exporting records, and the audit log: single SQL
  statements on rows that nothing decides on.
- The text of queries, the parsing of magnet links and of the numbers in a line
  of `aria2c`: string handling without state.
- Service units, containers, release scripts: configuration.
- Vendored or generated code: none is here. SQLite, the file system, `aria2c` and
  `7z` are modelled by what the program can observe of them, and marked external.

Two of the hazards have no property. A recovery that is resumed after a restart
loads its catalog over the one the operator chose since; nothing in the
repository says which should win. An `aria2c` that outlives its process and ends
after the resume has looked is not recovered before the next restart, which is
how the resume is designed.

## Running

```
tlc -workers 2 -config MCCatalogSwitch.cfg MCCatalogSwitch
tlc -workers 2 -config MCComponents.cfg MCComponents
tlapm CatalogSwitchProofs.tla
tlapm ReferenceRecoveryProofs.tla
tlapm DisplayProofs.tla
```
