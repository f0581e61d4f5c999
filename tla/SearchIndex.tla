---------------------------- MODULE SearchIndex ----------------------------
(***************************************************************************)
(* The full-text index beside a catalog (internal/catalog/search_index.go, *)
(* ensureCatalogSearchIndex in app.go) and the connections that read both  *)
(* (catalog.go).  A load matches the index on disk against the catalog     *)
(* file, adopts or rebuilds it, and opens a pool whose connections are     *)
(* made one by one, when requests need them, each of the two files then    *)
(* present.  The operator replaces the catalog file by renaming another    *)
(* over it; an open connection keeps the file it opened.                   *)
(***************************************************************************)
EXTENDS Naturals

CONSTANTS
  Data,          \* what a catalog file may contain
  MaxTime,       \* bound: modification times
  Connections,   \* the pool, maxCatalogConnections of them
  Nothing,       \* no file, no metadata, no connection, no page
  Unstamped      \* a metadata table without its row

InPart == "in part"      \* some of the rows of a catalog
Times == 1..MaxTime
\* What fingerprintSource tells apart: path, size and modification time.
Fingerprints == [data : Data, time : Times]
\* A legacy index has no metadata.
IndexFiles == [rows : Data \cup {InPart}, meta : Fingerprints \cup {Nothing, Unstamped}, time : Times]
\* A connection joins the torrents of one file with the rows of another.
Joins == [torrents : Data, rows : Data \cup {InPart}]

ASSUME IndexAssumption ==
  /\ MaxTime \in Nat \ {0}
  /\ Nothing \notin Data \cup Fingerprints \cup IndexFiles \cup Joins
  /\ Nothing \notin [total : Joins, items : Joins]
  /\ Unstamped \notin Fingerprints \cup {Nothing}

VARIABLES
  source,      \* the catalog file
  clock,       \* the time of the newest file
  index,       \* the index on disk
  building,    \* <index>.building
  xpc,         \* where the load is that holds searchIndexBuildMu
  fingerprint, \* of the source, taken by BuildSearchIndex before it reads
  reading,     \* the content it opened
  pool,        \* the connections of the catalog being served
  total,       \* the first half of SearchPage: the connection it counted on
  page,        \* the page in the cache: the connections of its two halves
  backdated,   \* history: a file older than the newest was put in place
  moved,       \* history: the source was replaced since the load began
  servedMoved  \* history: the same, of the load that is being served

indexVars == <<source, clock, index, building, xpc, fingerprint, reading, pool,
               total, page, backdated, moved, servedMoved>>
served == <<pool, total, page, servedMoved>>

\* An index of an older release may be there, of this or another catalog.
IndexInit ==
  /\ source \in [data : Data, time : {1}]
  /\ clock = 1
  /\ index \in {Nothing} \cup [rows : Data, meta : {Nothing}, time : {1}]
  /\ building = Nothing
  /\ xpc = "idle"
  /\ fingerprint = Nothing
  /\ reading = Nothing
  /\ pool = [k \in Connections |-> Nothing]
  /\ total = Nothing
  /\ page = Nothing
  \* such an index is in order only if it is the source's own
  /\ backdated = (index # Nothing /\ index.rows # source.data)
  /\ moved = FALSE
  /\ servedMoved = FALSE

-----------------------------------------------------------------------------
(* The operator and the process.                                           *)

Replaced(file) ==
  /\ source' = file
  /\ moved' = TRUE
  /\ servedMoved' = TRUE
  /\ UNCHANGED <<index, building, xpc, fingerprint, reading, pool, total, page>>

ReplaceSource(d) ==
  /\ clock < MaxTime
  /\ clock' = clock + 1
  /\ Replaced([data |-> d, time |-> clock + 1])
  /\ UNCHANGED backdated

RestoreSource(d, t) ==
  /\ t < clock
  /\ backdated' = TRUE
  /\ Replaced([data |-> d, time |-> t])
  /\ UNCHANGED clock

RemoveIndex ==
  /\ index # Nothing
  /\ index' = Nothing
  /\ UNCHANGED <<source, clock, building, xpc, fingerprint, reading, served, backdated, moved>>

\* A kill; the next start loads the catalog again.
ProcessDies ==
  /\ xpc' = "idle"
  /\ fingerprint' = Nothing
  /\ reading' = Nothing
  /\ pool' = [k \in Connections |-> Nothing]
  /\ total' = Nothing
  /\ page' = Nothing
  /\ moved' = FALSE
  /\ servedMoved' = FALSE
  /\ UNCHANGED <<source, clock, index, building, backdated>>

-----------------------------------------------------------------------------
(* ensureCatalogSearchIndex: SearchIndexMatches, then BuildSearchIndex.    *)

LoadCatalog ==
  /\ xpc = "idle"
  /\ xpc' = "matching"
  /\ moved' = FALSE
  /\ UNCHANGED <<source, clock, index, building, fingerprint, reading, served, backdated>>

\* Wrong: the time is not compared.
MatchesWrong(file) == index # Nothing /\ index.meta # Nothing

\* The metadata names the source as it is now.
Matches(file) == index # Nothing /\ index.meta = file

\* An index without metadata, with rows, not older than the source.
IsLegacyOf(file) == index # Nothing /\ index.meta = Nothing /\ index.time >= file.time

MatchIndex ==
  /\ xpc = "matching"
  /\ Matches(source)
  /\ building' = Nothing
  /\ xpc' = "opening"
  /\ UNCHANGED <<source, clock, index, fingerprint, reading, served, backdated, moved>>

\* adoptLegacySearchIndex stamps it, which changes its time.  Failing to do so is
\* not an error; with the table made and the row not inserted, the next load
\* takes the index neither for a match nor for a legacy one.
AdoptIndex ==
  /\ xpc = "matching"
  /\ IsLegacyOf(source)
  /\ \/ \E stamp \in {source, Unstamped} :
          index' = [index EXCEPT !.meta = stamp, !.time = clock]
     \/ UNCHANGED index
  /\ building' = Nothing
  /\ xpc' = "opening"
  /\ UNCHANGED <<source, clock, fingerprint, reading, served, backdated, moved>>

FindNoMatch ==
  /\ xpc = "matching"
  /\ ~Matches(source)
  /\ ~IsLegacyOf(source)
  /\ xpc' = "building"
  /\ UNCHANGED <<source, clock, index, building, fingerprint, reading, served, backdated, moved>>

TakeFingerprint ==
  /\ xpc = "building"
  /\ fingerprint' = source
  /\ xpc' = "fingerprinted"
  /\ UNCHANGED <<source, clock, index, building, reading, served, backdated, moved>>

\* The source is opened, and a new file replaces what an earlier build left.
StartBuild ==
  /\ xpc = "fingerprinted"
  /\ reading' = source.data
  /\ building' = [rows |-> InPart, meta |-> Nothing, time |-> clock]
  /\ xpc' = "copying"
  /\ UNCHANGED <<source, clock, index, fingerprint, served, backdated, moved>>

\* Rows are committed in batches of 10000; this is the last of them.
CommitLastBatch ==
  /\ xpc = "copying"
  /\ building' = [building EXCEPT !.rows = reading]
  /\ xpc' = "copied"
  /\ UNCHANGED <<source, clock, index, fingerprint, reading, served, backdated, moved>>

\* Wrong: the metadata names the source as it is after the copy.
WriteMetadataWrong ==
  /\ xpc = "copied"
  /\ building' = [building EXCEPT !.meta = source, !.time = clock]
  /\ xpc' = "stamped"
  /\ UNCHANGED <<source, clock, index, fingerprint, reading, served, backdated, moved>>

WriteMetadata ==
  /\ xpc = "copied"
  /\ building' = [building EXCEPT !.meta = fingerprint, !.time = clock]
  /\ xpc' = "stamped"
  /\ UNCHANGED <<source, clock, index, fingerprint, reading, served, backdated, moved>>

InstallIndex ==
  /\ xpc = "stamped"
  /\ index' = building
  /\ building' = Nothing
  /\ fingerprint' = Nothing
  /\ reading' = Nothing
  /\ xpc' = "opening"
  /\ UNCHANGED <<source, clock, served, backdated, moved>>

\* An error at any of these steps; the deferred removal takes the new file.
BuildFails ==
  /\ xpc \in {"building", "fingerprinted", "copying", "copied", "stamped"}
  /\ building' = IF xpc \in {"building", "fingerprinted"} THEN building ELSE Nothing
  /\ fingerprint' = Nothing
  /\ reading' = Nothing
  /\ xpc' = "idle"
  /\ UNCHANGED <<source, clock, index, served, backdated, moved>>

-----------------------------------------------------------------------------
(* The pool.                                                               *)

\* A connection opens the catalog and attaches the index, by their paths.
Connection == [torrents |-> source.data, rows |-> index.rows]

\* OpenWithSearchIndex makes one connection (Ping); the swap closes the pool
\* that was served, with its cache.
OpenCatalog ==
  /\ xpc = "opening"
  /\ index # Nothing
  /\ \E k \in Connections :
       pool' = [j \in Connections |-> IF j = k THEN Connection ELSE Nothing]
  /\ total' = Nothing
  /\ page' = Nothing
  /\ servedMoved' = moved
  /\ xpc' = "idle"
  /\ UNCHANGED <<source, clock, index, building, fingerprint, reading, backdated, moved>>

OpenFails ==
  /\ xpc = "opening"
  /\ xpc' = "idle"
  /\ UNCHANGED <<source, clock, index, building, fingerprint, reading, served, backdated, moved>>

InService == \E k \in Connections : pool[k] # Nothing

Connect(k) ==
  /\ InService
  /\ pool[k] = Nothing
  /\ index # Nothing
  /\ pool' = [pool EXCEPT ![k] = Connection]
  /\ UNCHANGED <<source, clock, index, building, xpc, fingerprint, reading,
                 total, page, backdated, moved, servedMoved>>

\* SearchPage: count(*) on one connection, the items on the same or another.
CountMatches(k) ==
  /\ pool[k] # Nothing
  /\ page = Nothing
  /\ total' = pool[k]
  /\ UNCHANGED <<source, clock, index, building, xpc, fingerprint, reading,
                 pool, page, backdated, moved, servedMoved>>

ListItems(k) ==
  /\ pool[k] # Nothing
  /\ total # Nothing
  /\ page' = [total |-> total, items |-> pool[k]]
  /\ total' = Nothing
  /\ UNCHANGED <<source, clock, index, building, xpc, fingerprint, reading,
                 pool, backdated, moved, servedMoved>>

IndexNext ==
  \/ \E d \in Data : ReplaceSource(d)
  \/ \E d \in Data, t \in Times : RestoreSource(d, t)
  \/ RemoveIndex
  \/ ProcessDies
  \/ LoadCatalog \/ MatchIndex \/ AdoptIndex \/ FindNoMatch
  \/ TakeFingerprint \/ StartBuild \/ CommitLastBatch \/ WriteMetadata \/ InstallIndex
  \/ BuildFails
  \/ OpenCatalog \/ OpenFails
  \/ \E k \in Connections : Connect(k) \/ CountMatches(k) \/ ListItems(k)

IndexSpec == IndexInit /\ [][IndexNext]_indexVars
-----------------------------------------------------------------------------
IndexTypeOK ==
  /\ source \in Fingerprints
  /\ clock \in Times
  /\ index \in IndexFiles \cup {Nothing}
  /\ building \in IndexFiles \cup {Nothing}
  /\ xpc \in {"idle", "matching", "building", "fingerprinted", "copying", "copied",
              "stamped", "opening"}
  /\ fingerprint \in Fingerprints \cup {Nothing}
  /\ reading \in Data \cup {Nothing}
  /\ pool \in [Connections -> Joins \cup {Nothing}]
  /\ total \in Joins \cup {Nothing}
  /\ page \in [total : Joins, items : Joins] \cup {Nothing}
  /\ backdated \in BOOLEAN
  /\ moved \in BOOLEAN
  /\ servedMoved \in BOOLEAN

\* An index a load is about to use holds the rows of the catalog it loads, all
\* of them, whatever builds were killed, failed, or overtaken by another
\* replacement before; unless the file is replaced under this load, or an
\* older file was put back, which neither metadata nor times give away.
IndexIsOfSource ==
  xpc = "opening" /\ index # Nothing /\ ~moved /\ ~backdated => index.rows = source.data

\* While the file stays as the load found it, every search joins a catalog
\* with its own index, and a page's total and its items come from the same
\* one, on whichever connections they were read and whenever these were made.
SearchesAgree ==
  ~servedMoved /\ ~backdated =>
    \A k \in Connections :
      pool[k] # Nothing =>
        /\ pool[k].rows = pool[k].torrents
        /\ page # Nothing => page.items = pool[k] /\ page.total = pool[k]
=============================================================================
