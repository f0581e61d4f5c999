--------------------------- MODULE CatalogSources ---------------------------
(***************************************************************************)
(* The table catalog_sources and the uploaded catalogs it names: the admin *)
(* handlers that create, upload, change, switch, delete and load a source, *)
(* the registration at the end of a recovery, and the operational reset.   *)
(* A handler reads and writes the table in separate statements, so those   *)
(* of other requests come in between; the process may be killed anywhere.  *)
(* A load is an outcome here: CatalogSwitch has its steps.                 *)
(***************************************************************************)
EXTENDS Naturals, Functions

CONSTANTS
  Requests,     \* the admin requests served at a time
  Magnets,      \* magnet links
  NoMagnet,     \* a source without one
  Paths,        \* paths of catalogs that are not uploads: typed, or recovered
  NoPath,       \* a source without a path
  MaxSources,   \* bound: rows ever inserted
  MaxUploads    \* bound: uploads ever renamed to a path of their own

Uploads == 1..MaxUploads
Ids == 1..MaxSources
Row == [magnet : Magnets \cup {NoMagnet}, path : Paths \cup Uploads \cup {NoPath},
        enabled : BOOLEAN, born : Ids]

ASSUME SourcesAssumption ==
  /\ MaxSources \in Nat \ {0}
  /\ MaxUploads \in Nat
  /\ NoPath \notin Paths \cup Uploads
  /\ Paths \cap Uploads = {}
  /\ NoMagnet \notin Magnets

VARIABLES
  rows,       \* the table: the rows by id; `born` counts the insertions
  last,       \* the id given last, which SQLite keeps for an autoincrement key
  inserted,   \* history: rows ever inserted
  uploaded,   \* the uploads in the recovery directory and whether they are valid
  spool,      \* each request's .catalog-upload file: none, cut, whole or invalid
  spc,        \* where each request is
  form,       \* the path it was sent, has read from a row, or stored an upload at
  target,     \* the source whose button was pressed: its id, and which row it was
  job,        \* the recovery that holds recoveryMu, and the row it found or inserted
  changed,    \* history: the rows others have written since it read the table
  listed,     \* history: the uploads that were in a row
  cutShort,   \* history: uploads about to be recorded when the process was killed
  mistaken    \* history: a request acted on another row than the one shown

sourcesVars == <<rows, last, inserted, uploaded, spool, spc, form, target,
                 job, changed, listed, cutShort, mistaken>>

NoTarget == [id |-> 0, born |-> 0]
NoRecovery == [at |-> "none", magnet |-> NoMagnet, path |-> NoPath, id |-> 0]

SourcesInit ==
  /\ rows = <<>>
  /\ last = 0
  /\ inserted = 0
  /\ uploaded = [u \in Uploads |-> "none"]
  /\ spool = [r \in Requests |-> "none"]
  /\ spc = [r \in Requests |-> "idle"]
  /\ form = [r \in Requests |-> NoPath]
  /\ target = [r \in Requests |-> NoTarget]
  /\ job = NoRecovery
  /\ changed = {}
  /\ listed = {}
  /\ cutShort = {}
  /\ mistaken = FALSE

-----------------------------------------------------------------------------
\* Request r goes on to a step, or is answered.
Proceeds(r, step) == spc' = [spc EXCEPT ![r] = step]

Answered(r) ==
  /\ Proceeds(r, "idle")
  /\ form' = [form EXCEPT ![r] = NoPath]
  /\ target' = [target EXCEPT ![r] = NoTarget]

\* Wrong: the id after the highest one in the table.
NextIdWrong == IF DOMAIN rows = {} THEN 1
               ELSE 1 + CHOOSE i \in DOMAIN rows : \A j \in DOMAIN rows : j <= i

\* The id of the next row: never one that was given before.
NextId == last + 1

\* The table with one row more.
With(row) == [i \in DOMAIN rows \cup {NextId} |-> IF i = NextId THEN row ELSE rows[i]]

\* The history: a request writes the rows with these ids.
WritesRows(ids) == changed' = IF job.at = "none" THEN {} ELSE changed \cup ids

\* CreateCatalogSource, one insert.
Inserts(magnet, path, enabled) ==
  /\ inserted < MaxSources
  /\ inserted' = inserted + 1
  /\ last' = NextId
  /\ rows' = With([magnet |-> magnet, path |-> path, enabled |-> enabled,
                   born |-> inserted + 1])
  /\ listed' = listed \cup (Uploads \cap {path})
  /\ WritesRows({NextId})

\* What a form may give for a path: one known elsewhere, none, or that of a source.
FormPaths == Paths \cup {NoPath} \cup {rows[i].path : i \in DOMAIN rows}

\* The form names a magnet, a path, or both.
Creates(r) ==
  /\ spc[r] = "idle"
  /\ \E magnet \in Magnets \cup {NoMagnet}, path \in FormPaths, enabled, load \in BOOLEAN :
       /\ magnet # NoMagnet \/ path # NoPath
       /\ Inserts(magnet, path, enabled)
       /\ IF load /\ path # NoPath
          THEN /\ Proceeds(r, "loading")
               /\ form' = [form EXCEPT ![r] = path]
               /\ UNCHANGED target
          ELSE UNCHANGED <<spc, form, target>>
  /\ UNCHANGED <<uploaded, spool, job, cutShort, mistaken>>

-----------------------------------------------------------------------------
\* saveUploadedCatalog: the temporary file is created and filled...
UploadBegins(r) ==
  /\ spc[r] = "idle"
  /\ spool' = [spool EXCEPT ![r] = "cut"]
  /\ Proceeds(r, "saving")
  /\ UNCHANGED <<rows, last, inserted, uploaded, form, target, job, changed, listed,
                 cutShort, mistaken>>

UploadIsSaved(r) ==
  /\ spc[r] = "saving"
  /\ \E content \in {"whole", "invalid"} :
       spool' = [spool EXCEPT ![r] = content]
  /\ Proceeds(r, "validating")
  /\ UNCHANGED <<rows, last, inserted, uploaded, form, target, job, changed, listed,
                 cutShort, mistaken>>

\* ...or removed when the transfer breaks off, is too large or is not a catalog.
UploadIsRefused(r) ==
  /\ spc[r] \in {"saving", "validating"}
  /\ spool[r] # "whole"
  /\ spool' = [spool EXCEPT ![r] = "none"]
  /\ Answered(r)
  /\ UNCHANGED <<rows, last, inserted, uploaded, job, changed, listed,
                 cutShort, mistaken>>

\* Wrong: renamed to its path without being validated.
InstallsUploadWrong(r) ==
  /\ spc[r] = "validating"
  /\ \E u \in Uploads :
       /\ \A v \in Uploads : uploaded[v] # "none" => v < u
       /\ uploaded' = [uploaded EXCEPT ![u] = spool[r]]
       /\ form' = [form EXCEPT ![r] = u]
  /\ spool' = [spool EXCEPT ![r] = "none"]
  /\ Proceeds(r, "storing")
  /\ UNCHANGED <<rows, last, inserted, target, job, changed, listed,
                 cutShort, mistaken>>

\* The valid copy is renamed to a path that the clock makes unique.
InstallsUpload(r) ==
  /\ spc[r] = "validating"
  /\ spool[r] = "whole"
  /\ \E u \in Uploads :
       /\ \A v \in Uploads : uploaded[v] # "none" => v < u
       /\ uploaded' = [uploaded EXCEPT ![u] = spool[r]]
       /\ form' = [form EXCEPT ![r] = u]
  /\ spool' = [spool EXCEPT ![r] = "none"]
  /\ Proceeds(r, "storing")
  /\ UNCHANGED <<rows, last, inserted, target, job, changed, listed,
                 cutShort, mistaken>>

\* The form that came with it says whether to load it at once.
RecordsUpload(r) ==
  /\ spc[r] = "storing"
  /\ \E magnet \in Magnets, enabled \in BOOLEAN : Inserts(magnet, form[r], enabled)
  /\ \/ Proceeds(r, "loading") /\ UNCHANGED <<form, target>>
     \/ Answered(r)
  /\ UNCHANGED <<uploaded, spool, job, cutShort, mistaken>>

\* Wrong: an upload whose row could not be inserted is left where it is.
DropsUploadWrong(r) ==
  /\ spc[r] = "storing"
  /\ Answered(r)
  /\ UNCHANGED <<rows, last, inserted, uploaded, spool, job, changed, listed, cutShort, mistaken>>

\* The insert fails and the file is removed again.
DropsUpload(r) ==
  /\ spc[r] = "storing"
  /\ uploaded' = [uploaded EXCEPT ![form[r]] = "none"]
  /\ Answered(r)
  /\ UNCHANGED <<rows, last, inserted, spool, job, changed, listed,
                 cutShort, mistaken>>

-----------------------------------------------------------------------------
\* The operator presses a button beside a source on a page shown earlier.
Presses(r) ==
  /\ spc[r] = "idle"
  /\ Proceeds(r, "pressed")
  /\ \E i \in DOMAIN rows :
       target' = [target EXCEPT ![r] = [id |-> i, born |-> rows[i].born]]
  /\ UNCHANGED <<rows, last, inserted, uploaded, spool, form, job, changed,
                 listed, cutShort, mistaken>>

Found(r) == target[r].id \in DOMAIN rows

\* Whether the row under that id is another one than was shown.
Mistakes(r) == mistaken' = (mistaken \/ (Found(r) /\ rows[target[r].id].born # target[r].born))

\* update ... where id = ?: no row, no error; `enabled` is left alone.
Updates(r) ==
  /\ spc[r] = "pressed"
  /\ \E magnet \in Magnets \cup {NoMagnet}, path \in FormPaths :
       /\ magnet # NoMagnet \/ path # NoPath
       /\ rows' = IF Found(r)
                  THEN [rows EXCEPT ![target[r].id] =
                          [magnet |-> magnet, path |-> path, enabled |-> @.enabled, born |-> @.born]]
                  ELSE rows
  /\ WritesRows({target[r].id})
  /\ Mistakes(r)
  /\ Answered(r)
  /\ UNCHANGED <<last, inserted, uploaded, spool, job, listed, cutShort>>

Toggles(r) ==
  /\ spc[r] = "pressed"
  /\ \E enabled \in BOOLEAN :
       rows' = IF Found(r) THEN [rows EXCEPT ![target[r].id].enabled = enabled] ELSE rows
  /\ WritesRows({target[r].id})
  /\ Mistakes(r)
  /\ Answered(r)
  /\ UNCHANGED <<last, inserted, uploaded, spool, job, listed, cutShort>>

\* A deletion reads the row, answers 404 without one, and deletes afterwards.
LooksToDelete(r) ==
  /\ spc[r] = "pressed"
  /\ IF Found(r) THEN Proceeds(r, "deleting") /\ UNCHANGED <<form, target>> ELSE Answered(r)
  /\ UNCHANGED <<rows, last, inserted, uploaded, spool, job, changed, listed, cutShort, mistaken>>

Deletes(r) ==
  /\ spc[r] = "deleting"
  /\ rows' = Restrict(rows, DOMAIN rows \ {target[r].id})
  /\ WritesRows({target[r].id})
  /\ Mistakes(r)
  /\ Answered(r)
  /\ UNCHANGED <<last, inserted, uploaded, spool, job, listed, cutShort>>

\* A load reads the row; without one, or without a path in it, it ends there.
LooksToLoad(r) ==
  /\ spc[r] = "pressed"
  /\ Mistakes(r)
  /\ IF Found(r) /\ rows[target[r].id].path # NoPath
     THEN /\ form' = [form EXCEPT ![r] = rows[target[r].id].path]
          /\ Proceeds(r, "loading")
          /\ UNCHANGED target
     ELSE Answered(r)
  /\ UNCHANGED <<rows, last, inserted, uploaded, spool, job, changed, listed, cutShort>>

\* A path typed into the load form.
LoadsPath(r) ==
  /\ spc[r] = "idle"
  /\ Proceeds(r, "loading")
  /\ \E path \in Paths : form' = [form EXCEPT ![r] = path]
  /\ UNCHANGED <<rows, last, inserted, uploaded, spool, target, job, changed,
                 listed, cutShort, mistaken>>

\* replaceCatalog succeeds or fails: the active catalog is not part of this module.
Loads(r) ==
  /\ spc[r] = "loading"
  /\ Answered(r)
  /\ UNCHANGED <<rows, last, inserted, uploaded, spool, job, changed, listed,
                 cutShort, mistaken>>

-----------------------------------------------------------------------------
\* A recovery registers its catalog: it looks for the newest row of its magnet...
RecoveryLooks ==
  /\ job.at = "none"
  /\ changed' = {}
  /\ \E magnet \in Magnets \cup {NoMagnet}, path \in Paths :
       LET same == {i \in DOMAIN rows : rows[i].magnet = magnet /\ magnet # NoMagnet}
       IN \E id \in IF same = {} THEN {0} ELSE {i \in same : \A j \in same : j <= i} :
            job' = [at |-> "registering", magnet |-> magnet, path |-> path, id |-> id]
  /\ UNCHANGED <<rows, last, inserted, uploaded, spool, spc, form, target,
                 listed, cutShort, mistaken>>

\* Wrong: an existing row keeps its path and stays as it was switched.
RecoveryUpdatesWrong ==
  /\ job.at = "registering"
  /\ job.id # 0
  /\ job' = [job EXCEPT !.at = "loading"]
  /\ UNCHANGED <<rows, last, inserted, uploaded, spool, spc, form, target,
                 changed, listed, cutShort, mistaken>>

\* ...writes its path into it and enables it, if it is still there...
RecoveryUpdates ==
  /\ job.at = "registering"
  /\ job.id # 0
  /\ rows' = IF job.id \in DOMAIN rows
             THEN [rows EXCEPT ![job.id] =
                     [magnet |-> @.magnet, path |-> job.path, enabled |-> TRUE, born |-> @.born]]
             ELSE rows
  /\ job' = [job EXCEPT !.at = "loading"]
  /\ UNCHANGED <<last, inserted, uploaded, spool, spc, form, target, changed,
                 listed, cutShort, mistaken>>

\* ...or inserts a row,
RecoveryInserts ==
  /\ job.at = "registering"
  /\ job.id = 0
  /\ inserted < MaxSources
  /\ inserted' = inserted + 1
  /\ last' = NextId
  /\ rows' = With([magnet |-> job.magnet, path |-> job.path, enabled |-> TRUE,
                   born |-> inserted + 1])
  /\ job' = [at |-> "loading", magnet |-> job.magnet, path |-> job.path, id |-> NextId]
  /\ UNCHANGED <<uploaded, spool, spc, form, target, changed, listed,
                 cutShort, mistaken>>

\* and loads the catalog; a registration that failed ends it before.
RecoveryEnds ==
  /\ job.at # "none"
  /\ job' = NoRecovery
  /\ changed' = {}
  /\ UNCHANGED <<rows, last, inserted, uploaded, spool, spc, form, target,
                 listed, cutShort, mistaken>>

-----------------------------------------------------------------------------
\* The operational reset empties the table, whose ids go on.
EmptiesTable ==
  /\ rows' = <<>>
  /\ WritesRows(DOMAIN rows)
  /\ UNCHANGED <<last, inserted, uploaded, spool, spc, form, target, job,
                 listed, cutShort, mistaken>>

\* The process is killed: requests and recovery are gone, files and rows stay.
Killed ==
  /\ cutShort' = cutShort \cup {form[r] : r \in {q \in Requests : spc[q] = "storing"}}
  /\ spc' = [r \in Requests |-> "idle"]
  /\ form' = [r \in Requests |-> NoPath]
  /\ target' = [r \in Requests |-> NoTarget]
  /\ spool' = [r \in Requests |-> "none"]
  /\ job' = NoRecovery
  /\ changed' = {}
  /\ UNCHANGED <<rows, last, inserted, uploaded, listed, mistaken>>

SourcesNext ==
  \/ \E r \in Requests :
       \/ Creates(r) \/ UploadBegins(r) \/ UploadIsSaved(r) \/ UploadIsRefused(r)
       \/ InstallsUpload(r) \/ RecordsUpload(r) \/ DropsUpload(r)
       \/ Presses(r) \/ Updates(r) \/ Toggles(r) \/ LooksToDelete(r) \/ Deletes(r)
       \/ LooksToLoad(r) \/ LoadsPath(r) \/ Loads(r)
  \/ RecoveryLooks \/ RecoveryUpdates \/ RecoveryInserts \/ RecoveryEnds
  \/ EmptiesTable \/ Killed

SourcesSpec == SourcesInit /\ [][SourcesNext]_sourcesVars

-----------------------------------------------------------------------------
(* Every row and every load that names an uploaded catalog (app.go:1760)   *)
(* names a file that is there, is whole and was validated, whatever failed *)
(* and wherever the process was killed.                                    *)
UploadsAreWhole ==
  \A path \in {rows[i].path : i \in DOMAIN rows}
               \cup {form[r] : r \in {q \in Requests : spc[q] = "loading"}} :
    path \in Uploads => uploaded[path] = "whole"

(* An upload that is refused, or whose row cannot be inserted              *)
(* (app.go:1764), leaves no file behind: each file belongs to a request    *)
(* that is under way or was recorded in a row.  A kill leaves the          *)
(* temporary file of a request, which this module does not follow, and an  *)
(* upload that was about to be recorded; nothing removes either.           *)
NoStrayFiles ==
  /\ \A r \in Requests : spool[r] # "none" => spc[r] \in {"saving", "validating"}
  /\ \A u \in Uploads :
       uploaded[u] # "none" =>
         u \in listed \cup cutShort \/ \E r \in Requests : spc[r] = "storing" /\ form[r] = u

(* A change, deletion or load acts on the source whose button was pressed, *)
(* however long ago the page with the button was read: an id is not given  *)
(* to another source when its own is gone (state.go:175), by a deletion or *)
(* by the reset that empties the table.                                    *)
ActsOnWhatWasShown == ~mistaken

(* A recovery that goes on to load its catalog has registered it           *)
(* (recovery.go:123): the row it found or inserted names its path and      *)
(* magnet and is enabled, and is the newest with that magnet but for rows  *)
(* that others have written since.  Reading and writing are two            *)
(* statements, and what others do to any other row changes nothing; but    *)
(* if the row itself is deleted in between, the recovered catalog is left  *)
(* without a source.                                                       *)
RecoveredIsListed ==
  job.at = "loading" /\ job.id \notin changed =>
    /\ job.id \in DOMAIN rows
    /\ rows[job.id].magnet = job.magnet /\ rows[job.id].path = job.path
    /\ rows[job.id].enabled
    /\ \A j \in DOMAIN rows \ changed : rows[j].magnet = job.magnet => j <= job.id
=============================================================================
