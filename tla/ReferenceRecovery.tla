------------------------- MODULE ReferenceRecovery -------------------------
(***************************************************************************)
(* The download of a recorded reference and the recovery workflow that     *)
(* ends with its catalog in service (internal/app/app.go,                  *)
(* internal/app/recovery.go): the handler that starts aria2c, the          *)
(* goroutine that waits for it, the recovery under recoveryMu, and the     *)
(* goroutine that resumes recoveries after a restart.                      *)
(*                                                                         *)
(* A reference downloads one file, into a directory of its own. Loading a  *)
(* catalog is one step here; CatalogSwitch has its details.                *)
(***************************************************************************)
EXTENDS Naturals, FiniteSets

CONSTANTS
  MaxRefs,     \* bound: references recorded
  Meddling,    \* does the operator remove files, hide directories, reset, load?
  Archives,    \* references whose file is an archive; the others are catalogs
  Valid,       \* references whose complete file is, or holds, a valid catalog
  Matching,    \* Matching[r]: the references whose file's name fits the name of r
  NoRow,       \* no row of that id in import_references
  NoFiles,     \* the extraction directory of the reference holds no catalog file
  NoJob,       \* recoveryMu is free
  NoPath,      \* an empty recovered_path
  Configured,  \* the configured catalog, when none is selected
  Other        \* a catalog the operator loads by its path

Refs == 1 .. MaxRefs
Paths == [in : {"download", "extraction"}, of : Refs]
Extractions == [from : Refs, whole : BOOLEAN]

ASSUME RecoveryAssumption ==
  /\ MaxRefs \in Nat /\ Meddling \in BOOLEAN
  /\ Archives \subseteq Refs /\ Valid \subseteq Refs
  /\ Matching \in [Refs -> SUBSET Refs]
  /\ NoFiles \notin Extractions
  /\ NoPath \notin Paths /\ Configured \notin Paths /\ Other \notin Paths

VARIABLES
  artifact,   \* downloaded file of each reference: none, partial, whole
  extracted,  \* catalog files extracted for it: from which file, wholly or not
  row,        \* import_references
  saved,      \* the stored selection
  created,    \* ids given to references
  up,         \* is the process running? It serves what is selected.
  aria,       \* aria2c of each reference: none, running, done, failed
  handler,    \* its handler, then its watcher: idle, look, launch, watch
  waiting,    \* goroutines that wait for recoveryMu
  job,        \* the recovery that holds it
  resume,     \* the resume goroutine: idle, unread, next, busy
  resuming    \* what it read of the rows it has still to examine

disk    == <<artifact, extracted>>
stored  == <<row, saved, created>>
fetch   == <<aria, handler>>
recover == <<waiting, job>>
restart == <<resume, resuming>>
vars    == <<disk, stored, up, fetch, recover, restart>>

Downloads  == {"", "not_started", "starting", "started", "reused", "completed", "failed"}
Recoveries == {"", "waiting_for_download", "download_failed", "recovering", "unreadable",
               "extracting", "validating", "validated", "loading", "loaded", "failed"}

NewRow == [download |-> "", recovery |-> "", path |-> NoPath]

Init ==
  /\ artifact = [r \in Refs |-> "none"] /\ extracted = [r \in Refs |-> NoFiles]
  /\ row = [r \in Refs |-> NoRow] /\ saved = Configured /\ created = 0
  /\ up = FALSE
  /\ aria = [r \in Refs |-> "none"] /\ handler = [r \in Refs |-> "idle"]
  /\ waiting = {} /\ job = NoJob
  /\ resume = "idle" /\ resuming = {}

---------------------------------------------------------------------------
(* The files.                                                              *)

Exists(p) ==
  IF p.in = "download" THEN artifact[p.of] # "none" ELSE extracted[p.of] # NoFiles

\* What catalog.Validate accepts.
Usable(p) ==
  IF p.in = "download"
  THEN artifact[p.of] = "whole" /\ p.of \in Valid
  ELSE /\ extracted[p.of] # NoFiles
       /\ extracted[p.of].whole /\ extracted[p.of].from \in Valid

\* findReferenceArtifact: the file in the reference's own directory; else, of
\* all that the download directory holds, the newest whose name fits, or the
\* only one, whatever its name.
Present == {x \in Refs : artifact[x] # "none"}

Found(r) ==
  LET fitting == Present \cap Matching[r]
  IN IF r \in Present THEN {r}
     ELSE IF fitting # {} THEN fitting
     ELSE IF Cardinality(Present) = 1 THEN Present ELSE {}

\* loaded, and the catalog that was loaded is still there
Finished(r) ==
  /\ row[r] # NoRow /\ row[r].recovery = "loaded"
  /\ row[r].path # NoPath /\ Exists(row[r].path)

\* An update of a row that was deleted changes nothing.
SetRow(r, new) == row' = IF row[r] = NoRow THEN row ELSE [row EXCEPT ![r] = new]

SetDownload(r, download, recovery) ==
  SetRow(r, [download |-> download, recovery |-> recovery, path |-> NoPath])

\* The in-memory status is read back, with the path a recovery left in it.
SetProgress(r, download, recovery) ==
  SetRow(r, [download |-> download, recovery |-> recovery, path |-> row[r].path])

SetRecovery(r, recovery, path) ==
  SetRow(r, [download |-> row[r].download, recovery |-> recovery, path |-> path])

---------------------------------------------------------------------------
(* handleAdminImportReferences and startReferenceDownload                  *)

Record(r) ==
  /\ up /\ created < MaxRefs /\ r = created + 1
  /\ created' = r
  /\ row' = [row EXCEPT ![r] = NewRow]
  /\ handler' = [handler EXCEPT ![r] = "look"]
  /\ UNCHANGED <<disk, saved, up, aria, recover, restart>>

\* A complete file was found (aria2 keeps a control file beside an incomplete
\* one): recover it, in a goroutine of its own.
Reuse(r) ==
  /\ handler[r] = "look"
  /\ \E x \in Found(r) : artifact[x] = "whole"
  /\ handler' = [handler EXCEPT ![r] = "idle"]
  /\ SetDownload(r, "reused", "recovering")
  /\ waiting' = waiting \cup {[ref |-> r, by |-> "download"]}
  /\ UNCHANGED <<disk, saved, created, up, aria, job, restart>>

Prepare(r) ==
  /\ handler[r] = "look"
  /\ Found(r) = {} \/ \E x \in Found(r) : artifact[x] # "whole"
  /\ handler' = [handler EXCEPT ![r] = "launch"]
  /\ SetDownload(r, "starting", "waiting_for_download")
  /\ UNCHANGED <<disk, saved, created, up, aria, recover, restart>>

\* The search failed (not_started), or aria2c (client_unavailable), its directory
\* or its log is not available.
NotPrepared(r) ==
  /\ handler[r] = "look"
  /\ handler' = [handler EXCEPT ![r] = "idle"]
  /\ SetDownload(r, "not_started", "")
  /\ UNCHANGED <<disk, saved, created, up, aria, recover, restart>>

Launch(r) ==
  /\ handler[r] = "launch"
  /\ \/ /\ aria' = [aria EXCEPT ![r] = "running"]
        /\ handler' = [handler EXCEPT ![r] = "watch"]
        /\ SetProgress(r, "started", "waiting_for_download")
     \/ /\ handler' = [handler EXCEPT ![r] = "idle"]
        /\ SetDownload(r, "not_started", "")
        /\ UNCHANGED aria
  /\ UNCHANGED <<disk, saved, created, up, recover, restart>>

\* aria2c, which outlives the process when the process is killed alone
AriaWrites(r) ==
  /\ aria[r] = "running" /\ artifact[r] = "none"
  /\ artifact' = [artifact EXCEPT ![r] = "partial"]
  /\ UNCHANGED <<extracted, stored, up, fetch, recover, restart>>

AriaEnds(r) ==
  /\ aria[r] = "running"
  /\ \/ /\ artifact[r] = "partial"
        /\ artifact' = [artifact EXCEPT ![r] = "whole"]
        /\ aria' = [aria EXCEPT ![r] = IF handler[r] = "watch" THEN "done" ELSE "none"]
     \/ /\ aria' = [aria EXCEPT ![r] = IF handler[r] = "watch" THEN "failed" ELSE "none"]
        /\ UNCHANGED artifact
  /\ UNCHANGED <<extracted, stored, up, handler, recover, restart>>

\* command.Wait returned
WatchEnds(r) ==
  /\ handler[r] = "watch" /\ aria[r] \in {"done", "failed"}
  /\ handler' = [handler EXCEPT ![r] = "idle"]
  /\ aria' = [aria EXCEPT ![r] = "none"]
  /\ IF aria[r] = "done"
     THEN /\ SetProgress(r, "completed", "recovering")
          /\ waiting' = waiting \cup {[ref |-> r, by |-> "download"]}
     ELSE SetProgress(r, "failed", "download_failed") /\ UNCHANGED waiting
  /\ UNCHANGED <<disk, saved, created, up, job, restart>>

---------------------------------------------------------------------------
(* recoverReference                                                        *)

Return ==
  /\ job' = NoJob
  /\ resume' = IF job.by = "resume" THEN "next" ELSE resume
  /\ UNCHANGED <<waiting, resuming>>

Continue(at, file, path) ==
  /\ job' = [ref |-> job.ref, by |-> job.by, done |-> job.done,
             at |-> at, file |-> file, path |-> path]
  /\ UNCHANGED <<waiting, restart>>

\* failRecovery
Fail(path) == SetRecovery(job.ref, "failed", path) /\ Return

JobAt(place) == job # NoJob /\ job.at = place

\* Wrong: what was recovered already is recovered again.
BeginAgain(j) ==
  /\ j \in waiting /\ job = NoJob /\ row[j.ref] # NoRow
  /\ waiting' = waiting \ {j}
  /\ job' = [ref |-> j.ref, by |-> j.by, at |-> "find", file |-> 0, path |-> NoPath,
             done |-> row[j.ref].download = "completed"]
  /\ SetRecovery(j.ref, "recovering", NoPath)
  /\ UNCHANGED <<disk, saved, created, up, fetch, restart>>

\* A row that is gone, or was recovered already, is left alone.
Begin(j) ==
  /\ j \in waiting /\ job = NoJob
  /\ waiting' = waiting \ {j}
  /\ IF row[j.ref] = NoRow \/ Finished(j.ref)
     THEN /\ resume' = IF j.by = "resume" THEN "next" ELSE resume
          /\ UNCHANGED <<row, job>>
     ELSE /\ job' = [ref |-> j.ref, by |-> j.by, at |-> "find", file |-> 0, path |-> NoPath,
                     done |-> row[j.ref].download = "completed"]
          /\ SetRecovery(j.ref, "recovering", NoPath)
          /\ UNCHANGED resume
  /\ UNCHANGED <<disk, saved, created, up, fetch, resuming>>

\* Wrong: the file is reported and not passed on.
FindForgets ==
  /\ JobAt("find")
  /\ \E x \in Found(job.ref) :
       /\ SetRow(job.ref, [download |-> "completed", recovery |-> "extracting",
                           path |-> [in |-> "download", of |-> x]])
       /\ Continue("extract", x, NoPath)
  /\ UNCHANGED <<disk, saved, created, up, fetch>>

\* Whatever file there is counts as the completed download, unless the row read
\* at the start already said so.
Find ==
  /\ JobAt("find")
  /\ \E x \in Found(job.ref) :
       LET file     == [in |-> "download", of |-> x]
           download == IF job.done THEN row[job.ref].download ELSE "completed"
       IN /\ SetRow(job.ref, [download |-> download, recovery |-> "extracting", path |-> file])
          /\ Continue("extract", x, file)
  /\ UNCHANGED <<disk, saved, created, up, fetch>>

\* No file, or several and none fits; or a directory cannot be read, which leaves
\* the same status with a recovery_error (unreadable, here).
FindNothing ==
  /\ JobAt("find")
  /\ \/ Found(job.ref) = {} /\ SetRecovery(job.ref, "recovering", NoPath)
     \/ Meddling /\ SetRecovery(job.ref, "unreadable", NoPath)
  /\ Return
  /\ UNCHANGED <<disk, saved, created, up, fetch>>

\* Wrong: what an earlier extraction left is taken for validated.
ChooseTrusting ==
  LET extraction == [in |-> "extraction", of |-> job.ref]
  IN /\ JobAt("extract") /\ job.file \in Archives
     /\ Continue(IF Exists(extraction) THEN "register" ELSE "extracting", job.file, extraction)
     /\ UNCHANGED <<disk, stored, up, fetch>>

\* recoveredCatalogCandidates: a catalog is its own candidate; catalog files
\* that an earlier extraction left behind are used as they are.
Choose ==
  LET extraction == [in |-> "extraction", of |-> job.ref]
  IN /\ JobAt("extract")
     /\ \/ /\ job.file \notin Archives
           /\ Continue("validate", job.file, job.path)
           /\ SetRecovery(job.ref, "validating", NoPath)
        \/ /\ job.file \in Archives /\ Exists(extraction)
           /\ Continue("validate", job.file, extraction)
           /\ SetRecovery(job.ref, "validating", NoPath)
        \/ /\ job.file \in Archives /\ ~Exists(extraction)
           /\ Continue("extracting", job.file, extraction)
           /\ UNCHANGED row
        \/ job.file \in Archives /\ Fail(job.path)  \* no extractor, no directory
     /\ UNCHANGED <<disk, saved, created, up, fetch>>

ExtractorSucceeds ==
  /\ JobAt("extracting") /\ artifact[job.file] = "whole"
  /\ \/ /\ extracted' = [extracted EXCEPT ![job.ref] = [from |-> job.file, whole |-> TRUE]]
        /\ Continue("validate", job.file, job.path)
        /\ SetRecovery(job.ref, "validating", NoPath)
     \/ \* no catalog file in it
        /\ job.file \notin Valid
        /\ Fail([in |-> "download", of |-> job.file])
        /\ UNCHANGED extracted
  /\ UNCHANGED <<artifact, saved, created, up, fetch>>

\* Wrong: no timeout, so it stops only at what it cannot read.
ExtractorHangs ==
  /\ JobAt("extracting") /\ artifact[job.file] # "whole"
  /\ Fail([in |-> "download", of |-> job.file])
  /\ UNCHANGED <<disk, saved, created, up, fetch>>

\* The extractor stops, or is stopped after archiveExtractTimeout, with or
\* without part of a catalog file written.
ExtractorStopped ==
  /\ JobAt("extracting")
  /\ extracted' \in {extracted,
                     [extracted EXCEPT ![job.ref] = [from |-> job.file, whole |-> FALSE]]}
  /\ Fail([in |-> "download", of |-> job.file])
  /\ UNCHANGED <<artifact, saved, created, up, fetch>>

\* Wrong: its verdict is not looked at.
ValidateAnything ==
  /\ JobAt("validate")
  /\ SetRecovery(job.ref, "validated", job.path)
  /\ Continue("register", job.file, job.path)
  /\ UNCHANGED <<disk, saved, created, up, fetch>>

ValidateCandidate ==
  /\ JobAt("validate")
  /\ IF Usable(job.path)
     THEN SetRecovery(job.ref, "validated", job.path) /\ Continue("register", job.file, job.path)
     ELSE Fail([in |-> "download", of |-> job.file])
  /\ UNCHANGED <<disk, saved, created, up, fetch>>

\* EnsureCatalogSource
Register ==
  /\ JobAt("register")
  /\ \/ SetRecovery(job.ref, "loading", job.path) /\ Continue("load", job.file, job.path)
     \/ Fail(job.path)
  /\ UNCHANGED <<disk, saved, created, up, fetch>>

\* replaceCatalogValidated, which opens the file as it is now
Load ==
  /\ JobAt("load")
  /\ \/ /\ Exists(job.path)
        /\ saved' = job.path
        /\ Continue("report", job.file, job.path)
        /\ UNCHANGED row
     \/ Fail(job.path) /\ UNCHANGED saved
  /\ UNCHANGED <<disk, created, up, fetch>>

Report ==
  /\ JobAt("report")
  /\ SetRecovery(job.ref, "loaded", job.path)
  /\ Return
  /\ UNCHANGED <<disk, saved, created, up, fetch>>

---------------------------------------------------------------------------
(* resumeReferenceRecovery                                                 *)

ResumeReads ==
  /\ resume = "unread"
  /\ resume' = "next"
  /\ resuming' = {[ref |-> r, loaded |-> IF row[r].recovery = "loaded" THEN row[r].path ELSE NoPath]
                     : r \in {x \in Refs : row[x] # NoRow}}
  /\ UNCHANGED <<disk, stored, up, fetch, recover>>

Newest(i) == \A j \in resuming : j.ref <= i.ref

Skipped(i) == (i.loaded # NoPath /\ Exists(i.loaded)) \/ Found(i.ref) = {}

\* Wrong: one that is recovered, or has no file, ends the scan.
ResumeStopsEarly ==
  \E i \in resuming :
     /\ resume = "next" /\ Newest(i)
     /\ resuming' = IF Skipped(i) THEN {} ELSE resuming \ {i}
     /\ resume' = IF Skipped(i) THEN "next" ELSE "busy"
     /\ waiting' = waiting \cup (IF Skipped(i) THEN {} ELSE {[ref |-> i.ref, by |-> "resume"]})
     /\ UNCHANGED <<disk, stored, up, fetch, job>>

\* The newest first. What was loaded, has no file or cannot be searched is left.
ResumeNext ==
  \E i \in resuming :
     /\ resume = "next" /\ Newest(i)
     /\ resuming' = resuming \ {i}
     /\ \/ /\ Skipped(i) \/ Meddling
           /\ UNCHANGED <<resume, waiting>>
        \/ /\ ~Skipped(i)
           /\ resume' = "busy"
           /\ waiting' = waiting \cup {[ref |-> i.ref, by |-> "resume"]}
     /\ UNCHANGED <<disk, stored, up, fetch, job>>

ResumeEnds ==
  /\ resume = "next" /\ resuming = {}
  /\ resume' = "idle"
  /\ UNCHANGED <<disk, stored, up, fetch, recover, resuming>>

---------------------------------------------------------------------------
(* The process and the operator.                                           *)

\* A selection that cannot be opened is forgotten.
Start ==
  /\ ~up /\ up' = TRUE
  /\ LET opens == saved \in Paths => Exists(saved)
     IN saved' = IF opens THEN saved ELSE Configured
  /\ resume' = "unread"
  /\ UNCHANGED <<disk, row, created, fetch, recover, resuming>>

\* An extraction under way stops short or, its process being left alone,
\* finishes; so do the downloads.
ProcessEnds ==
  /\ up /\ up' = FALSE
  /\ handler' = [r \in Refs |-> "idle"]
  /\ waiting' = {} /\ job' = NoJob
  /\ resume' = "idle" /\ resuming' = {}
  /\ \E orphans \in BOOLEAN :
       aria' = [r \in Refs |-> IF orphans /\ aria[r] = "running" THEN "running" ELSE "none"]
  /\ IF JobAt("extracting")
     THEN extracted' \in {extracted} \cup
            {[extracted EXCEPT ![job.ref] = [from |-> job.file, whole |-> w]] :
               w \in {FALSE, artifact[job.file] = "whole"}}
     ELSE UNCHANGED extracted
  /\ UNCHANGED <<artifact, stored>>

OperatorLoads ==
  /\ Meddling /\ up
  /\ saved' = Other
  /\ UNCHANGED <<disk, row, created, up, fetch, recover, restart>>

\* handleAdminStateReset
ResetRecords ==
  /\ Meddling /\ up
  /\ row' = [r \in Refs |-> NoRow]
  /\ UNCHANGED <<disk, saved, created, up, fetch, recover, restart>>

OperatorRemoves(r) ==
  /\ Meddling /\ artifact[r] # "none" /\ aria[r] # "running"
  /\ artifact' = [artifact EXCEPT ![r] = "none"]
  /\ UNCHANGED <<extracted, stored, up, fetch, recover, restart>>

---------------------------------------------------------------------------
DownloadStep(r) ==
  Reuse(r) \/ Prepare(r) \/ NotPrepared(r) \/ Launch(r) \/ WatchEnds(r)

JobStep ==
  \/ Find \/ FindNothing \/ Choose \/ ExtractorStopped
  \/ ValidateCandidate \/ Register \/ Load \/ Report

ResumeStep == ResumeReads \/ ResumeNext \/ ResumeEnds

Jobs == [ref : Refs, by : {"download", "resume"}]

Next ==
  \/ \E r \in Refs : \/ Record(r) \/ DownloadStep(r)
                     \/ AriaWrites(r) \/ AriaEnds(r) \/ OperatorRemoves(r)
  \/ \E j \in Jobs : Begin(j)
  \/ JobStep \/ ExtractorSucceeds \/ ResumeStep
  \/ Start \/ ProcessEnds \/ OperatorLoads \/ ResetRecords

Spec == Init /\ [][Next]_vars

\* Goroutines are scheduled, recoveryMu is handed to a goroutine that has
\* waited long enough, and the extractor is stopped if it does not end.
Fairness ==
  /\ \A r \in Refs : WF_vars(DownloadStep(r))
  /\ \A j \in Jobs : SF_vars(Begin(j))
  /\ WF_vars(JobStep) /\ WF_vars(ResumeStep)

FairSpec == Spec /\ Fairness
---------------------------------------------------------------------------
(* Properties.                                                             *)

JobPlaces == {"find", "extract", "extracting", "validate", "register", "load", "report"}

\* Every variable stays in its range, and a recovery that has found a file knows
\* which.
TypeOK ==
  /\ artifact \in [Refs -> {"none", "partial", "whole"}]
  /\ extracted \in [Refs -> {NoFiles} \cup Extractions]
  /\ row \in [Refs -> {NoRow} \cup
                [download : Downloads, recovery : Recoveries, path : Paths \cup {NoPath}]]
  /\ saved \in Paths \cup {Configured, Other}
  /\ created \in 0 .. MaxRefs /\ up \in BOOLEAN
  /\ aria \in [Refs -> {"none", "running", "done", "failed"}]
  /\ handler \in [Refs -> {"idle", "look", "launch", "watch"}]
  /\ waiting \subseteq Jobs
  /\ job # NoJob =>
       /\ job \in [ref : Refs, by : {"download", "resume"}, at : JobPlaces, done : BOOLEAN,
                   file : Refs \cup {0}, path : Paths \cup {NoPath}]
       /\ job.at # "find" => job.file \in Refs /\ job.path \in Paths
  /\ resume \in {"idle", "unread", "next", "busy"}
  /\ resuming \subseteq [ref : Refs, loaded : Paths \cup {NoPath}]

\* A reference reported as loaded names a catalog that is complete and valid,
\* or that was removed since: never a file a download, a failed extraction or
\* a crash left unfinished.
LoadedIsValid == \A r \in Refs : Finished(r) => Usable(row[r].path)

\* What is served, and what a restart will open, was complete and valid when
\* it was loaded, and is until the operator removes it.
SelectionIsValid == saved \in Paths /\ Exists(saved) => Usable(saved)

\* A reference that has been recovered and whose catalog is there is left alone
\* by every other recovery and every restart; only the end of its own download,
\* which a late resume can overtake, reports on it again.
RecoveredOnce ==
  [][\A r \in Refs :
       Finished(r) => row'[r] \in {row[r], NoRow} \/ handler'[r] # handler[r]]_vars

\* Whoever waits for recoveryMu gets it and returns, even if an extractor hangs.
Pending(r) == (\E j \in waiting : j.ref = r) \/ (job # NoJob /\ job.ref = r)

RecoveriesEnd == \A r \in Refs : Pending(r) ~> ~Pending(r)

\* After a restart every reference whose complete file is there is recovered,
\* or its failure is reported.
RestartResumes ==
  \A r \in Refs :
    resume = "unread" /\ row[r] # NoRow /\ artifact[r] = "whole" ~>
      \/ ~up \/ row[r] = NoRow \/ artifact[r] = "none"
      \/ row[r].recovery \in {"loaded", "failed"}

\* Recording a reference loads the catalog it names: its own download, or a
\* file whose name fits.
LoadedIsRequested ==
  \A r \in Refs :
    row[r] # NoRow /\ row[r].recovery = "loaded" =>
      LET p == row[r].path
          source == IF p.in = "download" THEN p.of
                    ELSE IF extracted[p.of] = NoFiles THEN r ELSE extracted[p.of].from
      IN source = r \/ source \in Matching[r]

\* A download is completed when its file is.
CompletedIsWhole ==
  \A r \in Refs :
    row[r] # NoRow /\ row[r].download = "completed" => artifact[r] # "partial"
=============================================================================
