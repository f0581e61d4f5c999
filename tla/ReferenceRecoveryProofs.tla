---------------------- MODULE ReferenceRecoveryProofs ----------------------
(***************************************************************************)
(* Proofs about ReferenceRecovery, for any number of references, any       *)
(* archives and any names.                                                 *)
(***************************************************************************)
EXTENDS ReferenceRecovery, TLAPS

Row == [download : Downloads, recovery : Recoveries, path : Paths \cup {NoPath}]

\* A reference whose own aria2c has yet to be started, or has written nothing.
Unstarted(r) == r > created \/ handler[r] \in {"look", "launch"}

StartInv ==
  \A r \in Refs :
    /\ Unstarted(r) => artifact[r] = "none" /\ aria[r] = "none"
    /\ r > created => handler[r] = "idle"
    /\ aria[r] = "running" => artifact[r] # "whole"

\* The path names nothing yet, but something may be written there.
Unborn(p) ==
  IF p.in = "download"
  THEN artifact[p.of] = "none" /\ (Unstarted(p.of) \/ aria[p.of] = "running")
  ELSE extracted[p.of] = NoFiles

Loaded(r, p) == row[r] # NoRow /\ row[r].recovery = "loaded" /\ row[r].path = p

\* What relies on the catalog of a path being valid.
Trusted(p) ==
  \/ saved = p
  \/ JobAt("register") /\ job.path = p
  \/ JobAt("load") /\ job.path = p
  \/ JobAt("report") /\ job.path = p
  \/ \E r \in Refs : Loaded(r, p)

Sound(p) == ~Unborn(p) /\ (Exists(p) => Usable(p))

TrustInv == \A p \in Paths : Trusted(p) => Sound(p)

\* A recovery works on a reference that is not reported as loaded, and extracts
\* into a directory without a catalog.
JobInv ==
  /\ job # NoJob /\ row[job.ref] # NoRow => row[job.ref].recovery # "loaded"
  /\ JobAt("extracting") => extracted[job.ref] = NoFiles

RecoveryIInv == TypeOK /\ StartInv /\ TrustInv /\ JobInv

\* The parts of the type invariant that take more than a look.
JobRecord == [ref : Refs, by : {"download", "resume"}, at : JobPlaces, done : BOOLEAN,
              file : Refs \cup {0}, path : Paths \cup {NoPath}]

JobTyped ==
  job # NoJob => job \in JobRecord /\ (job.at # "find" => job.file \in Refs /\ job.path \in Paths)

-----------------------------------------------------------------------------
(* The helpers.                                                            *)

\* What is found is a file that is there.
LEMMA FoundIsThere ==
  \A r \in Refs : \A x \in Found(r) : x \in Refs /\ artifact[x] # "none"
  BY SMT DEF Found, Present

\* An update gives the row of a reference its new value, or there is none.
LEMMA SetRowTyped ==
  ASSUME TypeOK, NEW r \in Refs, NEW new, row[r] # NoRow => new \in Row, SetRow(r, new)
  PROVE  row' \in [Refs -> {NoRow} \cup Row]
  BY SMT DEF TypeOK, SetRow, Row

\* So do the updates of single columns (setDownloadStatus, setRecoveryStatus).
LEMMA UpdatesTyped ==
  ASSUME TypeOK, NEW r \in Refs, NEW d \in Downloads, NEW c \in Recoveries,
         NEW p \in Paths \cup {NoPath},
         \/ SetDownload(r, d, c)
         \/ SetProgress(r, d, c)
         \/ SetRecovery(r, c, p)
         \/ SetRow(r, [download |-> d, recovery |-> c, path |-> p])
  PROVE  row' \in [Refs -> {NoRow} \cup Row]
<1>1. row[r] # NoRow => row[r] \in Row
  BY SMT DEF TypeOK, Row
<1>2. CASE SetDownload(r, d, c)
  BY <1>2, SetRowTyped, SMT DEF SetDownload, Row
<1>3. CASE SetProgress(r, d, c)
  <2>1. row[r] # NoRow => [download |-> d, recovery |-> c, path |-> row[r].path] \in Row
    BY <1>1, SMT DEF Row
  <2> QED BY <1>3, <2>1, SetRowTyped, SMT DEF SetProgress
<1>4. CASE SetRecovery(r, c, p)
  <2>1. row[r] # NoRow => [download |-> row[r].download, recovery |-> c, path |-> p] \in Row
    BY <1>1, SMT DEF Row
  <2> QED BY <1>4, <2>1, SetRowTyped, SMT DEF SetRecovery
<1>5. CASE SetRow(r, [download |-> d, recovery |-> c, path |-> p])
  BY <1>5, SetRowTyped, SMT DEF Row
<1> QED BY <1>2, <1>3, <1>4, <1>5

\* No update but the report of a load makes a reference loaded.
LEMMA UpdatesUnload ==
  ASSUME TypeOK, NEW r \in Refs, NEW d, NEW c, c # "loaded", NEW p,
         \/ SetDownload(r, d, c)
         \/ SetProgress(r, d, c)
         \/ SetRecovery(r, c, p)
         \/ SetRow(r, [download |-> d, recovery |-> c, path |-> p])
  PROVE  /\ \A q \in Refs, x \in Paths : Loaded(q, x)' => Loaded(q, x)
         /\ \A q \in Refs : row'[q] # NoRow /\ row'[q].recovery = "loaded" =>
                             q # r /\ row'[q] = row[q]
         /\ \A q \in Refs : q # r => row'[q] = row[q]
  BY SMT DEF TypeOK, SetDownload, SetProgress, SetRecovery, SetRow, Loaded

\* A job under way knows its reference, and its file once it has found one.
LEMMA JobIsTyped ==
  TypeOK /\ job # NoJob =>
    /\ job.ref \in Refs
    /\ job.path \in Paths \cup {NoPath}
    /\ job.at # "find" => job.file \in Refs /\ job.path \in Paths
    /\ job.at # "find" => [in |-> "download", of |-> job.file] \in Paths
    /\ [in |-> "extraction", of |-> job.ref] \in Paths
  BY SMT DEF TypeOK, Paths

Unloaded == Recoveries \ {"loaded"}

JobUpdate ==
  \/ row' = row
  \/ \E c \in Unloaded, p \in Paths \cup {NoPath} : SetRecovery(job.ref, c, p)

\* The statuses a recovery sets on its way are statuses, and not "loaded".
LEMMA UnloadedTyped == Unloaded \subseteq Recoveries /\ "loaded" \notin Unloaded
  BY Zenon DEF Unloaded

\* A step of a recovery that is not the last leaves the rows alone, or updates its own.
LEMMA JobUpdates ==
  ASSUME TypeOK,
         \/ FindNothing \/ Choose \/ ExtractorStopped \/ ExtractorSucceeds
         \/ ValidateCandidate \/ Register \/ Load
  PROVE  job # NoJob /\ job.ref \in Refs /\ JobUpdate
<1>0. job # NoJob
  BY SMT DEF FindNothing, Choose, ExtractorStopped, ExtractorSucceeds, ValidateCandidate,
             Register, Load, JobAt
<1>a. /\ "recovering" \in Unloaded /\ "unreadable" \in Unloaded /\ "failed" \in Unloaded
      /\ "validating" \in Unloaded /\ "validated" \in Unloaded /\ "loading" \in Unloaded
  BY SMT DEF Unloaded, Recoveries
<1>b. NoPath \in Paths \cup {NoPath} /\ \A p \in Paths : p \in Paths \cup {NoPath}
  OBVIOUS
<1>c. "extract" # "find" /\ "extracting" # "find" /\ "validate" # "find"
      /\ "register" # "find" /\ "load" # "find"
  OBVIOUS
<1> USE <1>0, <1>a, <1>b, <1>c, JobIsTyped
<1>1. CASE FindNothing
  BY <1>1, Zenon DEF FindNothing, JobUpdate, JobAt
<1>2. CASE Choose
  BY <1>2, Zenon DEF Choose, JobUpdate, JobAt, Fail
<1>3. CASE ExtractorStopped
  BY <1>3, Zenon DEF ExtractorStopped, JobUpdate, JobAt, Fail
<1>4. CASE ExtractorSucceeds
  BY <1>4, Zenon DEF ExtractorSucceeds, JobUpdate, JobAt, Fail
<1>5. CASE ValidateCandidate
  BY <1>5, Zenon DEF ValidateCandidate, JobUpdate, JobAt, Fail
<1>6. CASE Register
  BY <1>6, Zenon DEF Register, JobUpdate, JobAt, Fail
<1>7. CASE Load
  BY <1>7, Zenon DEF Load, JobUpdate, JobAt, Fail
<1> QED
  BY <1>0, <1>1, <1>2, <1>3, <1>4, <1>5, <1>6, <1>7

\* Such an update keeps the rows in their range.
LEMMA JobUpdateTyped ==
  ASSUME TypeOK, job.ref \in Refs, JobUpdate
  PROVE  row' \in [Refs -> {NoRow} \cup Row]
<1>1. CASE row' = row
  BY <1>1, Zenon DEF TypeOK, Row
<1>2. CASE row' # row
  <2>1. PICK c \in Unloaded, p \in Paths \cup {NoPath} : SetRecovery(job.ref, c, p)
    BY <1>2, Zenon DEF JobUpdate
  <2>2. c \in Recoveries
    BY UnloadedTyped
  <2>3. "" \in Downloads
    BY SMT DEF Downloads
  <2> QED BY <2>1, <2>2, <2>3, UpdatesTyped, Zenon
<1> QED BY <1>1, <1>2

-----------------------------------------------------------------------------
(* Type correctness.                                                       *)

\* An empty store and an empty directory are in range.
LEMMA RecoveryTypeInit == Init => TypeOK
<1>1. 0 \in 0 .. MaxRefs
  BY RecoveryAssumption, SMT DEF RecoveryAssumption
<1> QED BY <1>1, Zenon DEF Init, TypeOK

\* One step per action of the handler, the watcher, the recovery and the rest.
LEMMA RecoveryTypeNext == TypeOK /\ [Next]_vars => TypeOK'
<1> SUFFICES ASSUME TypeOK, [Next]_vars
             PROVE  TypeOK'
  OBVIOUS
<1>1. ASSUME NEW r \in Refs, Record(r)
      PROVE  TypeOK'
  <2>1. NewRow \in Row
    BY SMT DEF NewRow, Row, Downloads, Recoveries
  <2>2. created' \in 0 .. MaxRefs
    BY <1>1, RecoveryAssumption, SMT DEF Record, Refs, RecoveryAssumption
  <2>3. row' \in [Refs -> {NoRow} \cup Row]
    BY <1>1, <2>1, SMT DEF TypeOK, Row, Record
  <2> QED
    BY <1>1, <2>2, <2>3, SMT DEF TypeOK, Record, Row, disk, recover, restart
<1>2. ASSUME NEW r \in Refs, Reuse(r)
      PROVE  TypeOK'
  <2>1. row' \in [Refs -> {NoRow} \cup Row]
    BY <1>2, UpdatesTyped, Zenon DEF Reuse, Downloads, Recoveries
  <2>2. waiting' \subseteq Jobs
    BY <1>2, SMT DEF TypeOK, Reuse, Jobs
  <2> QED
    BY <1>2, <2>1, <2>2, Zenon DEF TypeOK, Row, Reuse, disk, restart
<1>3. ASSUME NEW r \in Refs, Prepare(r)
      PROVE  TypeOK'
  <2>1. row' \in [Refs -> {NoRow} \cup Row]
    BY <1>3, UpdatesTyped, Zenon DEF Prepare, Downloads, Recoveries
  <2> QED
    BY <1>3, <2>1, Zenon DEF TypeOK, Row, Prepare, disk, recover, restart
<1>4. ASSUME NEW r \in Refs, NotPrepared(r)
      PROVE  TypeOK'
  <2>1. row' \in [Refs -> {NoRow} \cup Row]
    BY <1>4, UpdatesTyped, Zenon DEF NotPrepared, Downloads, Recoveries
  <2> QED
    BY <1>4, <2>1, Zenon DEF TypeOK, Row, NotPrepared, disk, recover, restart
<1>5. ASSUME NEW r \in Refs, Launch(r)
      PROVE  TypeOK'
  <2>1. row' \in [Refs -> {NoRow} \cup Row]
    BY <1>5, UpdatesTyped, Zenon DEF Launch, Downloads, Recoveries
  <2> QED
    BY <1>5, <2>1, Zenon DEF TypeOK, Row, Launch, disk, recover, restart
<1>6. ASSUME NEW r \in Refs, WatchEnds(r)
      PROVE  TypeOK'
  <2>1. row' \in [Refs -> {NoRow} \cup Row]
    BY <1>6, UpdatesTyped, Zenon DEF WatchEnds, Downloads, Recoveries
  <2>2. waiting' \subseteq Jobs
    BY <1>6, SMT DEF TypeOK, WatchEnds, Jobs
  <2> QED
    BY <1>6, <2>1, <2>2, Zenon DEF TypeOK, Row, WatchEnds, disk, restart
<1>7. ASSUME NEW r \in Refs, AriaWrites(r)
      PROVE  TypeOK'
  BY <1>7, SMT DEF TypeOK, AriaWrites, stored, fetch, recover, restart
<1>8. ASSUME NEW r \in Refs, AriaEnds(r)
      PROVE  TypeOK'
  BY <1>8, SMT DEF TypeOK, AriaEnds, stored, recover, restart
<1>9. ASSUME NEW r \in Refs, OperatorRemoves(r)
      PROVE  TypeOK'
  BY <1>9, SMT DEF TypeOK, OperatorRemoves, stored, fetch, recover, restart
<1>10. ASSUME NEW j \in Jobs, Begin(j)
      PROVE  TypeOK'
  <2> DEFINE new == [ref |-> j.ref, by |-> j.by, at |-> "find", file |-> 0, path |-> NoPath,
                     done |-> row[j.ref].download = "completed"]
  <2>1. j.ref \in Refs /\ j.by \in {"download", "resume"}
    BY SMT DEF Jobs
  <2>2. row' \in [Refs -> {NoRow} \cup Row]
    BY <1>10, <2>1, UpdatesTyped, Zenon DEF Begin, Recoveries, TypeOK, Row
  <2>3. (row[j.ref].download = "completed") \in BOOLEAN
    OBVIOUS
  <2>4. new \in JobRecord /\ new.at = "find"
    BY <2>1, <2>3, SMT DEF JobRecord, JobPlaces
  <2>5. job' \in {job, new}
    BY <1>10, Zenon DEF Begin
  <2>6. JobTyped'
    BY <2>4, <2>5, Zenon DEF TypeOK, JobTyped, JobRecord
  <2> HIDE DEF new
  <2> QED
    BY <1>10, <2>2, <2>6, SMT DEF TypeOK, Row, JobTyped, JobRecord, Begin, disk, fetch
<1>11. CASE Find
  <2>1. JobTyped /\ job # NoJob
    BY <1>11, SMT DEF TypeOK, JobTyped, JobRecord, Find, JobAt
  <2>2. row' \in [Refs -> {NoRow} \cup Row]
    <3>1. PICK x \in Found(job.ref) :
            SetRow(job.ref, [download |-> IF job.done THEN row[job.ref].download ELSE "completed",
                             recovery |-> "extracting", path |-> [in |-> "download", of |-> x]])
      BY <1>11, SMT DEF Find
    <3>2. [in |-> "download", of |-> x] \in Paths
      BY <2>1, JobIsTyped, FoundIsThere, SMT DEF Paths
    <3>3. row[job.ref] # NoRow =>
            [download |-> IF job.done THEN row[job.ref].download ELSE "completed",
             recovery |-> "extracting", path |-> [in |-> "download", of |-> x]] \in Row
      <4>1. row[job.ref] # NoRow => row[job.ref].download \in Downloads
        BY <2>1, JobIsTyped, SMT DEF TypeOK
      <4>2. "completed" \in Downloads /\ "extracting" \in Recoveries
        BY SMT DEF Downloads, Recoveries
      <4> QED BY <3>2, <4>1, <4>2, SMT DEF Row
    <3> QED BY <2>1, <3>1, <3>3, JobIsTyped, SetRowTyped, Zenon
  <2>3. JobTyped'
    BY <1>11, <2>1, FoundIsThere, SMT
       DEF Find, JobTyped, JobRecord, JobPlaces, JobAt, Continue, Paths
  <2>4. waiting' = waiting /\ resume' \in {resume, "next"} /\ resuming' = resuming
    BY <1>11, SMT DEF Find, Continue, restart
  <2> QED
    BY <1>11, <2>2, <2>3, <2>4, SMT DEF TypeOK, Row, JobTyped, JobRecord, Find, disk, fetch
<1>12. CASE FindNothing
  <2>1. JobTyped /\ job # NoJob
    BY <1>12, SMT DEF TypeOK, JobTyped, JobRecord, FindNothing, JobAt
  <2>2. row' \in [Refs -> {NoRow} \cup Row]
    BY <1>12, JobUpdates, JobUpdateTyped
  <2>3. JobTyped'
    BY <1>12, <2>1, FoundIsThere, SMT
       DEF FindNothing, JobTyped, JobRecord, JobPlaces, JobAt, Return
  <2>4. waiting' = waiting /\ resume' \in {resume, "next"} /\ resuming' = resuming
    BY <1>12, SMT DEF FindNothing, Return
  <2> QED
    BY <1>12, <2>2, <2>3, <2>4, SMT DEF TypeOK, Row, JobTyped, JobRecord, FindNothing, disk, fetch
<1>13. CASE Choose
  <2>1. JobTyped /\ job # NoJob
    BY <1>13, SMT DEF TypeOK, JobTyped, JobRecord, Choose, JobAt
  <2>2. row' \in [Refs -> {NoRow} \cup Row]
    BY <1>13, JobUpdates, JobUpdateTyped
  <2>3. JobTyped'
    BY <1>13, <2>1, FoundIsThere, SMT
       DEF Choose, JobTyped, JobRecord, JobPlaces, JobAt, Continue, Fail, Return, Paths
  <2>4. waiting' = waiting /\ resume' \in {resume, "next"} /\ resuming' = resuming
    BY <1>13, SMT DEF Choose, Continue, restart, Fail, Return
  <2> QED
    BY <1>13, <2>2, <2>3, <2>4, SMT DEF TypeOK, Row, JobTyped, JobRecord, Choose, disk, fetch
<1>14. CASE ExtractorStopped
  <2>1. JobTyped /\ job # NoJob
    BY <1>14, SMT DEF TypeOK, JobTyped, JobRecord, ExtractorStopped, JobAt
  <2>2. row' \in [Refs -> {NoRow} \cup Row]
    BY <1>14, JobUpdates, JobUpdateTyped
  <2>3. JobTyped'
    BY <1>14, <2>1, FoundIsThere, SMT
       DEF ExtractorStopped, JobTyped, JobRecord, JobPlaces, JobAt, Fail, Return
  <2>4. waiting' = waiting /\ resume' \in {resume, "next"} /\ resuming' = resuming
    BY <1>14, SMT DEF ExtractorStopped, Fail, Return
  <2>5. extracted' \in [Refs -> {NoFiles} \cup Extractions]
    <3>1. job.ref \in Refs /\ [from |-> job.file, whole |-> FALSE] \in Extractions
      BY <1>14, <2>1, JobIsTyped, SMT DEF ExtractorStopped, JobAt, Extractions
    <3> QED BY <1>14, <3>1, SMT DEF TypeOK, ExtractorStopped
  <2> QED
    BY <1>14, <2>2, <2>3, <2>4, <2>5, Zenon
       DEF TypeOK, Row, JobTyped, JobRecord, ExtractorStopped, fetch
<1>15. CASE ValidateCandidate
  <2>1. JobTyped /\ job # NoJob
    BY <1>15, SMT DEF TypeOK, JobTyped, JobRecord, ValidateCandidate, JobAt
  <2>2. row' \in [Refs -> {NoRow} \cup Row]
    BY <1>15, JobUpdates, JobUpdateTyped
  <2>3. JobTyped'
    BY <1>15, <2>1, FoundIsThere, SMT
       DEF ValidateCandidate, JobTyped, JobRecord, JobPlaces, JobAt, Continue, Fail, Return
  <2>4. waiting' = waiting /\ resume' \in {resume, "next"} /\ resuming' = resuming
    BY <1>15, SMT DEF ValidateCandidate, Continue, restart, Fail, Return
  <2> QED
    BY <1>15, <2>2, <2>3, <2>4, SMT DEF TypeOK, Row, JobTyped, JobRecord, ValidateCandidate, disk, fetch
<1>16. CASE Register
  <2>1. JobTyped /\ job # NoJob
    BY <1>16, SMT DEF TypeOK, JobTyped, JobRecord, Register, JobAt
  <2>2. row' \in [Refs -> {NoRow} \cup Row]
    BY <1>16, JobUpdates, JobUpdateTyped
  <2>3. JobTyped'
    BY <1>16, <2>1, FoundIsThere, SMT
       DEF Register, JobTyped, JobRecord, JobPlaces, JobAt, Continue, Fail, Return
  <2>4. waiting' = waiting /\ resume' \in {resume, "next"} /\ resuming' = resuming
    BY <1>16, SMT DEF Register, Continue, restart, Fail, Return
  <2> QED
    BY <1>16, <2>2, <2>3, <2>4, SMT DEF TypeOK, Row, JobTyped, JobRecord, Register, disk, fetch
<1>17. CASE Load
  <2>1. JobTyped /\ job # NoJob
    BY <1>17, SMT DEF TypeOK, JobTyped, JobRecord, Load, JobAt
  <2>2. row' \in [Refs -> {NoRow} \cup Row]
    BY <1>17, JobUpdates, JobUpdateTyped
  <2>3. JobTyped'
    BY <1>17, <2>1, FoundIsThere, SMT
       DEF Load, JobTyped, JobRecord, JobPlaces, JobAt, Continue, Fail, Return
  <2>4. waiting' = waiting /\ resume' \in {resume, "next"} /\ resuming' = resuming
    BY <1>17, SMT DEF Load, Continue, restart, Fail, Return
  <2> QED
    <3>1. saved' \in Paths \cup {Configured, Other}
      BY <1>17, <2>1, JobIsTyped, SMT DEF TypeOK, Load, JobAt
    <3> QED
      BY <1>17, <2>2, <2>3, <2>4, <3>1, Zenon
         DEF TypeOK, Row, JobTyped, JobRecord, Load, disk, fetch
<1>18. CASE Report
  <2>1. JobTyped /\ job # NoJob
    BY <1>18, SMT DEF TypeOK, JobTyped, JobRecord, Report, JobAt
  <2>2. row' \in [Refs -> {NoRow} \cup Row]
    <3>1. "loaded" \in Recoveries
      BY SMT DEF Recoveries
    <3>2. "" \in Downloads
      BY SMT DEF Downloads
    <3>3. SetRecovery(job.ref, "loaded", job.path)
      BY <1>18, Zenon DEF Report
    <3> QED BY <2>1, <3>1, <3>2, <3>3, JobIsTyped, UpdatesTyped, Zenon
  <2>3. JobTyped'
    BY <1>18, <2>1, FoundIsThere, SMT
       DEF Report, JobTyped, JobRecord, JobPlaces, JobAt, Return
  <2>4. waiting' = waiting /\ resume' \in {resume, "next"} /\ resuming' = resuming
    BY <1>18, SMT DEF Report, Return
  <2> QED
    BY <1>18, <2>2, <2>3, <2>4, SMT DEF TypeOK, Row, JobTyped, JobRecord, Report, disk, fetch
<1>19. CASE ExtractorSucceeds
  <2>1. JobTyped /\ job # NoJob
    BY <1>19, SMT DEF TypeOK, JobTyped, JobRecord, ExtractorSucceeds, JobAt
  <2>2. row' \in [Refs -> {NoRow} \cup Row]
    BY <1>19, JobUpdates, JobUpdateTyped
  <2>3. JobTyped'
    BY <1>19, <2>1, FoundIsThere, SMT
       DEF ExtractorSucceeds, JobTyped, JobRecord, JobPlaces, JobAt, Continue, Fail, Return
  <2>4. waiting' = waiting /\ resume' \in {resume, "next"} /\ resuming' = resuming
    BY <1>19, SMT DEF ExtractorSucceeds, Continue, restart, Fail, Return
  <2>5. extracted' \in [Refs -> {NoFiles} \cup Extractions]
    <3>1. job.ref \in Refs /\ [from |-> job.file, whole |-> TRUE] \in Extractions
      BY <1>19, <2>1, JobIsTyped, SMT DEF ExtractorSucceeds, JobAt, Extractions
    <3> QED BY <1>19, <3>1, SMT DEF TypeOK, ExtractorSucceeds
  <2> QED
    BY <1>19, <2>2, <2>3, <2>4, <2>5, Zenon
       DEF TypeOK, Row, JobTyped, JobRecord, ExtractorSucceeds, fetch
<1>20. CASE ResumeReads
  BY <1>20, SMT DEF TypeOK, ResumeReads, disk, stored, fetch, recover
<1>21. CASE ResumeNext
  BY <1>21, SMT DEF TypeOK, ResumeNext, disk, stored, fetch, Jobs
<1>22. CASE ResumeEnds
  BY <1>22, SMT DEF TypeOK, ResumeEnds, disk, stored, fetch, recover
<1>23. CASE Start
  BY <1>23, SMT DEF TypeOK, Start, disk, fetch, recover
<1>24. CASE ProcessEnds
  <2>1. extracted' \in [Refs -> {NoFiles} \cup Extractions]
    <3>1. CASE JobAt("extracting")
      <4>1. job.file \in Refs /\ job.ref \in Refs
        BY <3>1, SMT DEF TypeOK, JobAt
      <4>2. \/ extracted' = extracted
            \/ \E w \in BOOLEAN :
                 extracted' = [extracted EXCEPT ![job.ref] = [from |-> job.file, whole |-> w]]
        <5>1. (artifact[job.file] = "whole") \in BOOLEAN /\ FALSE \in BOOLEAN
          OBVIOUS
        <5> QED BY <1>24, <3>1, <5>1, Zenon DEF ProcessEnds
      <4> QED
        <5>1. \A w \in BOOLEAN : [from |-> job.file, whole |-> w] \in Extractions
          BY <4>1, SMT DEF Extractions
        <5>2. \/ extracted' = extracted
              \/ \E e \in Extractions : extracted' = [extracted EXCEPT ![job.ref] = e]
          BY <4>2, <5>1, Zenon
        <5> QED BY <4>1, <5>2, SMT DEF TypeOK
    <3>2. CASE ~JobAt("extracting")
      BY <1>24, <3>2, SMT DEF TypeOK, ProcessEnds
    <3> QED BY <3>1, <3>2
  <2> QED
    BY <1>24, <2>1, Zenon DEF TypeOK, ProcessEnds, stored
<1>25. CASE OperatorLoads
  BY <1>25, SMT DEF TypeOK, OperatorLoads, disk, fetch, recover, restart
<1>26. CASE ResetRecords
  BY <1>26, SMT DEF TypeOK, ResetRecords, disk, fetch, recover, restart
<1>27. CASE UNCHANGED vars
  BY <1>27, SMT DEF TypeOK, vars, disk, stored, fetch, recover, restart
<1> QED
  BY <1>1, <1>2, <1>3, <1>4, <1>5, <1>6, <1>7, <1>8, <1>9, <1>10, <1>11, <1>12, <1>13, <1>14, <1>15, <1>16, <1>17, <1>18, <1>19, <1>20, <1>21, <1>22, <1>23, <1>24, <1>25, <1>26, <1>27
     DEF Next, DownloadStep, JobStep, ResumeStep

-----------------------------------------------------------------------------
(* The invariant.                                                          *)

\* At first nothing is recorded, downloaded or relied on.
LEMMA RecoveryInvInit == Init => RecoveryIInv
<1> SUFFICES ASSUME Init
             PROVE  RecoveryIInv
  OBVIOUS
<1>1. TypeOK
  BY RecoveryTypeInit
<1>2. StartInv
  BY SMT DEF Init, StartInv, Unstarted
<1>3. \A p \in Paths : ~Trusted(p)
  BY RecoveryAssumption, SMT DEF Init, Trusted, Loaded, JobAt, RecoveryAssumption
<1>4. JobInv
  BY SMT DEF Init, JobInv, JobAt
<1> QED BY <1>1, <1>2, <1>3, <1>4 DEF RecoveryIInv, TrustInv

\* Only the steps of aria2c and of its handler concern who has yet to start.
LEMMA StartNext == TypeOK /\ StartInv /\ [Next]_vars => StartInv'
<1> SUFFICES ASSUME TypeOK, StartInv, [Next]_vars
             PROVE  StartInv'
  OBVIOUS
<1>1. ASSUME NEW r \in Refs, Record(r)
      PROVE  StartInv'
  BY <1>1, SMT DEF TypeOK, StartInv, Unstarted, Record, stored, disk, Refs
<1>2. ASSUME NEW r \in Refs, Reuse(r)
      PROVE  StartInv'
  BY <1>2, SMT DEF TypeOK, StartInv, Unstarted, Reuse, disk
<1>3. ASSUME NEW r \in Refs, Prepare(r)
      PROVE  StartInv'
  BY <1>3, SMT DEF TypeOK, StartInv, Unstarted, Prepare, disk
<1>4. ASSUME NEW r \in Refs, NotPrepared(r)
      PROVE  StartInv'
  <2>1. handler' = [handler EXCEPT ![r] = "idle"] /\ UNCHANGED <<artifact, created, aria>>
    BY <1>4, Zenon DEF NotPrepared, disk
  <2> QED BY <2>1, SMT DEF TypeOK, StartInv, Unstarted
<1>5. ASSUME NEW r \in Refs, Launch(r)
      PROVE  StartInv'
  <2>1. /\ handler[r] = "launch" /\ UNCHANGED <<artifact, created>>
        /\ \/ /\ aria' = [aria EXCEPT ![r] = "running"]
              /\ handler' = [handler EXCEPT ![r] = "watch"]
           \/ aria' = aria /\ handler' = [handler EXCEPT ![r] = "idle"]
    BY <1>5, Zenon DEF Launch, disk
  <2> QED BY <2>1, SMT DEF TypeOK, StartInv, Unstarted
<1>6. ASSUME NEW r \in Refs, WatchEnds(r)
      PROVE  StartInv'
  BY <1>6, SMT DEF TypeOK, StartInv, Unstarted, WatchEnds, disk
<1>7. ASSUME NEW r \in Refs, AriaWrites(r)
      PROVE  StartInv'
  BY <1>7, SMT DEF TypeOK, StartInv, Unstarted, AriaWrites, stored, fetch
<1>8. ASSUME NEW r \in Refs, AriaEnds(r)
      PROVE  StartInv'
  BY <1>8, SMT DEF TypeOK, StartInv, Unstarted, AriaEnds, stored
<1>9. ASSUME NEW r \in Refs, OperatorRemoves(r)
      PROVE  StartInv'
  BY <1>9, SMT DEF TypeOK, StartInv, Unstarted, OperatorRemoves, stored, fetch
<1>10. CASE ProcessEnds
  BY <1>10, SMT DEF TypeOK, StartInv, Unstarted, ProcessEnds, stored
<1>11. ASSUME UNCHANGED <<artifact, created, fetch>>
      PROVE  StartInv'
  BY <1>11, SMT DEF StartInv, Unstarted, fetch
<1>12. ASSUME \/ \E j \in Jobs : Begin(j)
             \/ Find \/ FindNothing \/ Choose \/ ExtractorStopped \/ ValidateCandidate
             \/ Register \/ Load \/ Report \/ ExtractorSucceeds \/ ResumeStep
             \/ Start \/ OperatorLoads \/ ResetRecords \/ UNCHANGED vars
      PROVE  UNCHANGED <<artifact, created, fetch>>
  BY <1>12, Zenon DEF Begin, Find, FindNothing, Choose, ExtractorStopped, ValidateCandidate, Register, Load, Report, ExtractorSucceeds, ResumeReads, ResumeNext, ResumeEnds, Start, OperatorLoads, ResetRecords, ResumeStep, disk, stored, vars
<1> QED
  BY <1>1, <1>2, <1>3, <1>4, <1>5, <1>6, <1>7, <1>8, <1>9, <1>10, <1>11, <1>12, Zenon
     DEF Next, DownloadStep, JobStep

\* What the handler and its watcher report makes no reference loaded.
LEMMA HandlerUpdates ==
  ASSUME TypeOK, NEW r \in Refs,
         Reuse(r) \/ Prepare(r) \/ NotPrepared(r) \/ Launch(r) \/ WatchEnds(r)
  PROVE  /\ \A q \in Refs, x \in Paths : Loaded(q, x)' => Loaded(q, x)
         /\ \A q \in Refs : row'[q] # NoRow /\ row'[q].recovery = "loaded" => row'[q] = row[q]
         /\ \A q \in Refs : q # r => row'[q] = row[q]
         /\ UNCHANGED <<disk, saved, created, up, job, restart>>
         /\ handler'[r] # handler[r]
<1>1. /\ \E d \in Downloads, c \in Unloaded : SetDownload(r, d, c) \/ SetProgress(r, d, c)
      /\ UNCHANGED <<disk, saved, created, up, job, restart>>
  <2>1. /\ "reused" \in Downloads /\ "starting" \in Downloads /\ "not_started" \in Downloads
        /\ "started" \in Downloads /\ "completed" \in Downloads /\ "failed" \in Downloads
    BY SMT DEF Downloads
  <2>2. /\ "recovering" \in Unloaded /\ "waiting_for_download" \in Unloaded
        /\ "" \in Unloaded /\ "download_failed" \in Unloaded
    BY SMT DEF Unloaded, Recoveries
  <2>3. CASE Reuse(r)
    BY <2>1, <2>2, <2>3, Zenon DEF Reuse, recover
  <2>4. CASE Prepare(r)
    BY <2>1, <2>2, <2>4, Zenon DEF Prepare, recover
  <2>5. CASE NotPrepared(r)
    BY <2>1, <2>2, <2>5, Zenon DEF NotPrepared, recover
  <2>6. CASE Launch(r)
    BY <2>1, <2>2, <2>6, Zenon DEF Launch, recover
  <2>7. CASE WatchEnds(r)
    BY <2>1, <2>2, <2>7, Zenon DEF WatchEnds, recover
  <2> QED BY <2>3, <2>4, <2>5, <2>6, <2>7
<1>2. PICK d \in Downloads, c \in Unloaded : SetDownload(r, d, c) \/ SetProgress(r, d, c)
  BY <1>1
<1>3. /\ \A q \in Refs, x \in Paths : Loaded(q, x)' => Loaded(q, x)
      /\ \A q \in Refs : row'[q] # NoRow /\ row'[q].recovery = "loaded" => row'[q] = row[q]
      /\ \A q \in Refs : q # r => row'[q] = row[q]
  BY <1>2, UnloadedTyped, UpdatesUnload, Zenon
<1>4. handler'[r] # handler[r]
  <2>1. CASE Reuse(r)
    BY <2>1, SMT DEF TypeOK, Reuse
  <2>2. CASE Prepare(r)
    BY <2>2, SMT DEF TypeOK, Prepare
  <2>3. CASE NotPrepared(r)
    <3>1. handler[r] = "look" /\ handler' = [handler EXCEPT ![r] = "idle"]
      BY <2>3, Zenon DEF NotPrepared
    <3> QED BY <3>1, SMT DEF TypeOK
  <2>4. CASE Launch(r)
    <3>1. handler[r] = "launch" /\ \E h \in {"idle", "watch"} : handler' = [handler EXCEPT ![r] = h]
      BY <2>4, Zenon DEF Launch
    <3> QED BY <3>1, SMT DEF TypeOK
  <2>5. CASE WatchEnds(r)
    BY <2>5, SMT DEF TypeOK, WatchEnds
  <2> QED BY <2>1, <2>2, <2>3, <2>4, <2>5
<1> QED BY <1>1, <1>3, <1>4

\* Nor do the steps of a recovery, but the last.
LEMMA JobSteps ==
  ASSUME TypeOK, JobUpdate, job.ref \in Refs
  PROVE  /\ \A q \in Refs, x \in Paths : Loaded(q, x)' => Loaded(q, x)
         /\ row[job.ref] # NoRow /\ row[job.ref].recovery # "loaded" /\ row'[job.ref] # NoRow =>
              row'[job.ref].recovery # "loaded"
         /\ \A q \in Refs : q # job.ref => row'[q] = row[q]
         /\ row[job.ref] = NoRow => row'[job.ref] = NoRow
<1>1. CASE row' = row
  BY <1>1, SMT DEF Loaded
<1>2. CASE row' # row
  <2>1. PICK c \in Unloaded, p \in Paths \cup {NoPath} : SetRecovery(job.ref, c, p)
    BY <1>2, Zenon DEF JobUpdate
  <2>2. c # "loaded"
    BY UnloadedTyped
  <2> QED BY <2>1, <2>2, SMT DEF TypeOK, SetRecovery, SetRow, Loaded
<1> QED BY <1>1, <1>2

\* A recovery under way has found its reference not loaded, and nothing but the
\* recovery itself makes it so.
LEMMA JobNext == TypeOK /\ JobInv /\ [Next]_vars => JobInv'
<1> SUFFICES ASSUME TypeOK, JobInv, [Next]_vars
             PROVE  JobInv'
  OBVIOUS
<1>1. ASSUME NEW r \in Refs, Record(r)
      PROVE  JobInv'
  <2>1. NewRow.recovery # "loaded"
    BY SMT DEF NewRow
  <2>2. \A q \in Refs : row'[q] = row[q] \/ row'[q] = NewRow
    BY <1>1, SMT DEF TypeOK, Record
  <2>3. job' = job /\ extracted' = extracted
    BY <1>1, SMT DEF Record, disk, recover
  <2> QED BY <2>1, <2>2, <2>3, JobIsTyped, SMT DEF JobInv, JobAt
<1>2. ASSUME NEW r \in Refs,
             Reuse(r) \/ Prepare(r) \/ NotPrepared(r) \/ Launch(r) \/ WatchEnds(r)
      PROVE  JobInv'
  <2>1. /\ UNCHANGED <<disk, job>>
        /\ \A q \in Refs : row'[q] # NoRow /\ row'[q].recovery = "loaded" => row'[q] = row[q]
    BY <1>2, HandlerUpdates
  <2> QED BY <2>1, JobIsTyped, SMT DEF JobInv, JobAt, disk
<1>3. ASSUME NEW j \in Jobs, Begin(j)
      PROVE  JobInv'
  <2>1. j.ref \in Refs
    BY SMT DEF Jobs
  <2>2. CASE row' = row /\ job' = job
    BY <1>3, <2>2, SMT DEF Begin, JobInv, JobAt, disk
  <2>3. CASE /\ SetRecovery(j.ref, "recovering", NoPath)
             /\ job'.ref = j.ref /\ job'.at = "find"
    BY <2>1, <2>3, SMT DEF TypeOK, JobInv, JobAt, SetRecovery, SetRow
  <2> QED BY <1>3, <2>2, <2>3, SMT DEF Begin
<1>4. CASE Find
  <2>1. job # NoJob /\ job.ref \in Refs /\ job'.ref = job.ref /\ job'.at = "extract"
    BY <1>4, JobIsTyped, SMT DEF Find, JobAt, Continue
  <2>2. row'[job.ref] # NoRow => row'[job.ref].recovery = "extracting"
    BY <1>4, <2>1, SMT DEF TypeOK, Find, SetRow
  <2> QED BY <2>1, <2>2, SMT DEF JobInv, JobAt
<1>5. CASE Report
  BY <1>5, SMT DEF JobInv, JobAt, Report, Return
<1>6. ASSUME \/ FindNothing \/ Choose \/ ExtractorStopped \/ ExtractorSucceeds
             \/ ValidateCandidate \/ Register \/ Load
      PROVE  JobInv'
  <2>1. job # NoJob /\ job.ref \in Refs /\ JobUpdate
    BY <1>6, JobUpdates
  <2>2. row'[job.ref] # NoRow => row'[job.ref].recovery # "loaded"
    BY <2>1, JobSteps, SMT DEF JobInv
  <2>3. /\ job' # NoJob => job'.ref = job.ref
        /\ JobAt("extracting")' => extracted'[job.ref] = NoFiles
    <3>1. CASE FindNothing
      BY <2>1, <3>1, SMT DEF FindNothing, JobAt, Return
    <3>2. CASE Choose
      BY <2>1, <3>2, SMT DEF Choose, JobAt, Continue, Fail, Return, Exists, disk
    <3>3. CASE ExtractorStopped
      BY <2>1, <3>3, SMT DEF ExtractorStopped, JobAt, Fail, Return
    <3>4. CASE ExtractorSucceeds
      BY <2>1, <3>4, SMT DEF ExtractorSucceeds, JobAt, Continue, Fail, Return
    <3>5. CASE ValidateCandidate
      BY <2>1, <3>5, SMT DEF ValidateCandidate, JobAt, Continue, Fail, Return
    <3>6. CASE Register
      BY <2>1, <3>6, SMT DEF Register, JobAt, Continue, Fail, Return
    <3>7. CASE Load
      BY <2>1, <3>7, SMT DEF Load, JobAt, Continue, Fail, Return
    <3> QED BY <1>6, <3>1, <3>2, <3>3, <3>4, <3>5, <3>6, <3>7
  <2> QED BY <2>2, <2>3, SMT DEF JobInv, JobAt
<1>7. ASSUME UNCHANGED <<row, job, extracted>>
      PROVE  JobInv'
  BY <1>7, SMT DEF JobInv, JobAt
<1>8. ASSUME \/ \E r \in Refs : AriaWrites(r) \/ AriaEnds(r) \/ OperatorRemoves(r)
             \/ ResumeStep \/ Start \/ OperatorLoads \/ UNCHANGED vars
      PROVE  UNCHANGED <<row, job, extracted>>
  BY <1>8, Zenon DEF AriaWrites, AriaEnds, OperatorRemoves, ResumeStep, ResumeReads,
     ResumeNext, ResumeEnds, Start, OperatorLoads, disk, stored, recover, vars
<1>9. CASE ResetRecords
  BY <1>9, JobIsTyped, SMT DEF JobInv, JobAt, ResetRecords, disk, recover
<1>10. CASE ProcessEnds
  BY <1>10, SMT DEF JobInv, JobAt, ProcessEnds
<1> QED
  BY <1>1, <1>2, <1>3, <1>4, <1>5, <1>6, <1>7, <1>8, <1>9, <1>10, Zenon
     DEF Next, DownloadStep, JobStep

\* What exists and is valid, or existed and was removed, stays so.
LEMMA SoundNext ==
  TypeOK /\ StartInv /\ JobInv /\ [Next]_vars => \A p \in Paths : Sound(p) => Sound(p)'
<1> SUFFICES ASSUME TypeOK, StartInv, JobInv, [Next]_vars, NEW p \in Paths, Sound(p)
             PROVE  Sound(p)'
  OBVIOUS
<1>0. p.of \in Refs /\ p.in \in {"download", "extraction"}
  BY SMT DEF Paths
<1>1. ASSUME NEW r \in Refs, Record(r)
      PROVE  Sound(p)'
  <2>1. /\ created' = r /\ r = created + 1 /\ UNCHANGED <<disk, aria>>
        /\ handler' = [handler EXCEPT ![r] = "look"]
    BY <1>1, Zenon DEF Record
  <2>2. Unstarted(p.of)' => Unstarted(p.of)
    BY <1>0, <2>1, SMT DEF TypeOK, Unstarted, Refs
  <2> QED BY <1>0, <2>1, <2>2, SMT DEF Sound, Unborn, Exists, Usable, disk
<1>2. ASSUME NEW r \in Refs, Reuse(r)
      PROVE  Sound(p)'
  BY <1>0, <1>2, SMT DEF TypeOK, StartInv, Sound, Unborn, Unstarted, Exists, Usable, Reuse, disk
<1>3. ASSUME NEW r \in Refs, Prepare(r)
      PROVE  Sound(p)'
  BY <1>0, <1>3, SMT DEF TypeOK, StartInv, Sound, Unborn, Unstarted, Exists, Usable, Prepare, disk
<1>4. ASSUME NEW r \in Refs, NotPrepared(r)
      PROVE  Sound(p)'
  <2>1. handler' = [handler EXCEPT ![r] = "idle"] /\ UNCHANGED <<disk, created, aria>>
    BY <1>4, Zenon DEF NotPrepared
  <2> QED BY <1>0, <2>1, SMT DEF TypeOK, StartInv, Sound, Unborn, Unstarted, Exists, Usable, disk
<1>5. ASSUME NEW r \in Refs, Launch(r)
      PROVE  Sound(p)'
  <2>1. /\ handler[r] = "launch" /\ UNCHANGED <<disk, created>>
        /\ \/ /\ aria' = [aria EXCEPT ![r] = "running"]
              /\ handler' = [handler EXCEPT ![r] = "watch"]
           \/ aria' = aria /\ handler' = [handler EXCEPT ![r] = "idle"]
    BY <1>5, Zenon DEF Launch
  <2> QED BY <1>0, <2>1, SMT DEF TypeOK, StartInv, Sound, Unborn, Unstarted, Exists, Usable, disk
<1>6. ASSUME NEW r \in Refs, WatchEnds(r)
      PROVE  Sound(p)'
  BY <1>0, <1>6, SMT DEF TypeOK, StartInv, Sound, Unborn, Unstarted, Exists, Usable, WatchEnds, disk
<1>7. ASSUME NEW r \in Refs, AriaWrites(r)
      PROVE  Sound(p)'
  BY <1>0, <1>7, SMT DEF TypeOK, StartInv, Sound, Unborn, Unstarted, Exists, Usable, AriaWrites, stored, fetch
<1>8. ASSUME NEW r \in Refs, AriaEnds(r)
      PROVE  Sound(p)'
  BY <1>0, <1>8, SMT DEF TypeOK, StartInv, Sound, Unborn, Unstarted, Exists, Usable, AriaEnds, stored
<1>9. ASSUME NEW r \in Refs, OperatorRemoves(r)
      PROVE  Sound(p)'
  BY <1>0, <1>9, SMT DEF TypeOK, StartInv, Sound, Unborn, Unstarted, Exists, Usable, OperatorRemoves, stored, fetch
<1>10. CASE ExtractorSucceeds \/ ExtractorStopped
  <2>1. /\ UNCHANGED <<artifact, created, fetch>>
        /\ \/ extracted' = extracted
           \/ \E e \in Extractions : extracted' = [extracted EXCEPT ![job.ref] = e]
        /\ job.ref \in Refs /\ extracted[job.ref] = NoFiles
    <3>1. job.ref \in Refs /\ job.file \in Refs /\ extracted[job.ref] = NoFiles
      BY <1>10, JobIsTyped, SMT DEF ExtractorSucceeds, ExtractorStopped, JobAt, JobInv
    <3>2. /\ [from |-> job.file, whole |-> TRUE] \in Extractions
          /\ [from |-> job.file, whole |-> FALSE] \in Extractions
      BY <3>1, SMT DEF Extractions
    <3> QED BY <1>10, <3>1, <3>2, Zenon DEF ExtractorSucceeds, ExtractorStopped
  <2> QED BY <1>0, <2>1, SMT DEF TypeOK, StartInv, Sound, Unborn, Unstarted, Exists, Usable, fetch
<1>11. CASE ProcessEnds
  <2>1. \A q \in Refs : extracted'[q] = extracted[q] \/ extracted[q] = NoFiles
    <3>1. CASE JobAt("extracting")
      <4>1. job.ref \in Refs /\ extracted[job.ref] = NoFiles
        BY <3>1, JobIsTyped, SMT DEF JobAt, JobInv
      <4>2. \/ extracted' = extracted
            \/ \E w : extracted' = [extracted EXCEPT ![job.ref] = w]
        BY <1>11, <3>1, Zenon DEF ProcessEnds
      <4> QED BY <4>1, <4>2, SMT DEF TypeOK
    <3>2. CASE ~JobAt("extracting")
      BY <1>11, <3>2, SMT DEF ProcessEnds
    <3> QED BY <3>1, <3>2
  <2>2. /\ artifact' = artifact /\ created' = created
        /\ \A q \in Refs : handler'[q] = "idle" /\ (aria'[q] = "running" => aria[q] = "running")
    BY <1>11, SMT DEF ProcessEnds, stored
  <2> QED BY <1>0, <2>1, <2>2, SMT DEF TypeOK, StartInv, Sound, Unborn, Unstarted, Exists, Usable
<1>12. ASSUME UNCHANGED <<disk, created, fetch>>
       PROVE  Sound(p)'
  BY <1>12, SMT DEF Sound, Unborn, Unstarted, Exists, Usable, disk, fetch
<1>13. ASSUME \/ \E j \in Jobs : Begin(j)
              \/ Find \/ FindNothing \/ Choose \/ ValidateCandidate
              \/ Register \/ Load \/ Report \/ ResumeStep
              \/ Start \/ OperatorLoads \/ ResetRecords \/ UNCHANGED vars
       PROVE  UNCHANGED <<disk, created, fetch>>
  BY <1>13, Zenon DEF Begin, Find, FindNothing, Choose, ValidateCandidate, Register, Load,
     Report, ResumeStep, ResumeReads, ResumeNext, ResumeEnds, Start, OperatorLoads,
     ResetRecords, stored, vars
<1> QED
  BY <1>1, <1>2, <1>3, <1>4, <1>5, <1>6, <1>7, <1>8, <1>9, <1>10, <1>11, <1>12, <1>13, Zenon
     DEF Next, DownloadStep, JobStep

\* What is validated can be relied on.
LEMMA UsableIsSound ==
  ASSUME StartInv, NEW p \in Paths, Usable(p), NoFiles \notin Extractions
  PROVE  Sound(p)
  BY SMT DEF StartInv, Paths, Usable, Sound, Unborn

\* Nobody relies on a path but the one that was validated, the operator's, or
\* one that was relied on before.
LEMMA TrustNext ==
  TypeOK /\ StartInv /\ [Next]_vars =>
    \A p \in Paths : Trusted(p)' => Trusted(p) \/ Usable(p)
<1> SUFFICES ASSUME TypeOK, StartInv, [Next]_vars, NEW p \in Paths, Trusted(p)'
             PROVE  Trusted(p) \/ Usable(p)
  OBVIOUS
<1>0. p # Configured /\ p # Other
  BY RecoveryAssumption, SMT DEF RecoveryAssumption
<1>1. ASSUME NEW r \in Refs, Record(r)
      PROVE  Trusted(p)
  <2>1. NewRow.recovery # "loaded"
    BY SMT DEF NewRow
  <2>2. \A q \in Refs : row'[q] = row[q] \/ row'[q] = NewRow
    BY <1>1, SMT DEF TypeOK, Record
  <2>3. job' = job /\ saved' = saved
    BY <1>1, SMT DEF Record, recover
  <2> QED BY <2>1, <2>2, <2>3, SMT DEF Trusted, Loaded, JobAt
<1>2. ASSUME NEW r \in Refs,
             Reuse(r) \/ Prepare(r) \/ NotPrepared(r) \/ Launch(r) \/ WatchEnds(r)
      PROVE  Trusted(p)
  <2>1. UNCHANGED <<saved, job>> /\ \A q \in Refs : Loaded(q, p)' => Loaded(q, p)
    BY <1>2, HandlerUpdates
  <2> QED BY <2>1, SMT DEF Trusted, JobAt
<1>3. ASSUME NEW j \in Jobs, Begin(j)
      PROVE  Trusted(p)
  <2>1. j.ref \in Refs
    BY SMT DEF Jobs
  <2>2. CASE row' = row /\ job' = job
    BY <1>3, <2>2, SMT DEF Begin, Trusted, Loaded, JobAt
  <2>3. CASE SetRecovery(j.ref, "recovering", NoPath) /\ job'.at = "find"
    <3>1. \A q \in Refs : Loaded(q, p)' => Loaded(q, p)
      BY <2>1, <2>3, SMT DEF TypeOK, Loaded, SetRecovery, SetRow
    <3>2. saved' = saved
      BY <1>3, SMT DEF Begin
    <3> QED BY <2>3, <3>1, <3>2, SMT DEF Trusted, JobAt
  <2> QED BY <1>3, <2>2, <2>3, SMT DEF Begin
<1>4. CASE Find
  <2>1. job # NoJob /\ job.ref \in Refs /\ job'.at = "extract" /\ saved' = saved
    BY <1>4, JobIsTyped, SMT DEF Find, JobAt, Continue
  <2>2. \A q \in Refs : Loaded(q, p)' => Loaded(q, p)
    BY <1>4, <2>1, SMT DEF TypeOK, Find, SetRow, Loaded
  <2> QED BY <2>1, <2>2, SMT DEF Trusted, JobAt
<1>5. CASE Report
  <2>1. job.ref \in Refs /\ JobAt("report") /\ job' = NoJob /\ saved' = saved
    BY <1>5, JobIsTyped, SMT DEF JobAt, Report, Return
  <2>2. \A q \in Refs : Loaded(q, p)' => Loaded(q, p) \/ job.path = p
    BY <1>5, <2>1, SMT DEF TypeOK, Report, SetRecovery, SetRow, Loaded
  <2> QED BY <2>1, <2>2, SMT DEF Trusted, JobAt
<1>6. ASSUME \/ FindNothing \/ Choose \/ ExtractorStopped \/ ExtractorSucceeds
             \/ ValidateCandidate \/ Register \/ Load
      PROVE  Trusted(p) \/ Usable(p)
  <2>1. \A q \in Refs : Loaded(q, p)' => Loaded(q, p)
    BY <1>6, JobUpdates, JobSteps
  <2>2. CASE FindNothing
    BY <2>1, <2>2, SMT DEF Trusted, JobAt, FindNothing, Return
  <2>3. CASE Choose
    BY <2>1, <2>3, SMT DEF Trusted, JobAt, Choose, Continue, Fail, Return
  <2>4. CASE ExtractorStopped
    BY <2>1, <2>4, SMT DEF Trusted, JobAt, ExtractorStopped, Fail, Return
  <2>5. CASE ExtractorSucceeds
    BY <2>1, <2>5, SMT DEF Trusted, JobAt, ExtractorSucceeds, Continue, Fail, Return
  <2>6. CASE ValidateCandidate
    BY <2>1, <2>6, SMT DEF Trusted, JobAt, ValidateCandidate, Continue, Fail, Return
  <2>7. CASE Register
    BY <2>1, <2>7, SMT DEF Trusted, JobAt, Register, Continue, Fail, Return
  <2>8. CASE Load
    BY <2>1, <2>8, SMT DEF Trusted, JobAt, Load, Continue, Fail, Return
  <2> QED BY <1>6, <2>2, <2>3, <2>4, <2>5, <2>6, <2>7, <2>8
<1>7. ASSUME UNCHANGED <<row, job>>, saved' \in {saved, Configured, Other}
      PROVE  Trusted(p)
  BY <1>0, <1>7, SMT DEF Trusted, Loaded, JobAt
<1>8. ASSUME \/ \E r \in Refs : AriaWrites(r) \/ AriaEnds(r) \/ OperatorRemoves(r)
             \/ ResumeStep \/ Start \/ OperatorLoads \/ UNCHANGED vars
      PROVE  UNCHANGED <<row, job>> /\ saved' \in {saved, Configured, Other}
  BY <1>8, Zenon DEF AriaWrites, AriaEnds, OperatorRemoves, ResumeStep, ResumeReads,
     ResumeNext, ResumeEnds, Start, OperatorLoads, disk, stored, recover, vars
<1>9. CASE ResetRecords
  BY <1>9, SMT DEF Trusted, Loaded, JobAt, ResetRecords, recover
<1>10. CASE ProcessEnds
  BY <1>10, SMT DEF Trusted, Loaded, JobAt, ProcessEnds, stored
<1> QED
  BY <1>1, <1>2, <1>3, <1>4, <1>5, <1>6, <1>7, <1>8, <1>9, <1>10, Zenon
     DEF Next, DownloadStep, JobStep

\* The parts of the invariant together are inductive.
LEMMA RecoveryInvNext == RecoveryIInv /\ [Next]_vars => RecoveryIInv'
<1> SUFFICES ASSUME RecoveryIInv, [Next]_vars
             PROVE  RecoveryIInv'
  OBVIOUS
<1>1. TypeOK /\ StartInv /\ JobInv /\ TrustInv
  BY DEF RecoveryIInv
<1>2. TypeOK' /\ StartInv' /\ JobInv'
  BY <1>1, RecoveryTypeNext, StartNext, JobNext
<1>3. ASSUME NEW p \in Paths, Trusted(p)'
      PROVE  Sound(p)'
  <2>1. Sound(p)
    BY <1>1, <1>3, TrustNext, UsableIsSound, RecoveryAssumption DEF TrustInv, RecoveryAssumption
  <2> QED BY <1>1, <2>1, SoundNext
<1> QED BY <1>2, <1>3 DEF RecoveryIInv, TrustInv

-----------------------------------------------------------------------------
(* The theorems.                                                           *)

\* The inductive invariant holds in every reachable state: nothing that a row, a
\* selection or a job relies on is a file still being written (recovery.go:39-140).
THEOREM RecoveryInvariant == Spec => []RecoveryIInv
  BY RecoveryInvInit, RecoveryInvNext, PTL DEF Spec

\* The variables stay in their ranges, through every step of the handler, the
\* watcher, the recovery (recovery.go:39-140) and the resume.
THEOREM RecoveryTypeCorrect == Spec => []TypeOK
<1>1. RecoveryIInv => TypeOK
  BY DEF RecoveryIInv
<1> QED BY <1>1, RecoveryInvariant, PTL

\* A reference that is reported as loaded (recovery.go:138) names a complete and
\* valid catalog, or one that was removed since, whatever downloads, extractions
\* and crashes leave unfinished.
THEOREM LoadedCorrect == Spec => []LoadedIsValid
<1>1. RecoveryIInv => LoadedIsValid
  BY SMT DEF RecoveryIInv, TrustInv, Sound, Trusted, Loaded, LoadedIsValid, Finished, TypeOK
<1> QED BY <1>1, RecoveryInvariant, PTL

\* So does the stored selection, which a restart opens (cmd/server/main.go).
THEOREM SelectionCorrect == Spec => []SelectionIsValid
<1>1. RecoveryIInv => SelectionIsValid
  BY SMT DEF RecoveryIInv, TrustInv, Sound, Trusted, SelectionIsValid
<1> QED BY <1>1, RecoveryInvariant, PTL

\* A reference that was recovered and whose catalog is there is left alone by other
\* recoveries and by restarts (recovery.go:47).
THEOREM OnceCorrect == Spec => RecoveredOnce
<1>1. ASSUME RecoveryIInv, [Next]_vars, NEW r \in Refs, Finished(r)
      PROVE  row'[r] \in {row[r], NoRow} \/ handler'[r] # handler[r]
  <2>1. TypeOK /\ StartInv /\ JobInv
    BY <1>1 DEF RecoveryIInv
  <2>2. row[r] # NoRow /\ row[r].recovery = "loaded"
    BY <1>1 DEF Finished
  <2>3. ASSUME NEW q \in Refs, Record(q)
        PROVE  row'[r] = row[r] \/ handler'[r] # handler[r]
    <3>1. /\ q = created + 1
          /\ handler' = [handler EXCEPT ![q] = "look"]
          /\ row' = [row EXCEPT ![q] = NewRow]
      BY <2>3, Zenon DEF Record
    <3>2. CASE q = r
      <4>1. handler[r] = "idle"
        BY <2>1, <3>1, <3>2, SMT DEF StartInv, Refs, TypeOK
      <4> QED BY <2>1, <3>1, <3>2, <4>1, SMT DEF TypeOK
    <3>3. CASE q # r
      BY <2>1, <3>1, <3>3, SMT DEF TypeOK
    <3> QED BY <3>2, <3>3
  <2>4. ASSUME NEW q \in Refs,
               Reuse(q) \/ Prepare(q) \/ NotPrepared(q) \/ Launch(q) \/ WatchEnds(q)
        PROVE  row'[r] = row[r] \/ handler'[r] # handler[r]
    <3>1. handler'[q] # handler[q] /\ (q # r => row'[r] = row[r])
      BY <2>1, <2>4, HandlerUpdates
    <3> QED BY <3>1
  <2>5. ASSUME NEW j \in Jobs, Begin(j)
        PROVE  row'[r] = row[r]
    <3>1. j.ref \in Refs
      BY SMT DEF Jobs
    <3>2. CASE row[j.ref] = NoRow \/ Finished(j.ref)
      BY <2>5, <3>2, SMT DEF Begin
    <3>3. CASE ~(row[j.ref] = NoRow \/ Finished(j.ref))
      <4>1. SetRecovery(j.ref, "recovering", NoPath) /\ j.ref # r
        BY <1>1, <2>5, <3>3, Zenon DEF Begin
      <4> QED BY <2>1, <3>1, <4>1, SMT DEF TypeOK, SetRecovery, SetRow
    <3> QED BY <3>2, <3>3
  <2>6. job # NoJob => job.ref # r
    BY <2>1, <2>2, SMT DEF JobInv
  <2>7. CASE Find
    <3>1. job.ref \in Refs /\ job.ref # r
      BY <2>1, <2>6, <2>7, JobIsTyped, SMT DEF Find, JobAt
    <3> QED BY <2>1, <2>7, <3>1, SMT DEF TypeOK, Find, SetRow
  <2>8. CASE Report
    <3>1. job.ref \in Refs /\ job.ref # r
      BY <2>1, <2>6, <2>8, JobIsTyped, SMT DEF Report, JobAt
    <3> QED BY <2>1, <2>8, <3>1, SMT DEF TypeOK, Report, SetRecovery, SetRow
  <2>9. ASSUME \/ FindNothing \/ Choose \/ ExtractorStopped \/ ExtractorSucceeds
               \/ ValidateCandidate \/ Register \/ Load
        PROVE  row'[r] = row[r]
    BY <2>1, <2>6, <2>9, JobUpdates, JobSteps
  <2>10. ASSUME \/ \E q \in Refs : AriaWrites(q) \/ AriaEnds(q) \/ OperatorRemoves(q)
                \/ ResumeStep \/ Start \/ ProcessEnds \/ OperatorLoads \/ UNCHANGED vars
         PROVE  row' = row
    BY <2>10, Zenon DEF AriaWrites, AriaEnds, OperatorRemoves, ResumeStep, ResumeReads,
       ResumeNext, ResumeEnds, Start, ProcessEnds, OperatorLoads, stored, vars
  <2>11. ResetRecords => row'[r] = NoRow
    BY SMT DEF ResetRecords
  <2> QED
    BY <1>1, <2>3, <2>4, <2>5, <2>7, <2>8, <2>9, <2>10, <2>11, Zenon
       DEF Next, DownloadStep, JobStep
<1>2. RecoveryIInv /\ [Next]_vars =>
        \A r \in Refs : Finished(r) => row'[r] \in {row[r], NoRow} \/ handler'[r] # handler[r]
  BY <1>1
<1> QED BY <1>2, RecoveryInvariant, PTL DEF Spec, RecoveredOnce
=============================================================================
