------------------------ MODULE CatalogSourcesProofs ------------------------
(***************************************************************************)
(* Proofs about CatalogSources, for any requests, links, paths and bounds. *)
(***************************************************************************)
EXTENDS CatalogSources, TLAPS

\* A table of sources has some of the ids.
RowTables == UNION {[S -> Row] : S \in SUBSET Ids}

Steps == {"idle", "saving", "validating", "storing", "loading", "pressed", "deleting"}
Spools == {"none", "cut", "whole", "invalid"}
Targets == [id : Nat, born : Nat]
Recoveries == [at : {"none", "registering", "loading"}, magnet : Magnets \cup {NoMagnet},
               path : Paths \cup {NoPath}, id : Nat]

\* The type invariant.  An upload that has a path of its own is whole or gone.
SourcesTypeOK ==
  /\ rows \in RowTables
  /\ last \in Nat /\ inserted \in 0..MaxSources
  /\ uploaded \in [Uploads -> {"none", "whole"}]
  /\ spool \in [Requests -> Spools]
  /\ spc \in [Requests -> Steps]
  /\ form \in [Requests -> Paths \cup Uploads \cup {NoPath}]
  /\ target \in [Requests -> Targets]
  /\ job \in Recoveries
  /\ changed \subseteq Nat /\ cutShort \subseteq Uploads /\ listed \subseteq Uploads

\* An id is the number of its insertion, in the table and on the pages shown.
BornInv ==
  /\ last = inserted
  /\ \A i \in DOMAIN rows : i <= last /\ rows[i].born = i
  /\ \A r \in Requests : target[r].id = target[r].born
  /\ mistaken = FALSE

\* What a row or a request names is whole; an upload that has yet to be recorded
\* is named by nobody else, so that it can be removed.
UploadInv ==
  /\ \A i \in DOMAIN rows : rows[i].path \in Uploads => uploaded[rows[i].path] = "whole"
  /\ \A r \in Requests :
       spc[r] \in {"storing", "loading"} /\ form[r] \in Uploads => uploaded[form[r]] = "whole"
  /\ \A r \in Requests :
       spc[r] = "storing" =>
         /\ form[r] \in Uploads
         /\ \A i \in DOMAIN rows : rows[i].path # form[r]
         /\ \A q \in Requests \ {r} : spc[q] \in {"storing", "loading"} => form[q] # form[r]

\* What a recovery has read is still so, but for the rows that others have written.
LookedInv ==
  job.at = "registering" /\ job.id # 0 =>
    /\ job.id \notin changed => job.id \in DOMAIN rows /\ rows[job.id].magnet = job.magnet
    /\ \A j \in DOMAIN rows \ changed : rows[j].magnet = job.magnet => j <= job.id

SourcesIInv ==
  SourcesTypeOK /\ BornInv /\ UploadInv /\ NoStrayFiles /\ LookedInv /\ RecoveredIsListed

-----------------------------------------------------------------------------
\* What a table of sources is.
LEMMA RowTable ==
  \A f \in RowTables : /\ DOMAIN f \subseteq Ids
                       /\ f = [i \in DOMAIN f |-> f[i]]
                       /\ \A i \in DOMAIN f : f[i] \in Row
  BY DEF RowTables

\* Conversely, a function from ids to rows is a table.
LEMMA IsRowTable ==
  ASSUME NEW f, f = [i \in DOMAIN f |-> f[i]], DOMAIN f \subseteq Ids,
         \A i \in DOMAIN f : f[i] \in Row
  PROVE  f \in RowTables
<1>1. f \in [DOMAIN f -> Row]
  OBVIOUS
<1> QED BY <1>1 DEF RowTables

\* The empty tuple is the table without rows.
LEMMA NoRows == DOMAIN <<>> = {} /\ <<>> \in RowTables
<1>1. DOMAIN <<>> = {}
  OBVIOUS
<1>2. <<>> \in [{} -> Row]
  OBVIOUS
<1> QED BY <1>1, <1>2 DEF RowTables

\* A row more: its id was given to nobody.
LEMMA RowAdded ==
  ASSUME SourcesTypeOK, BornInv, inserted < MaxSources,
         NEW row \in Row, row.born = inserted + 1
  PROVE  /\ With(row) \in RowTables
         /\ NextId \notin DOMAIN rows
         /\ DOMAIN With(row) = DOMAIN rows \cup {NextId}
         /\ With(row)[NextId] = row
         /\ \A i \in DOMAIN rows : With(row)[i] = rows[i]
<1>1. NextId \in Ids /\ NextId \notin DOMAIN rows
  BY SourcesAssumption DEF SourcesTypeOK, BornInv, NextId, Ids
<1>2. /\ With(row) = [i \in DOMAIN With(row) |-> With(row)[i]]
      /\ DOMAIN With(row) = DOMAIN rows \cup {NextId}
      /\ With(row)[NextId] = row
      /\ \A i \in DOMAIN rows : i # NextId => With(row)[i] = rows[i]
  BY DEF With
<1>3. With(row) \in RowTables
  BY <1>1, <1>2, RowTable, IsRowTable DEF SourcesTypeOK
<1> QED BY <1>1, <1>2, <1>3

\* A request without a target and the absence of a recovery are of their types.
LEMMA Nothing == NoTarget \in Targets /\ NoRecovery \in Recoveries
  BY DEF NoTarget, Targets, NoRecovery, Recoveries

\* An empty table, no request and no recovery.
LEMMA InitSources == ASSUME SourcesInit PROVE SourcesIInv
<1>1. rows \in RowTables /\ DOMAIN rows = {}
  BY NoRows DEF SourcesInit
<1>2. SourcesTypeOK
  <2>1. rows \in RowTables /\ last \in Nat /\ inserted \in 0..MaxSources /\ listed \subseteq Uploads
    BY <1>1, SourcesAssumption DEF SourcesInit
  <2>2. /\ uploaded \in [Uploads -> {"none", "whole"}]
        /\ spool \in [Requests -> Spools]
        /\ spc \in [Requests -> Steps]
        /\ form \in [Requests -> Paths \cup Uploads \cup {NoPath}]
        /\ target \in [Requests -> Targets]
    BY Nothing DEF SourcesInit, Spools, Steps
  <2>3. job \in Recoveries /\ changed \subseteq Nat /\ cutShort \subseteq Uploads
    BY Nothing DEF SourcesInit
  <2> QED BY <2>1, <2>2, <2>3 DEF SourcesTypeOK
<1>3. BornInv /\ UploadInv /\ NoStrayFiles /\ LookedInv /\ RecoveredIsListed
  BY <1>1 DEF SourcesInit, BornInv, UploadInv, NoStrayFiles, LookedInv, RecoveredIsListed,
              NoTarget, NoRecovery
<1> QED BY <1>2, <1>3 DEF SourcesIInv

\* A step of a request that writes nothing: where it goes, with which path, shown
\* row and temporary file.
Own(r, step, path, shown, content) ==
  /\ UNCHANGED <<rows, last, inserted, uploaded, job, changed, listed, cutShort, mistaken>>
  /\ spc[r] # "storing" /\ step \in Steps \ {"storing"}
  /\ path \in Paths \cup {NoPath} \cup {form[r]} \cup {rows[i].path : i \in DOMAIN rows}
  /\ step = "loading" => path \in Paths \cup {rows[i].path : i \in DOMAIN rows}
  /\ shown \in Targets /\ shown.id = shown.born
  /\ content \in Spools
  /\ \/ content # "none" => step \in {"saving", "validating"}
     \/ content = spool[r] /\ spc[r] \notin {"saving", "validating"}
  /\ spc' = [spc EXCEPT ![r] = step] /\ form' = [form EXCEPT ![r] = path]
  /\ target' = [target EXCEPT ![r] = shown] /\ spool' = [spool EXCEPT ![r] = content]

\* Such a step keeps the invariant: the paths it may take are of files that stay.
LEMMA OwnStep ==
  ASSUME SourcesIInv, NEW r \in Requests, NEW step, NEW path, NEW shown, NEW content,
         Own(r, step, path, shown, content)
  PROVE  SourcesIInv'
<1> USE DEF Own
<1>1. SourcesTypeOK /\ rows \in RowTables
  BY DEF SourcesIInv, SourcesTypeOK
<1>2. path \in Paths \cup Uploads \cup {NoPath}
  BY <1>1, RowTable DEF SourcesTypeOK, Row
<1>3. SourcesTypeOK'
  BY <1>1, <1>2 DEF SourcesTypeOK
<1>4. BornInv' /\ LookedInv' /\ RecoveredIsListed'
  BY <1>1 DEF SourcesIInv, SourcesTypeOK, BornInv, LookedInv, RecoveredIsListed
<1>5. UploadInv'
  <2>1. /\ spc'[r] = step /\ form'[r] = path
        /\ \A q \in Requests \ {r} : spc'[q] = spc[q] /\ form'[q] = form[q]
    BY <1>1 DEF SourcesTypeOK
  <2>2. UploadInv
    BY DEF SourcesIInv
  <2>3. step = "loading" /\ path \in Uploads =>
          /\ uploaded[path] = "whole"
          /\ \A q \in Requests : spc[q] = "storing" => form[q] # path
    BY <2>2, SourcesAssumption DEF UploadInv
  <2> QED BY <2>1, <2>2, <2>3 DEF UploadInv
<1>6. NoStrayFiles'
  BY <1>1 DEF SourcesIInv, SourcesTypeOK, NoStrayFiles
<1> QED BY <1>3, <1>4, <1>5, <1>6 DEF SourcesIInv

\* The variables of a request that a step leaves alone, and the row it was shown.
LEMMA OwnKept ==
  ASSUME SourcesIInv, NEW r \in Requests
  PROVE  /\ spool = [spool EXCEPT ![r] = spool[r]] /\ spool[r] \in Spools
         /\ form = [form EXCEPT ![r] = form[r]]
         /\ target = [target EXCEPT ![r] = target[r]] /\ target[r] \in Targets
         /\ target[r].id = target[r].born
         /\ NoTarget \in Targets /\ NoTarget.id = NoTarget.born
  BY Nothing DEF SourcesIInv, SourcesTypeOK, BornInv, NoTarget

\* A row is found under an id only if it is the one that was shown.
LEMMA NoMistake == ASSUME SourcesIInv, NEW r \in Requests, Mistakes(r) PROVE mistaken' = mistaken
  BY DEF SourcesIInv, BornInv, Mistakes, Found

\* The temporary file is created: cut short so far.
LEMMA UploadBeginsStep ==
  ASSUME SourcesIInv, NEW r \in Requests, UploadBegins(r)
  PROVE  SourcesIInv'
<1>1. Own(r, "saving", form[r], target[r], "cut")
  BY OwnKept DEF UploadBegins, Proceeds, Own, Steps, Spools
<1> QED BY <1>1, OwnStep

\* It is filled, with a catalog or with something else.
LEMMA UploadIsSavedStep ==
  ASSUME SourcesIInv, NEW r \in Requests, UploadIsSaved(r)
  PROVE  SourcesIInv'
<1>1. \E content \in {"whole", "invalid"} : Own(r, "validating", form[r], target[r], content)
  BY OwnKept DEF UploadIsSaved, Proceeds, Own, Steps, Spools
<1> QED BY <1>1, OwnStep

\* Refused: the file is removed and the request is over.
LEMMA UploadIsRefusedStep ==
  ASSUME SourcesIInv, NEW r \in Requests, UploadIsRefused(r)
  PROVE  SourcesIInv'
<1>1. Own(r, "idle", NoPath, NoTarget, "none")
  BY OwnKept DEF UploadIsRefused, Proceeds, Answered, Own, Steps, Spools
<1> QED BY <1>1, OwnStep

\* The row shown has the number of its insertion for an id.
LEMMA PressesStep == ASSUME SourcesIInv, NEW r \in Requests, Presses(r) PROVE SourcesIInv'
<1>1. PICK i \in DOMAIN rows : target' = [target EXCEPT ![r] = [id |-> i, born |-> rows[i].born]]
  BY DEF Presses
<1> DEFINE shown == [id |-> i, born |-> rows[i].born]
<1>2. shown \in Targets /\ shown.id = shown.born
  BY RowTable DEF SourcesIInv, SourcesTypeOK, BornInv, Targets, Ids
<1> HIDE DEF shown
<1>3. target' = [target EXCEPT ![r] = shown]
  BY <1>1 DEF shown
<1>4. Own(r, "pressed", form[r], shown, spool[r])
  BY <1>2, <1>3, OwnKept DEF Presses, Proceeds, Own, Steps
<1> QED BY <1>4, OwnStep

\* The row is there or the request is answered; nothing is written yet.
LEMMA LooksToDeleteStep ==
  ASSUME SourcesIInv, NEW r \in Requests, LooksToDelete(r)
  PROVE  SourcesIInv'
<1>1. CASE Found(r)
  <2>1. Own(r, "deleting", form[r], target[r], spool[r])
    BY <1>1, OwnKept DEF LooksToDelete, Proceeds, Own, Steps
  <2> QED BY <2>1, OwnStep
<1>2. CASE ~Found(r)
  <2>1. Own(r, "idle", NoPath, NoTarget, spool[r])
    BY <1>2, OwnKept DEF LooksToDelete, Proceeds, Answered, Own, Steps
  <2> QED BY <2>1, OwnStep
<1> QED BY <1>1, <1>2

\* The path loaded is one a row has, so it names a whole file.
LEMMA LooksToLoadStep ==
  ASSUME SourcesIInv, NEW r \in Requests, LooksToLoad(r)
  PROVE  SourcesIInv'
<1>1. mistaken' = mistaken
  BY NoMistake DEF LooksToLoad
<1>2. CASE Found(r) /\ rows[target[r].id].path # NoPath
  <2>1. Own(r, "loading", rows[target[r].id].path, target[r], spool[r])
    BY <1>1, <1>2, OwnKept DEF LooksToLoad, Found, Proceeds, Own, Steps
  <2> QED BY <2>1, OwnStep
<1>3. CASE ~(Found(r) /\ rows[target[r].id].path # NoPath)
  <2>1. Own(r, "idle", NoPath, NoTarget, spool[r])
    BY <1>1, <1>3, OwnKept DEF LooksToLoad, Proceeds, Answered, Own, Steps
  <2> QED BY <2>1, OwnStep
<1> QED BY <1>2, <1>3

\* A typed path is not an upload.
LEMMA LoadsPathStep ==
  ASSUME SourcesIInv, NEW r \in Requests, LoadsPath(r)
  PROVE  SourcesIInv'
<1>1. \E path \in Paths : Own(r, "loading", path, target[r], spool[r])
  BY OwnKept DEF LoadsPath, Proceeds, Own, Steps
<1> QED BY <1>1, OwnStep

\* The load is over, and with it the request.
LEMMA LoadsStep == ASSUME SourcesIInv, NEW r \in Requests, Loads(r) PROVE SourcesIInv'
<1>1. Own(r, "idle", NoPath, NoTarget, spool[r])
  BY OwnKept DEF Loads, Proceeds, Answered, Own, Steps
<1> QED BY <1>1, OwnStep

-----------------------------------------------------------------------------
\* A row changed in its place.
LEMMA RowChanged ==
  ASSUME SourcesTypeOK, NEW k \in DOMAIN rows, NEW row \in Row, row.born = rows[k].born
  PROVE  LET new == [rows EXCEPT ![k] = row]
         IN  /\ new \in RowTables
             /\ DOMAIN new = DOMAIN rows
             /\ new[k] = row
             /\ \A i \in DOMAIN rows : i # k => new[i] = rows[i]
             /\ \A i \in DOMAIN rows : new[i].born = rows[i].born
<1> DEFINE new == [rows EXCEPT ![k] = row]
<1>1. /\ DOMAIN new = DOMAIN rows /\ new = [i \in DOMAIN new |-> new[i]]
      /\ new[k] = row
      /\ \A i \in DOMAIN rows : i # k => new[i] = rows[i]
  BY RowTable DEF SourcesTypeOK
<1> HIDE DEF new
<1>2. new \in RowTables
  BY <1>1, RowTable, IsRowTable DEF SourcesTypeOK
<1>3. \A i \in DOMAIN rows : new[i].born = rows[i].born
  BY <1>1
<1> QED BY <1>1, <1>2, <1>3 DEF new

\* Paths that rows and loads take from other rows or from outside leave an
\* upload that has yet to be recorded to its request.
LEMMA UploadsKept ==
  ASSUME UploadInv, uploaded' = uploaded,
         \A i \in DOMAIN rows' :
           rows'[i].path \in Paths \cup {NoPath} \cup {rows[j].path : j \in DOMAIN rows},
         \A q \in Requests :
           \/ spc'[q] = spc[q] /\ form'[q] = form[q]
           \/ spc'[q] \notin {"storing", "loading"}
           \/ /\ spc'[q] = "loading"
              /\ form'[q] \in Paths \cup {NoPath} \cup {rows[j].path : j \in DOMAIN rows}
  PROVE  UploadInv'
<1> DEFINE Known == Paths \cup {NoPath} \cup {rows[j].path : j \in DOMAIN rows}
<1>1. \A path \in Known :
        /\ path \in Uploads => uploaded[path] = "whole"
        /\ \A q \in Requests : spc[q] = "storing" => form[q] # path
  BY SourcesAssumption DEF UploadInv
<1>2. \A i \in DOMAIN rows' : rows'[i].path \in Known
  OBVIOUS
<1>3. \A q \in Requests :
        \/ spc'[q] = spc[q] /\ form'[q] = form[q]
        \/ spc'[q] \notin {"storing", "loading"}
        \/ spc'[q] = "loading" /\ form'[q] \in Known
  OBVIOUS
<1> HIDE DEF Known
<1> QED BY <1>1, <1>2, <1>3 DEF UploadInv

\* What a recovery has read or written stays, but for the rows that others write.
LEMMA WritesSome ==
  ASSUME SourcesTypeOK, LookedInv, RecoveredIsListed,
         NEW ids \in SUBSET Nat, WritesRows(ids), job' = job,
         \A i \in DOMAIN rows \ ids : i \in DOMAIN rows' /\ rows'[i] = rows[i],
         \A i \in DOMAIN rows' \ ids : i \in DOMAIN rows
  PROVE  LookedInv' /\ RecoveredIsListed' /\ changed' \subseteq Nat
<1>1. CASE job.at = "none"
  BY <1>1 DEF WritesRows, LookedInv, RecoveredIsListed
<1>2. CASE job.at # "none"
  <2>1. changed' = changed \cup ids
    BY <1>2 DEF WritesRows
  <2>2. changed' \subseteq Nat
    BY <2>1 DEF SourcesTypeOK
  <2>3. \A i : i \notin changed' => i \notin changed /\ i \notin ids
    BY <2>1
  <2> QED BY <2>2, <2>3 DEF LookedInv, RecoveredIsListed
<1> QED BY <1>1, <1>2

\* A request that changes rows or deletes them, and is over.
LEMMA RowsWritten ==
  ASSUME SourcesIInv, NEW r \in Requests, Answered(r), spc[r] \in {"pressed", "deleting"},
         UNCHANGED <<last, inserted, uploaded, spool, job, listed, cutShort, mistaken>>,
         WritesRows({target[r].id}), rows' \in RowTables, DOMAIN rows' \subseteq DOMAIN rows,
         \A i \in DOMAIN rows \ {target[r].id} : i \in DOMAIN rows' /\ rows'[i] = rows[i],
         \A i \in DOMAIN rows' :
           /\ rows'[i].born = rows[i].born
           /\ rows'[i].path \in Paths \cup {NoPath} \cup {rows[j].path : j \in DOMAIN rows}
  PROVE  SourcesIInv'
<1>1. SourcesTypeOK
  BY DEF SourcesIInv
<1>2. /\ spc' = [spc EXCEPT ![r] = "idle"] /\ form' = [form EXCEPT ![r] = NoPath]
      /\ target' = [target EXCEPT ![r] = NoTarget]
  BY DEF Answered, Proceeds
<1>3. LookedInv' /\ RecoveredIsListed' /\ changed' \subseteq Nat
  <2>1. {target[r].id} \in SUBSET Nat
    BY <1>1 DEF SourcesTypeOK, Targets
  <2> QED BY <1>1, <2>1, WritesSome DEF SourcesIInv
<1>4. SourcesTypeOK'
  BY <1>1, <1>2, <1>3, Nothing DEF SourcesTypeOK, Steps
<1>5. BornInv'
  BY <1>1, <1>2 DEF SourcesIInv, SourcesTypeOK, BornInv, NoTarget
<1>6. UploadInv'
  <2>1. \A q \in Requests : (spc'[q] = spc[q] /\ form'[q] = form[q]) \/ spc'[q] = "idle"
    BY <1>1, <1>2 DEF SourcesTypeOK
  <2> QED BY <2>1, UploadsKept DEF SourcesIInv
<1>7. NoStrayFiles'
  BY <1>1, <1>2 DEF SourcesIInv, SourcesTypeOK, NoStrayFiles
<1> QED BY <1>4, <1>5, <1>6, <1>7, <1>3 DEF SourcesIInv

\* An update changes magnet and path of the row that was shown, if it is there.
LEMMA UpdatesStep == ASSUME SourcesIInv, NEW r \in Requests, Updates(r) PROVE SourcesIInv'
<1>1. SourcesTypeOK /\ mistaken' = mistaken
  BY NoMistake DEF SourcesIInv, Updates
<1>2. PICK magnet \in Magnets \cup {NoMagnet}, path \in FormPaths :
        rows' = IF Found(r)
                THEN [rows EXCEPT ![target[r].id] =
                        [magnet |-> magnet, path |-> path, enabled |-> @.enabled, born |-> @.born]]
                ELSE rows
  BY DEF Updates
<1>3. /\ rows' \in RowTables /\ DOMAIN rows' = DOMAIN rows
      /\ \A i \in DOMAIN rows \ {target[r].id} : rows'[i] = rows[i]
      /\ \A i \in DOMAIN rows' :
           /\ rows'[i].born = rows[i].born
           /\ rows'[i].path \in Paths \cup {NoPath} \cup {rows[j].path : j \in DOMAIN rows}
  <2>1. CASE Found(r)
    <3> DEFINE k == target[r].id
               row == [magnet |-> magnet, path |-> path, enabled |-> rows[k].enabled,
                       born |-> rows[k].born]
    <3>1. k \in DOMAIN rows /\ rows[k] \in Row
      BY <1>1, <2>1, RowTable DEF Found, SourcesTypeOK
    <3>2. \A i \in DOMAIN rows : rows[i].path \in Paths \cup Uploads \cup {NoPath}
      BY <1>1, RowTable DEF SourcesTypeOK, Row
    <3>3. row \in Row /\ row.born = rows[k].born /\ row.path = path
      BY <3>1, <3>2 DEF Row, FormPaths
    <3>4. rows' = [rows EXCEPT ![k] = row]
      BY <1>2, <2>1
    <3> HIDE DEF row, k
    <3>5. /\ rows' \in RowTables /\ DOMAIN rows' = DOMAIN rows /\ rows'[k] = row
          /\ \A i \in DOMAIN rows : i # k => rows'[i] = rows[i]
          /\ \A i \in DOMAIN rows : rows'[i].born = rows[i].born
      BY <1>1, <3>1, <3>3, <3>4, RowChanged
    <3>6. k = target[r].id
      BY DEF k
    <3> QED BY <3>3, <3>5, <3>6 DEF FormPaths
  <2>2. CASE ~Found(r)
    BY <1>1, <1>2, <2>2 DEF SourcesTypeOK
  <2> QED BY <2>1, <2>2
<1> QED BY <1>1, <1>3, RowsWritten DEF Updates

\* Switching a source changes neither its path nor its number.
LEMMA TogglesStep == ASSUME SourcesIInv, NEW r \in Requests, Toggles(r) PROVE SourcesIInv'
<1>1. SourcesTypeOK /\ mistaken' = mistaken
  BY NoMistake DEF SourcesIInv, Toggles
<1>2. PICK enabled \in BOOLEAN :
        rows' = IF Found(r) THEN [rows EXCEPT ![target[r].id].enabled = enabled] ELSE rows
  BY DEF Toggles
<1>3. /\ rows' \in RowTables /\ DOMAIN rows' = DOMAIN rows
      /\ \A i \in DOMAIN rows \ {target[r].id} : rows'[i] = rows[i]
      /\ \A i \in DOMAIN rows' : rows'[i].born = rows[i].born /\ rows'[i].path = rows[i].path
  <2>1. CASE Found(r)
    <3> DEFINE k == target[r].id
               row == [rows[k] EXCEPT !.enabled = enabled]
    <3>1. k \in DOMAIN rows /\ rows[k] \in Row
      BY <1>1, <2>1, RowTable DEF Found, SourcesTypeOK
    <3>2. row \in Row /\ row.born = rows[k].born /\ row.path = rows[k].path
      BY <3>1 DEF Row
    <3>3. rows' = [rows EXCEPT ![k] = row]
      BY <1>2, <2>1
    <3> HIDE DEF row, k
    <3>4. /\ rows' \in RowTables /\ DOMAIN rows' = DOMAIN rows /\ rows'[k] = row
          /\ \A i \in DOMAIN rows : i # k => rows'[i] = rows[i]
          /\ \A i \in DOMAIN rows : rows'[i].born = rows[i].born
      BY <1>1, <3>1, <3>2, <3>3, RowChanged
    <3>5. k = target[r].id
      BY DEF k
    <3> QED BY <3>2, <3>4, <3>5
  <2>2. CASE ~Found(r)
    BY <1>1, <1>2, <2>2 DEF SourcesTypeOK
  <2> QED BY <2>1, <2>2
<1> QED BY <1>1, <1>3, RowsWritten DEF Toggles

\* A deletion leaves the other rows as they are.
LEMMA DeletesStep == ASSUME SourcesIInv, NEW r \in Requests, Deletes(r) PROVE SourcesIInv'
<1>1. SourcesTypeOK /\ mistaken' = mistaken
  BY NoMistake DEF SourcesIInv, Deletes
<1>2. /\ rows' = [i \in DOMAIN rows' |-> rows'[i]]
      /\ DOMAIN rows' \subseteq DOMAIN rows
      /\ \A i \in DOMAIN rows \ {target[r].id} : i \in DOMAIN rows'
      /\ \A i \in DOMAIN rows' : rows'[i] = rows[i]
  BY DEF Deletes, Restrict
<1>3. rows' \in RowTables
  BY <1>1, <1>2, RowTable, IsRowTable DEF SourcesTypeOK
<1> QED BY <1>1, <1>2, <1>3, RowsWritten DEF Deletes

-----------------------------------------------------------------------------
\* An insertion: its row is the only new one, and its id the newest.
LEMMA Inserted ==
  ASSUME SourcesIInv, NEW magnet \in Magnets \cup {NoMagnet},
         NEW path \in Paths \cup Uploads \cup {NoPath}, NEW enabled \in BOOLEAN,
         inserted < MaxSources, inserted' = inserted + 1, last' = NextId,
         rows' = With([magnet |-> magnet, path |-> path, enabled |-> enabled,
                       born |-> inserted + 1])
  PROVE  /\ rows' \in RowTables /\ inserted' \in 0..MaxSources /\ last' \in Nat
         /\ last' = inserted'
         /\ NextId \notin DOMAIN rows
         /\ DOMAIN rows' = DOMAIN rows \cup {NextId}
         /\ \A i \in DOMAIN rows : rows'[i] = rows[i] /\ i <= NextId
         /\ rows'[NextId].magnet = magnet /\ rows'[NextId].path = path
         /\ rows'[NextId].enabled = enabled
         /\ \A i \in DOMAIN rows' : i <= last' /\ rows'[i].born = i
<1> DEFINE row == [magnet |-> magnet, path |-> path, enabled |-> enabled, born |-> inserted + 1]
<1>1. SourcesTypeOK /\ BornInv
  BY DEF SourcesIInv
<1>2. row \in Row /\ row.born = inserted + 1
  BY <1>1, SourcesAssumption DEF Row, Ids, SourcesTypeOK
<1>3. row.magnet = magnet /\ row.path = path /\ row.enabled = enabled
  OBVIOUS
<1>4. rows' = With(row)
  OBVIOUS
<1> HIDE DEF row
<1>5. /\ rows' \in RowTables
      /\ NextId \notin DOMAIN rows
      /\ DOMAIN rows' = DOMAIN rows \cup {NextId}
      /\ rows'[NextId] = row
      /\ \A i \in DOMAIN rows : rows'[i] = rows[i]
  BY <1>1, <1>2, <1>4, RowAdded
<1>6. DOMAIN rows \subseteq Nat /\ inserted \in Nat /\ last = inserted
  BY <1>1, RowTable DEF SourcesTypeOK, BornInv, Ids
<1>7. inserted' \in 0..MaxSources /\ last' \in Nat /\ last' = inserted'
  BY <1>1, SourcesAssumption DEF SourcesTypeOK, BornInv, NextId
<1>8. \A i \in DOMAIN rows' : i <= last' /\ rows'[i].born = i
  BY <1>1, <1>2, <1>5, <1>6 DEF BornInv, NextId
<1>9. \A i \in DOMAIN rows : i <= NextId
  BY <1>1, <1>6 DEF BornInv, NextId
<1> QED BY <1>3, <1>5, <1>7, <1>8, <1>9

\* A created source names a path known before, so no upload that has yet to be recorded.
LEMMA CreatesStep == ASSUME SourcesIInv, NEW r \in Requests, Creates(r) PROVE SourcesIInv'
<1>1. SourcesTypeOK
  BY DEF SourcesIInv
<1>2. PICK magnet \in Magnets \cup {NoMagnet}, path \in FormPaths, enabled \in BOOLEAN,
           load \in BOOLEAN :
        /\ Inserts(magnet, path, enabled)
        /\ IF load /\ path # NoPath
           THEN /\ Proceeds(r, "loading")
                /\ form' = [form EXCEPT ![r] = path]
                /\ UNCHANGED target
           ELSE UNCHANGED <<spc, form, target>>
  BY DEF Creates
<1>3. path \in Paths \cup Uploads \cup {NoPath}
  BY <1>1, RowTable DEF FormPaths, SourcesTypeOK, Row
<1>4. /\ rows' \in RowTables /\ inserted' \in 0..MaxSources /\ last' \in Nat
      /\ last' = inserted'
      /\ DOMAIN rows' = DOMAIN rows \cup {NextId}
      /\ \A i \in DOMAIN rows : rows'[i] = rows[i]
      /\ rows'[NextId].path = path
      /\ \A i \in DOMAIN rows' : i <= last' /\ rows'[i].born = i
  BY <1>2, <1>3, Inserted DEF Inserts
<1>5. /\ listed' \subseteq Uploads /\ listed \subseteq listed'
      /\ UNCHANGED <<uploaded, spool, job, cutShort, mistaken, target>>
  BY <1>1, <1>2 DEF Creates, Inserts, SourcesTypeOK
<1>6. \/ UNCHANGED <<spc, form>>
      \/ spc' = [spc EXCEPT ![r] = "loading"] /\ form' = [form EXCEPT ![r] = path]
  BY <1>2 DEF Proceeds
<1>7. LookedInv' /\ RecoveredIsListed' /\ changed' \subseteq Nat
  <2>1. {NextId} \in SUBSET Nat
    BY <1>1 DEF SourcesTypeOK, NextId
  <2> QED BY <1>1, <1>2, <1>4, <1>5, <2>1, WritesSome DEF SourcesIInv, Inserts
<1>8. spc[r] = "idle"
  BY DEF Creates
<1>9. SourcesTypeOK'
  BY <1>1, <1>3, <1>4, <1>5, <1>6, <1>7 DEF SourcesTypeOK, Steps
<1>10. BornInv'
  BY <1>4, <1>5 DEF SourcesIInv, BornInv
<1>11. UploadInv'
  <2>1. path \in Paths \cup {NoPath} \cup {rows[j].path : j \in DOMAIN rows}
    BY DEF FormPaths
  <2>2. \A i \in DOMAIN rows' :
          rows'[i].path \in Paths \cup {NoPath} \cup {rows[j].path : j \in DOMAIN rows}
    BY <1>4, <2>1
  <2>3. \A q \in Requests :
          \/ spc'[q] = spc[q] /\ form'[q] = form[q]
          \/ /\ spc'[q] = "loading"
             /\ form'[q] \in Paths \cup {NoPath} \cup {rows[j].path : j \in DOMAIN rows}
    BY <1>1, <1>6, <2>1 DEF SourcesTypeOK
  <2> QED BY <1>5, <2>2, <2>3, UploadsKept DEF SourcesIInv
<1>12. NoStrayFiles'
  BY <1>1, <1>5, <1>6, <1>8 DEF SourcesIInv, SourcesTypeOK, NoStrayFiles
<1> QED BY <1>7, <1>9, <1>10, <1>11, <1>12 DEF SourcesIInv

\* The row of an upload, and the request that goes on to load it or is over.
LEMMA RecordsUploadStep ==
  ASSUME SourcesIInv, NEW r \in Requests, RecordsUpload(r)
  PROVE  SourcesIInv'
<1>1. SourcesTypeOK /\ UploadInv
  BY DEF SourcesIInv
<1>2. PICK magnet \in Magnets, enabled \in BOOLEAN : Inserts(magnet, form[r], enabled)
  BY DEF RecordsUpload
<1>3. spc[r] = "storing" /\ form[r] \in Uploads
  BY <1>1 DEF RecordsUpload, UploadInv
<1>4. /\ rows' \in RowTables /\ inserted' \in 0..MaxSources /\ last' \in Nat
      /\ last' = inserted'
      /\ DOMAIN rows' = DOMAIN rows \cup {NextId}
      /\ \A i \in DOMAIN rows : rows'[i] = rows[i]
      /\ rows'[NextId].path = form[r]
      /\ \A i \in DOMAIN rows' : i <= last' /\ rows'[i].born = i
  BY <1>2, <1>3, Inserted DEF Inserts
<1>5. /\ listed' \subseteq Uploads /\ listed \subseteq listed' /\ form[r] \in listed'
      /\ UNCHANGED <<uploaded, spool, job, cutShort, mistaken>>
  BY <1>1, <1>2, <1>3 DEF RecordsUpload, Inserts, SourcesTypeOK
<1>6. \/ spc' = [spc EXCEPT ![r] = "loading"] /\ UNCHANGED <<form, target>>
      \/ /\ spc' = [spc EXCEPT ![r] = "idle"] /\ form' = [form EXCEPT ![r] = NoPath]
         /\ target' = [target EXCEPT ![r] = NoTarget]
  BY DEF RecordsUpload, Answered, Proceeds
<1>7. LookedInv' /\ RecoveredIsListed' /\ changed' \subseteq Nat
  <2>1. {NextId} \in SUBSET Nat
    BY <1>1 DEF SourcesTypeOK, NextId
  <2> QED BY <1>1, <1>2, <1>4, <1>5, <2>1, WritesSome DEF SourcesIInv, Inserts
<1>8. SourcesTypeOK'
  BY <1>1, <1>4, <1>5, <1>6, <1>7, Nothing DEF SourcesTypeOK, Steps
<1>9. BornInv'
  BY <1>1, <1>4, <1>5, <1>6 DEF SourcesIInv, SourcesTypeOK, BornInv, NoTarget
<1>10. UploadInv'
  <2>1. /\ spc'[r] \in {"loading", "idle"} /\ (spc'[r] = "loading" => form'[r] = form[r])
        /\ \A q \in Requests \ {r} : spc'[q] = spc[q] /\ form'[q] = form[q]
    BY <1>1, <1>6 DEF SourcesTypeOK
  <2>2. \A q \in Requests \ {r} : spc[q] = "storing" => form[q] # form[r]
    BY <1>1, <1>3 DEF UploadInv
  <2>3. uploaded' = uploaded /\ uploaded[form[r]] = "whole"
    BY <1>1, <1>3, <1>5 DEF UploadInv
  <2> QED BY <1>1, <1>3, <1>4, <2>1, <2>2, <2>3 DEF UploadInv
<1>11. NoStrayFiles'
  BY <1>1, <1>3, <1>5, <1>6 DEF SourcesIInv, SourcesTypeOK, NoStrayFiles
<1> QED BY <1>7, <1>8, <1>9, <1>10, <1>11 DEF SourcesIInv

\* A path that no row and no request names: every path named is of a file that is there.
LEMMA InstallsUploadStep ==
  ASSUME SourcesIInv, NEW r \in Requests, InstallsUpload(r)
  PROVE  SourcesIInv'
<1>1. SourcesTypeOK /\ UploadInv
  BY DEF SourcesIInv
<1>2. PICK u \in Uploads :
        /\ \A v \in Uploads : uploaded[v] # "none" => v < u
        /\ uploaded' = [uploaded EXCEPT ![u] = "whole"]
        /\ form' = [form EXCEPT ![r] = u]
  BY DEF InstallsUpload
<1>3. /\ spc[r] = "validating" /\ spc' = [spc EXCEPT ![r] = "storing"]
      /\ spool' = [spool EXCEPT ![r] = "none"]
      /\ UNCHANGED <<rows, last, inserted, target, job, changed, listed, cutShort, mistaken>>
  BY DEF InstallsUpload, Proceeds
<1>4. uploaded[u] = "none"
  BY <1>1, <1>2, SourcesAssumption DEF SourcesTypeOK, Uploads
<1>5. SourcesTypeOK'
  BY <1>1, <1>2, <1>3 DEF SourcesTypeOK, Steps, Spools
<1>6. BornInv' /\ LookedInv' /\ RecoveredIsListed'
  BY <1>3 DEF SourcesIInv, BornInv, LookedInv, RecoveredIsListed
<1>7. UploadInv'
  <2>1. /\ spc'[r] = "storing" /\ form'[r] = u
        /\ \A q \in Requests \ {r} : spc'[q] = spc[q] /\ form'[q] = form[q]
    BY <1>1, <1>2, <1>3 DEF SourcesTypeOK
  <2>2. /\ uploaded'[u] = "whole"
        /\ \A v \in Uploads : uploaded[v] = "whole" => uploaded'[v] = "whole"
    BY <1>1, <1>2 DEF SourcesTypeOK
  <2>3. /\ \A i \in DOMAIN rows : rows[i].path # u
        /\ \A q \in Requests : spc[q] \in {"storing", "loading"} => form[q] # u
    BY <1>1, <1>2, <1>4 DEF UploadInv
  <2> QED BY <1>1, <1>3, <2>1, <2>2, <2>3 DEF UploadInv
<1>8. NoStrayFiles'
  BY <1>1, <1>2, <1>3 DEF SourcesIInv, SourcesTypeOK, NoStrayFiles
<1> QED BY <1>5, <1>6, <1>7, <1>8 DEF SourcesIInv

\* The file removed is named by no row and by no other request.
LEMMA DropsUploadStep ==
  ASSUME SourcesIInv, NEW r \in Requests, DropsUpload(r)
  PROVE  SourcesIInv'
<1>1. SourcesTypeOK /\ UploadInv
  BY DEF SourcesIInv
<1>2. /\ spc[r] = "storing" /\ uploaded' = [uploaded EXCEPT ![form[r]] = "none"]
      /\ spc' = [spc EXCEPT ![r] = "idle"] /\ form' = [form EXCEPT ![r] = NoPath]
      /\ target' = [target EXCEPT ![r] = NoTarget]
      /\ UNCHANGED <<rows, last, inserted, spool, job, changed, listed, cutShort, mistaken>>
  BY DEF DropsUpload, Answered, Proceeds
<1>3. SourcesTypeOK'
  BY <1>1, <1>2, Nothing DEF SourcesTypeOK, Steps
<1>4. BornInv' /\ LookedInv' /\ RecoveredIsListed'
  BY <1>1, <1>2 DEF SourcesIInv, SourcesTypeOK, BornInv, LookedInv, RecoveredIsListed, NoTarget
<1>5. UploadInv'
  <2>1. /\ spc'[r] = "idle"
        /\ \A q \in Requests \ {r} : spc'[q] = spc[q] /\ form'[q] = form[q]
        /\ \A u \in Uploads : u # form[r] => uploaded'[u] = uploaded[u]
    BY <1>1, <1>2 DEF SourcesTypeOK
  <2>2. /\ \A i \in DOMAIN rows : rows[i].path # form[r]
        /\ \A q \in Requests \ {r} : spc[q] \in {"storing", "loading"} => form[q] # form[r]
    BY <1>1, <1>2 DEF UploadInv
  <2> QED BY <1>1, <1>2, <2>1, <2>2 DEF UploadInv
<1>6. NoStrayFiles'
  <2>1. form[r] \in Uploads
    BY <1>1, <1>2 DEF UploadInv
  <2> QED BY <1>1, <1>2, <2>1 DEF SourcesIInv, SourcesTypeOK, NoStrayFiles
<1> QED BY <1>3, <1>4, <1>5, <1>6 DEF SourcesIInv

-----------------------------------------------------------------------------
\* The steps of a recovery touch no request.
LEMMA RecoveryLooksStep == ASSUME SourcesIInv, RecoveryLooks PROVE SourcesIInv'
<1>1. SourcesTypeOK /\ DOMAIN rows \subseteq Nat
  BY RowTable DEF SourcesIInv, SourcesTypeOK, Ids
<1>2. PICK magnet \in Magnets \cup {NoMagnet}, path \in Paths :
        LET same == {i \in DOMAIN rows : rows[i].magnet = magnet /\ magnet # NoMagnet}
        IN \E id \in IF same = {} THEN {0} ELSE {i \in same : \A j \in same : j <= i} :
             job' = [at |-> "registering", magnet |-> magnet, path |-> path, id |-> id]
  BY DEF RecoveryLooks
<1> DEFINE same == {i \in DOMAIN rows : rows[i].magnet = magnet /\ magnet # NoMagnet}
<1>3. PICK id \in IF same = {} THEN {0} ELSE {i \in same : \A j \in same : j <= i} :
        job' = [at |-> "registering", magnet |-> magnet, path |-> path, id |-> id]
  BY <1>2
<1>4. /\ id \in Nat
      /\ \/ id = 0
         \/ /\ id \in DOMAIN rows /\ rows[id].magnet = magnet
            /\ \A j \in DOMAIN rows : rows[j].magnet = magnet => j <= id
  BY <1>1, <1>3
<1>5. /\ changed' = {}
      /\ UNCHANGED <<rows, last, inserted, uploaded, spool, spc, form, target, listed,
                     cutShort, mistaken>>
  BY DEF RecoveryLooks
<1> HIDE DEF same
<1>6. job' \in Recoveries
  BY <1>3, <1>4 DEF Recoveries
<1>7. SourcesTypeOK' /\ BornInv' /\ UploadInv' /\ NoStrayFiles'
  BY <1>1, <1>5, <1>6 DEF SourcesIInv, SourcesTypeOK, BornInv, UploadInv, NoStrayFiles
<1>8. job'.at = "registering" /\ job'.magnet = magnet /\ job'.id = id
  BY <1>3
<1>9. LookedInv' /\ RecoveredIsListed'
  BY <1>4, <1>5, <1>8 DEF LookedInv, RecoveredIsListed
<1> QED BY <1>7, <1>9 DEF SourcesIInv

\* A registration goes on to load its catalog.
LEMMA GoesOn ==
  ASSUME SourcesTypeOK, job' = [job EXCEPT !.at = "loading"]
  PROVE  /\ job' \in Recoveries /\ job'.at = "loading"
         /\ job'.magnet = job.magnet /\ job'.path = job.path /\ job'.id = job.id
  BY DEF SourcesTypeOK, Recoveries

\* The newest row of the magnet gets the path and is enabled; nobody wrote since.
LEMMA RecoveryUpdatesStep == ASSUME SourcesIInv, RecoveryUpdates PROVE SourcesIInv'
<1>1. SourcesTypeOK /\ LookedInv
  BY DEF SourcesIInv
<1>2. /\ job.at = "registering" /\ job.id # 0 /\ job' = [job EXCEPT !.at = "loading"]
      /\ UNCHANGED <<last, inserted, uploaded, spool, spc, form, target, changed, listed,
                     cutShort, mistaken>>
  BY DEF RecoveryUpdates
<1>3. job.magnet \in Magnets \cup {NoMagnet} /\ job.path \in Paths \cup {NoPath}
  BY <1>1 DEF SourcesTypeOK, Recoveries
<1>4. /\ rows' \in RowTables /\ DOMAIN rows' = DOMAIN rows
      /\ \A i \in DOMAIN rows : rows'[i].born = rows[i].born /\ rows'[i].magnet = rows[i].magnet
      /\ \A i \in DOMAIN rows : i # job.id => rows'[i] = rows[i]
      /\ job.id \in DOMAIN rows => rows'[job.id].path = job.path /\ rows'[job.id].enabled
  <2>1. CASE job.id \in DOMAIN rows
    <3> DEFINE k == job.id
               row == [magnet |-> rows[k].magnet, path |-> job.path, enabled |-> TRUE,
                       born |-> rows[k].born]
    <3>1. k \in DOMAIN rows /\ rows[k] \in Row
      BY <1>1, <2>1, RowTable DEF SourcesTypeOK
    <3>2. row \in Row /\ row.born = rows[k].born /\ row.magnet = rows[k].magnet
      BY <1>3, <3>1 DEF Row
    <3>3. row.path = job.path /\ row.enabled
      OBVIOUS
    <3>4. rows' = [rows EXCEPT ![k] = row]
      BY <2>1 DEF RecoveryUpdates
    <3> HIDE DEF row, k
    <3>5. /\ rows' \in RowTables /\ DOMAIN rows' = DOMAIN rows /\ rows'[k] = row
          /\ \A i \in DOMAIN rows : i # k => rows'[i] = rows[i]
          /\ \A i \in DOMAIN rows : rows'[i].born = rows[i].born
      BY <1>1, <3>1, <3>2, <3>4, RowChanged
    <3>6. \A i \in DOMAIN rows : rows'[i].magnet = rows[i].magnet
      BY <3>2, <3>5
    <3> QED BY <3>3, <3>5, <3>6 DEF k
  <2>2. CASE job.id \notin DOMAIN rows
    BY <1>1, <2>2 DEF SourcesTypeOK, RecoveryUpdates
  <2> QED BY <2>1, <2>2
<1>5. job' \in Recoveries /\ job'.at = "loading" /\ job'.magnet = job.magnet /\ job'.path = job.path
  BY <1>1, <1>2, GoesOn
<1>6. SourcesTypeOK'
  BY <1>1, <1>2, <1>4, <1>5 DEF SourcesTypeOK
<1>7. BornInv' /\ NoStrayFiles'
  BY <1>2, <1>4 DEF SourcesIInv, BornInv, NoStrayFiles
<1>8. UploadInv'
  <2>1. \A i \in DOMAIN rows' :
          rows'[i].path \in Paths \cup {NoPath} \cup {rows[j].path : j \in DOMAIN rows}
    BY <1>3, <1>4
  <2> QED BY <1>2, <2>1, UploadsKept DEF SourcesIInv
<1>9. LookedInv'
  BY <1>5 DEF LookedInv
<1>10. RecoveredIsListed'
  <2>1. /\ job.id \notin changed => job.id \in DOMAIN rows /\ rows[job.id].magnet = job.magnet
        /\ \A j \in DOMAIN rows \ changed : rows[j].magnet = job.magnet => j <= job.id
    BY <1>1, <1>2 DEF LookedInv
  <2>2. job'.id = job.id /\ changed' = changed
    BY <1>1, <1>2, GoesOn
  <2> QED BY <1>4, <1>5, <2>1, <2>2 DEF RecoveredIsListed
<1> QED BY <1>6, <1>7, <1>8, <1>9, <1>10 DEF SourcesIInv

\* The new row has the greatest id, so it is the newest of its magnet.
LEMMA RecoveryInsertsStep == ASSUME SourcesIInv, RecoveryInserts PROVE SourcesIInv'
<1>1. SourcesTypeOK /\ LookedInv
  BY DEF SourcesIInv
<1>2. /\ job.at = "registering" /\ job.id = 0
      /\ job' = [at |-> "loading", magnet |-> job.magnet, path |-> job.path, id |-> NextId]
      /\ UNCHANGED <<uploaded, spool, spc, form, target, changed, listed, cutShort, mistaken>>
  BY DEF RecoveryInserts
<1>3. job.magnet \in Magnets \cup {NoMagnet} /\ job.path \in Paths \cup {NoPath}
  BY <1>1 DEF SourcesTypeOK, Recoveries
<1>4. /\ rows' \in RowTables /\ inserted' \in 0..MaxSources /\ last' \in Nat
      /\ last' = inserted'
      /\ NextId \notin DOMAIN rows /\ DOMAIN rows' = DOMAIN rows \cup {NextId}
      /\ \A i \in DOMAIN rows : rows'[i] = rows[i] /\ i <= NextId
      /\ rows'[NextId].magnet = job.magnet /\ rows'[NextId].path = job.path
      /\ rows'[NextId].enabled = TRUE
      /\ \A i \in DOMAIN rows' : i <= last' /\ rows'[i].born = i
  BY <1>3, Inserted DEF RecoveryInserts
<1>5. /\ job' \in Recoveries /\ job'.at = "loading" /\ job'.id = NextId
      /\ job'.magnet = job.magnet /\ job'.path = job.path
  <2>1. NextId \in Nat
    BY <1>1 DEF SourcesTypeOK, NextId
  <2> QED BY <1>2, <1>3, <2>1 DEF Recoveries
<1>6. SourcesTypeOK'
  BY <1>1, <1>2, <1>4, <1>5 DEF SourcesTypeOK
<1>7. BornInv' /\ NoStrayFiles'
  BY <1>2, <1>4 DEF SourcesIInv, BornInv, NoStrayFiles
<1>8. UploadInv'
  <2>1. \A i \in DOMAIN rows' :
          rows'[i].path \in Paths \cup {NoPath} \cup {rows[j].path : j \in DOMAIN rows}
    BY <1>3, <1>4
  <2> QED BY <1>2, <2>1, UploadsKept DEF SourcesIInv
<1>9. LookedInv'
  BY <1>5 DEF LookedInv
<1>10. RecoveredIsListed'
  <2>1. NextId \in Nat
    BY <1>1 DEF SourcesTypeOK, NextId
  <2>2. \A j \in DOMAIN rows' : j <= NextId
    BY <1>4, <2>1
  <2> QED BY <1>4, <1>5, <2>2 DEF RecoveredIsListed
<1> QED BY <1>6, <1>7, <1>8, <1>9, <1>10 DEF SourcesIInv

\* Without a recovery nothing is claimed of it.
LEMMA RecoveryEndsStep == ASSUME SourcesIInv, RecoveryEnds PROVE SourcesIInv'
<1>1. /\ job' = NoRecovery /\ changed' = {}
      /\ UNCHANGED <<rows, last, inserted, uploaded, spool, spc, form, target, listed,
                     cutShort, mistaken>>
  BY DEF RecoveryEnds
<1>2. SourcesTypeOK' /\ BornInv' /\ UploadInv' /\ NoStrayFiles'
  BY <1>1, Nothing DEF SourcesIInv, SourcesTypeOK, BornInv, UploadInv, NoStrayFiles
<1>3. LookedInv' /\ RecoveredIsListed'
  BY <1>1 DEF LookedInv, RecoveredIsListed, NoRecovery
<1> QED BY <1>2, <1>3 DEF SourcesIInv

\* No rows: nothing named; the ids given before stay given.
LEMMA EmptiesTableStep == ASSUME SourcesIInv, EmptiesTable PROVE SourcesIInv'
<1>1. /\ rows' \in RowTables /\ DOMAIN rows' = {} /\ WritesRows(DOMAIN rows)
      /\ UNCHANGED <<last, inserted, uploaded, spool, spc, form, target, job, listed,
                     cutShort, mistaken>>
  BY NoRows DEF EmptiesTable
<1>2. LookedInv' /\ RecoveredIsListed' /\ changed' \subseteq Nat
  <2>1. SourcesTypeOK /\ DOMAIN rows \in SUBSET Nat
    BY RowTable DEF SourcesIInv, SourcesTypeOK, Ids
  <2> QED BY <1>1, <2>1, WritesSome DEF SourcesIInv
<1>3. SourcesTypeOK'
  BY <1>1, <1>2 DEF SourcesIInv, SourcesTypeOK
<1>4. BornInv' /\ NoStrayFiles'
  BY <1>1 DEF SourcesIInv, BornInv, NoStrayFiles
<1>5. UploadInv'
  BY <1>1 DEF SourcesIInv, UploadInv
<1> QED BY <1>2, <1>3, <1>4, <1>5 DEF SourcesIInv

\* Killed: nothing is under way; an upload that was leaves what it had stored.
LEMMA KilledStep == ASSUME SourcesIInv, Killed PROVE SourcesIInv'
<1>1. SourcesTypeOK
  BY DEF SourcesIInv
<1>2. /\ spc' = [r \in Requests |-> "idle"] /\ form' = [r \in Requests |-> NoPath]
      /\ target' = [r \in Requests |-> NoTarget] /\ spool' = [r \in Requests |-> "none"]
      /\ job' = NoRecovery /\ changed' = {}
      /\ UNCHANGED <<rows, last, inserted, uploaded, listed, mistaken>>
  BY DEF Killed
<1>3. cutShort' = cutShort \cup {form[r] : r \in {q \in Requests : spc[q] = "storing"}}
  BY DEF Killed
<1>4. cutShort' \subseteq Uploads
  BY <1>1, <1>3 DEF SourcesIInv, SourcesTypeOK, UploadInv
<1>5. SourcesTypeOK'
  BY <1>1, <1>2, <1>4, Nothing DEF SourcesTypeOK, Steps, Spools
<1>6. BornInv' /\ UploadInv'
  BY <1>2 DEF SourcesIInv, BornInv, UploadInv, NoTarget
<1>7. NoStrayFiles'
  <2>1. \A r \in Requests : spc[r] = "storing" => form[r] \in cutShort'
    BY <1>3
  <2>2. cutShort \subseteq cutShort'
    BY <1>3
  <2> QED BY <1>2, <2>1, <2>2 DEF SourcesIInv, NoStrayFiles
<1>8. LookedInv' /\ RecoveredIsListed'
  BY <1>2 DEF LookedInv, RecoveredIsListed, NoRecovery
<1> QED BY <1>5, <1>6, <1>7, <1>8 DEF SourcesIInv

\* Every step keeps the invariant.
LEMMA NextSources == ASSUME SourcesIInv, [SourcesNext]_sourcesVars PROVE SourcesIInv'
<1>1. CASE UNCHANGED sourcesVars
  BY <1>1 DEF sourcesVars, SourcesIInv, SourcesTypeOK, BornInv, UploadInv, NoStrayFiles,
              LookedInv, RecoveredIsListed
<1>2. CASE SourcesNext
  <2>1. ASSUME NEW r \in Requests,
               \/ Creates(r) \/ UploadBegins(r) \/ UploadIsSaved(r) \/ UploadIsRefused(r)
               \/ InstallsUpload(r) \/ RecordsUpload(r) \/ DropsUpload(r) \/ Presses(r)
        PROVE  SourcesIInv'
    BY <2>1, CreatesStep, UploadBeginsStep, UploadIsSavedStep, UploadIsRefusedStep,
       InstallsUploadStep, RecordsUploadStep, DropsUploadStep, PressesStep
  <2>2. ASSUME NEW r \in Requests,
               \/ Updates(r) \/ Toggles(r) \/ LooksToDelete(r) \/ Deletes(r)
               \/ LooksToLoad(r) \/ LoadsPath(r) \/ Loads(r)
        PROVE  SourcesIInv'
    BY <2>2, UpdatesStep, TogglesStep, LooksToDeleteStep, DeletesStep, LooksToLoadStep,
       LoadsPathStep, LoadsStep
  <2> QED BY <1>2, <2>1, <2>2, RecoveryLooksStep, RecoveryUpdatesStep, RecoveryInsertsStep,
             RecoveryEndsStep, EmptiesTableStep, KilledStep DEF SourcesNext
<1> QED BY <1>1, <1>2

(* The inductive invariant of the sources: every reachable state has it.  *)
THEOREM SourcesInvariant == SourcesSpec => []SourcesIInv
<1>1. SourcesInit => SourcesIInv
  BY InitSources
<1>2. SourcesIInv /\ [SourcesNext]_sourcesVars => SourcesIInv'
  BY NextSources
<1> QED BY <1>1, <1>2, PTL DEF SourcesSpec

(* Every row and every load that names an uploaded catalog names a file    *)
(* that is there, whole and validated.                                     *)
THEOREM UploadsCorrect == SourcesSpec => []UploadsAreWhole
<1>1. SourcesIInv => UploadsAreWhole
  BY DEF SourcesIInv, UploadInv, UploadsAreWhole
<1> QED BY <1>1, SourcesInvariant, PTL

(* An uploaded file belongs to a request, was recorded in a row, or was    *)
(* about to be when the process was killed.                                *)
THEOREM NothingIsLeftBehind == SourcesSpec => []NoStrayFiles
<1>1. SourcesIInv => NoStrayFiles
  BY DEF SourcesIInv
<1> QED BY <1>1, SourcesInvariant, PTL

(* A request acts on the source whose button was pressed, or on none: ids  *)
(* are the numbers of the insertions, and none is given twice.             *)
THEOREM ActsRight == SourcesSpec => []ActsOnWhatWasShown
<1>1. SourcesIInv => ActsOnWhatWasShown
  BY DEF SourcesIInv, BornInv, ActsOnWhatWasShown
<1> QED BY <1>1, SourcesInvariant, PTL

(* A recovery that loads its catalog has registered it, if nobody else     *)
(* wrote the row it found or inserted since it read the table.             *)
THEOREM RecoveredRegistered == SourcesSpec => []RecoveredIsListed
<1>1. SourcesIInv => RecoveredIsListed
  BY DEF SourcesIInv
<1> QED BY <1>1, SourcesInvariant, PTL
=============================================================================
