---------------------------- MODULE ImportProofs ----------------------------
(***************************************************************************)
(* Proofs about ImportRecords, for any admins, connections and records,    *)
(* and about ManifestCheck, for any names, files and limits.               *)
(***************************************************************************)
EXTENDS ImportRecords, ManifestCheck, TLAPS

\* A table of runs has some ids, never all of them: a function on a set of ids.
Run == [source : RecordIds, recorded : BOOLEAN]
Runs == UNION {[S -> Run] : S \in SUBSET Nat}
Tables == [sources : SUBSET Nat, runs : Runs, manifests : SUBSET Nat]

Stages == {"idle", "deleting", "recording", "recorded", "resetting"}

\* The type invariant.
RecordsTypeOK ==
  /\ tables \in Tables
  /\ work \in Tables
  /\ lastId \in [sources : Nat, runs : Nat]
  /\ writer \in Admins \cup {Nobody}
  /\ stage \in [Admins -> Stages]
  /\ emptied \in 0..3
  /\ doomed \in [Admins -> [kind : Kinds, id : Nat]]

\* Every run of the tables is of a source of theirs.
Whole(t) == \A x \in DOMAIN t.runs : t.runs[x].source \in t.sources

\* The empty tuple is the table without runs.
LEMMA EmptyTuple == DOMAIN <<>> = {} /\ <<>> \in Runs
<1>1. DOMAIN <<>> = {}
  OBVIOUS
<1>2. <<>> \in [{} -> Run]
  OBVIOUS
<1> QED BY <1>1, <1>2 DEF Runs

\* What a table of runs is, in the two directions the lemmas below need.
LEMMA RunsTyped ==
  ASSUME NEW f, f = [x \in DOMAIN f |-> f[x]], DOMAIN f \subseteq Nat,
         \A x \in DOMAIN f : f[x] \in Run
  PROVE  f \in Runs
<1>1. f \in [DOMAIN f -> Run]
  OBVIOUS
<1> QED BY <1>1 DEF Runs

LEMMA RunsAre ==
  \A f \in Runs : /\ DOMAIN f \subseteq Nat
                  /\ f = [x \in DOMAIN f |-> f[x]]
                  /\ \A x \in DOMAIN f : f[x] \in Run
  BY DEF Runs

\* An inserted run has the id after the last, and what it was given.
LEMMA AddRunTyped ==
  ASSUME NEW t \in Tables, NEW source \in RecordIds, NEW recorded \in BOOLEAN, lastId.runs \in Nat
  PROVE  /\ AddRun(t, source, recorded) \in Tables
         /\ AddRun(t, source, recorded).sources = t.sources
         /\ AddRun(t, source, recorded).manifests = t.manifests
         /\ DOMAIN AddRun(t, source, recorded).runs = DOMAIN t.runs \cup {lastId.runs + 1}
         /\ AddRun(t, source, recorded).runs[lastId.runs + 1].recorded = recorded
         /\ \A x \in DOMAIN t.runs :
              x # lastId.runs + 1 => AddRun(t, source, recorded).runs[x] = t.runs[x]
<1> DEFINE new == [x \in DOMAIN t.runs \cup {lastId.runs + 1} |->
                     IF x = lastId.runs + 1 THEN [source |-> source, recorded |-> recorded]
                     ELSE t.runs[x]]
<1>1. AddRun(t, source, recorded) = [sources |-> t.sources, runs |-> new, manifests |-> t.manifests]
  BY DEF AddRun, Tables
<1>2. /\ DOMAIN new = DOMAIN t.runs \cup {lastId.runs + 1}
      /\ new = [x \in DOMAIN new |-> new[x]]
      /\ new[lastId.runs + 1] = [source |-> source, recorded |-> recorded]
      /\ \A x \in DOMAIN t.runs : x # lastId.runs + 1 => new[x] = t.runs[x]
  OBVIOUS
<1> HIDE DEF new
<1>3. t.runs \in Runs
  BY DEF Tables
<1>4. new \in Runs
  BY <1>2, <1>3, RunsAre, RunsTyped DEF Run
<1> QED BY <1>1, <1>2, <1>4 DEF Tables

\* A deletion only takes away.
LEMMA DeletedTyped ==
  ASSUME NEW t \in Tables, NEW kind \in Kinds, NEW id
  PROVE  /\ Deleted(t, kind, id) \in Tables
         /\ Deleted(t, kind, id).manifests \subseteq t.manifests
         /\ DOMAIN Deleted(t, kind, id).runs \subseteq DOMAIN t.runs
<1> DEFINE left == Restrict(t.runs, DOMAIN t.runs \ {id})
<1>1. t.runs \in Runs
  BY DEF Tables
<1>2. left \in Runs /\ DOMAIN left \subseteq DOMAIN t.runs
  <2>1. /\ left = [x \in DOMAIN left |-> left[x]]
        /\ DOMAIN left = DOMAIN t.runs \ {id}
        /\ \A x \in DOMAIN left : left[x] = t.runs[x]
    BY DEF Restrict
  <2> HIDE DEF left
  <2> QED BY <1>1, <2>1, RunsAre, RunsTyped
<1> HIDE DEF left
<1>3. CASE kind = "runs"
  <2>1. Deleted(t, kind, id) = [sources |-> t.sources, runs |-> left, manifests |-> t.manifests]
    BY <1>3 DEF Deleted, Tables, left
  <2> QED BY <2>1, <1>2 DEF Tables
<1>4. CASE kind = "sources"
  <2>1. Deleted(t, kind, id) = [sources |-> t.sources \ {id}, runs |-> t.runs,
                                manifests |-> t.manifests]
    BY <1>4 DEF Deleted, Tables
  <2> QED BY <2>1, <1>1 DEF Tables
<1>5. CASE kind = "manifests"
  <2>1. Deleted(t, kind, id) = [sources |-> t.sources, runs |-> t.runs,
                                manifests |-> t.manifests \ {id}]
    BY <1>5 DEF Deleted, Tables
  <2> QED BY <2>1, <1>1 DEF Tables
<1> QED BY <1>3, <1>4, <1>5 DEF Kinds

\* Emptying one table leaves the others.
LEMMA EmptiedTyped ==
  ASSUME NEW t \in Tables
  PROVE  /\ Emptied(t, "manifests") = [sources |-> t.sources, runs |-> t.runs, manifests |-> {}]
         /\ Emptied(t, "runs") = [sources |-> t.sources, runs |-> <<>>, manifests |-> t.manifests]
         /\ Emptied(t, "sources") = [sources |-> {}, runs |-> t.runs, manifests |-> t.manifests]
         /\ Emptied(t, "manifests") \in Tables
         /\ Emptied(t, "runs") \in Tables
         /\ Emptied(t, "sources") \in Tables
<1>0. "manifests" # "runs" /\ "sources" # "runs"
  OBVIOUS
<1>1. Emptied(t, "manifests") = [sources |-> t.sources, runs |-> t.runs, manifests |-> {}]
  <2>1. Emptied(t, "manifests") = [t EXCEPT !["manifests"] = {}]
    BY <1>0, Zenon DEF Emptied
  <2> QED BY <2>1 DEF Tables
<1>2. Emptied(t, "runs") = [sources |-> t.sources, runs |-> <<>>, manifests |-> t.manifests]
  <2>1. Emptied(t, "runs") = [t EXCEPT !["runs"] = <<>>]
    BY <1>0, Zenon DEF Emptied
  <2> QED BY <2>1 DEF Tables
<1>3. Emptied(t, "sources") = [sources |-> {}, runs |-> t.runs, manifests |-> t.manifests]
  <2>1. Emptied(t, "sources") = [t EXCEPT !["sources"] = {}]
    BY <1>0, Zenon DEF Emptied
  <2> QED BY <2>1 DEF Tables
<1> QED BY <1>1, <1>2, <1>3, EmptyTuple DEF Tables

-----------------------------------------------------------------------------
\* One request at a time is in a transaction (SQLite's write lock).
WriterInv ==
  \A r \in Admins : stage[r] \in {"recording", "recorded", "resetting"} => writer = r

\* The ids that were ever given are below the counters (AUTOINCREMENT).
IdsInv == DOMAIN tables.runs \cup tables.manifests \subseteq 1..lastId.runs

\* What RecordValidatedManifest has inserted so far (state.go:490): one run more
\* than is committed, and then one manifest more.
RecordingInv ==
  \A r \in Admins :
    stage[r] \in {"recording", "recorded"} =>
      /\ DOMAIN work.runs = DOMAIN tables.runs \cup {lastId.runs + 1}
      /\ work.runs[lastId.runs + 1].recorded
      /\ work.manifests = IF stage[r] = "recorded" THEN tables.manifests \cup {lastId.runs + 1}
                                                   ELSE tables.manifests

\* What ResetOperationalRecords has emptied so far (state.go:122), and that it
\* adds nothing.
ResetInv ==
  /\ (\A r \in Admins : stage[r] # "resetting") => emptied = 0
  /\ \A r \in Admins :
       stage[r] = "resetting" =>
         /\ DOMAIN work.runs \subseteq DOMAIN tables.runs
         /\ work.manifests \subseteq tables.manifests
         /\ emptied >= 2 => DOMAIN work.runs = {}

RecordsIInv ==
  RecordsTypeOK /\ Whole(tables) /\ Whole(work) /\ WriterInv /\ IdsInv /\ RecordingInv /\ ResetInv

\* What a permitted statement leaves is whole.
LEMMA PermittedIsWhole == ASSUME NEW k \in Pool, NEW t, Permits(k, t) PROVE Whole(t)
  BY DEF Permits, ForeignKeys, Whole

\* A new store has no records.
LEMMA InitRecords == ASSUME RecordsInit PROVE RecordsIInv
<1>1. /\ NoRecords \in Tables /\ Whole(NoRecords)
      /\ DOMAIN NoRecords.runs = {} /\ NoRecords.manifests = {}
  BY EmptyTuple DEF NoRecords, Tables, Whole
<1>2. RecordsTypeOK
  BY <1>1 DEF RecordsInit, RecordsTypeOK, Stages, NoRecord, Kinds
<1> QED BY <1>1, <1>2 DEF RecordsInit, RecordsIInv, WriterInv, IdsInv, RecordingInv, ResetInv

\* Nobody else is in a transaction when somebody is in none.
LEMMA NobodyWrites ==
  ASSUME RecordsIInv, writer = Nobody, NEW r \in Admins
  PROVE  stage[r] \in {"idle", "deleting"}
  BY RecordsAssumption DEF RecordsIInv, WriterInv, RecordsTypeOK, Stages

\* A source more leaves every run its source.
LEMMA CreatesSourceStep ==
  ASSUME RecordsIInv, NEW r \in Admins, CreatesSource(r)
  PROVE  RecordsIInv'
<1>1. tables' = [sources |-> tables.sources \cup {lastId.sources + 1}, runs |-> tables.runs,
                 manifests |-> tables.manifests]
  BY DEF CreatesSource, RecordsIInv, RecordsTypeOK, Tables
<1>2. lastId' = [sources |-> lastId.sources + 1, runs |-> lastId.runs]
  BY DEF CreatesSource, RecordsIInv, RecordsTypeOK
<1>3. writer = Nobody /\ UNCHANGED <<writer, work, stage, doomed, emptied>>
  BY DEF CreatesSource
<1>4. RecordsTypeOK'
  BY <1>1, <1>2, <1>3 DEF RecordsIInv, RecordsTypeOK, Tables
<1>5. Whole(tables)' /\ IdsInv'
  BY <1>1, <1>2 DEF RecordsIInv, Whole, IdsInv
<1> QED BY <1>3, <1>4, <1>5, NobodyWrites
        DEF RecordsIInv, Whole, WriterInv, RecordingInv, ResetInv

\* The foreign key lets a run in only with its source.
LEMMA CreatesRunStep ==
  ASSUME RecordsIInv, NEW r \in Admins, CreatesRun(r)
  PROVE  RecordsIInv'
<1>1. PICK k \in Pool, source \in RecordIds :
        /\ Permits(k, AddRun(tables, source, FALSE))
        /\ tables' = AddRun(tables, source, FALSE)
  BY DEF CreatesRun
<1>2. lastId' = [sources |-> lastId.sources, runs |-> lastId.runs + 1]
  BY DEF CreatesRun, RecordsIInv, RecordsTypeOK
<1>3. writer = Nobody /\ UNCHANGED <<writer, work, stage, doomed, emptied>>
  BY DEF CreatesRun
<1>4. tables \in Tables /\ lastId.runs \in Nat
  BY DEF RecordsIInv, RecordsTypeOK
<1>5. /\ tables' \in Tables
      /\ DOMAIN tables'.runs = DOMAIN tables.runs \cup {lastId.runs + 1}
      /\ tables'.manifests = tables.manifests
  BY <1>1, <1>4, AddRunTyped
<1>6. RecordsTypeOK'
  BY <1>2, <1>3, <1>5 DEF RecordsIInv, RecordsTypeOK
<1>7. Whole(tables)'
  BY <1>1, PermittedIsWhole DEF Whole
<1>8. IdsInv'
  BY <1>2, <1>4, <1>5 DEF RecordsIInv, IdsInv
<1> QED BY <1>3, <1>6, <1>7, <1>8, NobodyWrites
        DEF RecordsIInv, Whole, WriterInv, RecordingInv, ResetInv

\* The foreign key keeps a source that a run names.
LEMMA DeletionStep ==
  ASSUME RecordsIInv, NEW r \in Admins, LooksForRecord(r) \/ DeletesRecord(r)
  PROVE  RecordsIInv'
<1>1. /\ UNCHANGED <<lastId, writer, work, emptied>>
      /\ \E place \in {"idle", "deleting"} : stage' = [stage EXCEPT ![r] = place]
      /\ stage[r] \in {"idle", "deleting"}
  BY DEF LooksForRecord, DeletesRecord, Moves
<1>2. doomed' \in [Admins -> [kind : Kinds, id : Nat]]
  <2>1. \A kind \in Kinds : \A id \in IdsOf(tables, kind) : id \in Nat
    BY RunsAre DEF RecordsIInv, RecordsTypeOK, Tables, IdsOf, Kinds
  <2>2. \E kind \in Kinds, id \in Nat : doomed' = [doomed EXCEPT ![r] = [kind |-> kind, id |-> id]]
    BY <2>1 DEF LooksForRecord, DeletesRecord, NoRecord, Kinds
  <2> QED BY <2>2 DEF RecordsIInv, RecordsTypeOK
<1>3. \A q \in Admins : stage'[q] \notin {"idle", "deleting"} => stage'[q] = stage[q]
  BY <1>1 DEF RecordsIInv, RecordsTypeOK
<1>4. /\ tables' \in Tables
      /\ Whole(tables')
      /\ DOMAIN tables'.runs \subseteq DOMAIN tables.runs
      /\ tables'.manifests \subseteq tables.manifests
      /\ tables' = tables \/ writer = Nobody
  <2>1. CASE tables' = tables
    BY <2>1 DEF RecordsIInv, RecordsTypeOK
  <2>2. CASE tables' # tables
    <3>1. /\ writer = Nobody
          /\ tables' = Deleted(tables, doomed[r].kind, doomed[r].id)
          /\ \E k \in Pool : Permits(k, Deleted(tables, doomed[r].kind, doomed[r].id))
      BY <2>2 DEF LooksForRecord, DeletesRecord
    <3>2. tables \in Tables /\ doomed[r].kind \in Kinds
      BY DEF RecordsIInv, RecordsTypeOK
    <3> QED BY <3>1, <3>2, DeletedTyped, PermittedIsWhole
  <2> QED BY <2>1, <2>2
<1>5. RecordsTypeOK'
  BY <1>1, <1>2, <1>4 DEF RecordsIInv, RecordsTypeOK, Stages
<1>6. Whole(tables)' /\ Whole(work)'
  BY <1>1, <1>4 DEF RecordsIInv, Whole
<1>7. IdsInv' /\ WriterInv'
  BY <1>1, <1>3, <1>4 DEF RecordsIInv, IdsInv, WriterInv
<1>8. CASE tables' = tables
  BY <1>1, <1>3, <1>5, <1>6, <1>7, <1>8 DEF RecordsIInv, RecordingInv, ResetInv
<1>9. CASE writer = Nobody
  BY <1>1, <1>3, <1>5, <1>6, <1>7, <1>9, NobodyWrites DEF RecordsIInv, RecordingInv, ResetInv
<1> QED BY <1>4, <1>8, <1>9

\* The transaction begins: nobody else is in one.
LEMMA InsertsRunStep ==
  ASSUME RecordsIInv, NEW r \in Admins, InsertsRun(r)
  PROVE  RecordsIInv'
<1>1. PICK k \in Pool, source \in RecordIds :
        /\ Permits(k, AddRun(tables, source, TRUE))
        /\ work' = AddRun(tables, source, TRUE)
  BY DEF InsertsRun
<1>2. /\ writer = Nobody /\ writer' = r /\ stage' = [stage EXCEPT ![r] = "recording"]
      /\ UNCHANGED <<tables, lastId, doomed, emptied>>
  BY DEF InsertsRun, Moves
<1>3. tables \in Tables /\ lastId.runs \in Nat /\ stage \in [Admins -> Stages]
  BY DEF RecordsIInv, RecordsTypeOK
<1>4. /\ work' \in Tables
      /\ DOMAIN work'.runs = DOMAIN tables.runs \cup {lastId.runs + 1}
      /\ work'.runs[lastId.runs + 1].recorded
      /\ work'.manifests = tables.manifests
  BY <1>1, <1>3, AddRunTyped
<1>5. \A q \in Admins : q # r => stage'[q] \in {"idle", "deleting"}
  BY <1>2, <1>3, NobodyWrites
<1>6. stage'[r] = "recording"
  BY <1>2, <1>3
<1>7. RecordsTypeOK'
  BY <1>2, <1>4 DEF RecordsIInv, RecordsTypeOK, Stages
<1>8. Whole(tables)' /\ Whole(work)'
  BY <1>1, <1>2, PermittedIsWhole DEF RecordsIInv, Whole
<1>9. emptied' = 0
  BY <1>2, NobodyWrites DEF RecordsIInv, ResetInv
<1>10. IdsInv' /\ WriterInv' /\ RecordingInv' /\ ResetInv'
  BY <1>2, <1>4, <1>5, <1>6, <1>9 DEF RecordsIInv, IdsInv, WriterInv, RecordingInv, ResetInv
<1> QED BY <1>7, <1>8, <1>10 DEF RecordsIInv

\* The manifest takes the id of the run of the same transaction.
LEMMA InsertsManifestStep ==
  ASSUME RecordsIInv, NEW r \in Admins, InsertsManifest(r)
  PROVE  RecordsIInv'
<1>1. work' = [sources |-> work.sources, runs |-> work.runs,
               manifests |-> work.manifests \cup {lastId.runs + 1}]
  BY DEF InsertsManifest, RecordsIInv, RecordsTypeOK, Tables
<1>2. /\ stage[r] = "recording" /\ stage' = [stage EXCEPT ![r] = "recorded"]
      /\ UNCHANGED <<tables, lastId, writer, doomed, emptied>>
  BY DEF InsertsManifest, Moves
<1>3. stage \in [Admins -> Stages] /\ work \in Tables /\ lastId.runs \in Nat
  BY DEF RecordsIInv, RecordsTypeOK
<1>4. \A q \in Admins : q # r => stage'[q] \in {"idle", "deleting"}
  BY <1>2, <1>3 DEF RecordsIInv, WriterInv, Stages
<1>5. stage'[r] = "recorded"
  BY <1>2, <1>3
<1>6. RecordsTypeOK'
  BY <1>1, <1>2, <1>3 DEF RecordsIInv, RecordsTypeOK, Stages, Tables
<1>7. Whole(tables)' /\ Whole(work)' /\ IdsInv' /\ WriterInv'
  BY <1>1, <1>2, <1>4 DEF RecordsIInv, Whole, IdsInv, WriterInv
<1>8. RecordingInv' /\ ResetInv'
  BY <1>1, <1>2, <1>4, <1>5 DEF RecordsIInv, RecordingInv, ResetInv
<1> QED BY <1>6, <1>7, <1>8 DEF RecordsIInv

\* A transaction that ends, whatever it leaves, leaves nobody in one.
LEMMA EndsStep ==
  ASSUME RecordsIInv, NEW r \in Admins, Ends(r), writer = r,
         tables' \in Tables, Whole(tables'),
         lastId' \in [sources : Nat, runs : Nat], IdsInv'
  PROVE  RecordsIInv'
<1>1. NoRecords \in Tables /\ Whole(NoRecords)
  BY EmptyTuple DEF NoRecords, Tables, Whole
<1>2. /\ writer' = Nobody /\ work' = NoRecords /\ emptied' = 0
      /\ stage' = [stage EXCEPT ![r] = "idle"] /\ doomed' = doomed
  BY DEF Ends, Moves
<1>3. stage \in [Admins -> Stages]
  BY DEF RecordsIInv, RecordsTypeOK
<1>4. \A q \in Admins : stage'[q] \in {"idle", "deleting"}
  BY <1>2, <1>3 DEF RecordsIInv, WriterInv, Stages
<1>5. RecordsTypeOK'
  BY <1>1, <1>2 DEF RecordsIInv, RecordsTypeOK, Stages
<1>6. Whole(tables)' /\ Whole(work)'
  BY <1>1, <1>2 DEF Whole
<1>7. WriterInv' /\ RecordingInv' /\ ResetInv'
  BY <1>2, <1>4 DEF WriterInv, RecordingInv, ResetInv
<1> QED BY <1>5, <1>6, <1>7 DEF RecordsIInv

\* The commit gives the id away.
LEMMA CommitsRecordingStep ==
  ASSUME RecordsIInv, NEW r \in Admins, CommitsRecording(r)
  PROVE  RecordsIInv'
<1>1. tables' = work /\ Ends(r) /\ stage[r] = "recorded" /\ writer = r
  BY DEF CommitsRecording, RecordsIInv, WriterInv
<1>2. lastId' = [sources |-> lastId.sources, runs |-> lastId.runs + 1] /\ lastId.runs \in Nat
      /\ lastId' \in [sources : Nat, runs : Nat]
  BY DEF CommitsRecording, RecordsIInv, RecordsTypeOK
<1>3. IdsInv'
  BY <1>1, <1>2 DEF RecordsIInv, IdsInv, RecordingInv
<1>4. tables' \in Tables /\ Whole(tables')
  BY <1>1 DEF RecordsIInv, RecordsTypeOK
<1> QED BY <1>1, <1>2, <1>3, <1>4, EndsStep

\* A reset starts from what is committed.
LEMMA BeginsResetStep ==
  ASSUME RecordsIInv, NEW r \in Admins, BeginsReset(r)
  PROVE  RecordsIInv'
<1>1. /\ writer = Nobody /\ writer' = r /\ work' = tables
      /\ stage' = [stage EXCEPT ![r] = "resetting"]
      /\ UNCHANGED <<tables, lastId, doomed, emptied>>
  BY DEF BeginsReset, Moves
<1>2. stage \in [Admins -> Stages]
  BY DEF RecordsIInv, RecordsTypeOK
<1>3. \A q \in Admins : q # r => stage'[q] \in {"idle", "deleting"}
  BY <1>1, <1>2, NobodyWrites
<1>4. stage'[r] = "resetting"
  BY <1>1, <1>2
<1>5. emptied = 0
  BY <1>1, NobodyWrites DEF RecordsIInv, ResetInv
<1>6. RecordsTypeOK'
  BY <1>1 DEF RecordsIInv, RecordsTypeOK, Stages
<1>7. Whole(tables)' /\ Whole(work)'
  BY <1>1 DEF RecordsIInv, Whole
<1>8. IdsInv' /\ WriterInv' /\ RecordingInv' /\ ResetInv'
  BY <1>1, <1>3, <1>4, <1>5 DEF RecordsIInv, IdsInv, WriterInv, RecordingInv, ResetInv
<1> QED BY <1>6, <1>7, <1>8 DEF RecordsIInv

\* What a statement of the reset leaves, in the order of resetOrder.
LEMMA Emptying ==
  ASSUME RecordsIInv, emptied < 3
  PROVE  \/ /\ emptied = 0 /\ ResetOrder[emptied + 1] = "manifests"
            /\ Emptied(work, "manifests") =
                 [sources |-> work.sources, runs |-> work.runs, manifests |-> {}]
         \/ /\ emptied = 1 /\ ResetOrder[emptied + 1] = "runs"
            /\ Emptied(work, "runs") =
                 [sources |-> work.sources, runs |-> <<>>, manifests |-> work.manifests]
         \/ /\ emptied = 2 /\ ResetOrder[emptied + 1] = "sources"
            /\ Emptied(work, "sources") =
                 [sources |-> {}, runs |-> work.runs, manifests |-> work.manifests]
<1>1. work \in Tables /\ emptied \in 0..3
  BY DEF RecordsIInv, RecordsTypeOK
<1>2. ResetOrder[1] = "manifests" /\ ResetOrder[2] = "runs" /\ ResetOrder[3] = "sources"
  BY DEF ResetOrder
<1>3. CASE emptied = 0
  BY <1>1, <1>2, <1>3, EmptiedTyped
<1>4. CASE emptied = 1
  BY <1>1, <1>2, <1>4, EmptiedTyped
<1>5. CASE emptied = 2
  BY <1>1, <1>2, <1>5, EmptiedTyped
<1> QED BY <1>1, <1>3, <1>4, <1>5

\* One table less.
LEMMA EmptiesRecordsStep ==
  ASSUME RecordsIInv, NEW r \in Admins, EmptiesRecords(r)
  PROVE  RecordsIInv'
<1>1. /\ stage[r] = "resetting" /\ emptied < 3 /\ emptied' = emptied + 1
      /\ work' = Emptied(work, ResetOrder[emptied + 1])
      /\ UNCHANGED <<tables, lastId, writer, stage, doomed>>
  BY DEF EmptiesRecords
<1>2. Whole(work')
  BY PermittedIsWhole DEF EmptiesRecords
<1>3. work \in Tables /\ emptied \in 0..3 /\ stage \in [Admins -> Stages]
  BY DEF RecordsIInv, RecordsTypeOK
<1>4. \A q \in Admins : q # r => stage[q] \in {"idle", "deleting"}
  BY <1>1, <1>3 DEF RecordsIInv, WriterInv, Stages
<1>5. work' \in Tables
  BY <1>1, <1>3, Emptying, EmptiedTyped
<1>6. /\ DOMAIN work'.runs \subseteq DOMAIN tables.runs
      /\ work'.manifests \subseteq tables.manifests
      /\ emptied' >= 2 => DOMAIN work'.runs = {}
  <2>1. CASE emptied = 0
    BY <1>1, <2>1, Emptying DEF RecordsIInv, ResetInv
  <2>2. CASE emptied = 1
    BY <1>1, <2>2, Emptying, EmptyTuple DEF RecordsIInv, ResetInv
  <2>3. CASE emptied = 2
    BY <1>1, <2>3, Emptying DEF RecordsIInv, ResetInv
  <2> QED BY <1>1, <1>3, <2>1, <2>2, <2>3
<1>7. RecordsTypeOK'
  BY <1>1, <1>3, <1>5 DEF RecordsIInv, RecordsTypeOK
<1>8. Whole(tables)' /\ Whole(work)' /\ IdsInv' /\ WriterInv'
  BY <1>1, <1>2 DEF RecordsIInv, Whole, IdsInv, WriterInv
<1>9. RecordingInv' /\ ResetInv'
  BY <1>1, <1>4, <1>6 DEF RecordingInv, ResetInv
<1> QED BY <1>7, <1>8, <1>9 DEF RecordsIInv

\* A reset commits what it has emptied.
LEMMA CommitsResetStep ==
  ASSUME RecordsIInv, NEW r \in Admins, CommitsReset(r)
  PROVE  RecordsIInv'
<1>1. tables' = work /\ lastId' = lastId /\ Ends(r) /\ stage[r] = "resetting" /\ writer = r
  BY DEF CommitsReset, RecordsIInv, WriterInv
<1>2. tables' \in Tables /\ Whole(tables') /\ lastId' \in [sources : Nat, runs : Nat]
  BY <1>1 DEF RecordsIInv, RecordsTypeOK
<1>3. IdsInv'
  BY <1>1 DEF RecordsIInv, IdsInv, ResetInv
<1> QED BY <1>1, <1>2, <1>3, EndsStep

\* A rollback leaves what was committed.
LEMMA RollsBackStep ==
  ASSUME RecordsIInv, NEW r \in Admins, RollsBack(r)
  PROVE  RecordsIInv'
<1>1. UNCHANGED <<tables, lastId>> /\ Ends(r) /\ writer = r
  BY DEF RollsBack
<1>2. tables' \in Tables /\ Whole(tables') /\ lastId' \in [sources : Nat, runs : Nat] /\ IdsInv'
  BY <1>1 DEF RecordsIInv, RecordsTypeOK, IdsInv
<1> QED BY <1>1, <1>2, EndsStep

\* So does a kill.
LEMMA KilledStep == ASSUME RecordsIInv, ProcessKilled PROVE RecordsIInv'
<1>1. NoRecords \in Tables /\ Whole(NoRecords)
  BY EmptyTuple DEF NoRecords, Tables, Whole
<1>2. /\ writer' = Nobody /\ work' = NoRecords /\ emptied' = 0
      /\ stage' = [q \in Admins |-> "idle"] /\ doomed' = [q \in Admins |-> NoRecord]
      /\ UNCHANGED <<tables, lastId>>
  BY DEF ProcessKilled
<1>3. NoRecord \in [kind : Kinds, id : Nat]
  BY DEF NoRecord, Kinds
<1>4. RecordsTypeOK'
  BY <1>1, <1>2, <1>3 DEF RecordsIInv, RecordsTypeOK, Stages
<1>5. Whole(tables)' /\ Whole(work)'
  BY <1>1, <1>2 DEF RecordsIInv, Whole
<1> QED BY <1>2, <1>4, <1>5 DEF RecordsIInv, IdsInv, WriterInv, RecordingInv, ResetInv

\* Every step preserves the invariant.
LEMMA RecordsStep == ASSUME RecordsIInv, [RecordsNext]_recordsVars PROVE RecordsIInv'
<1>1. CASE RecordsNext
  BY <1>1, CreatesSourceStep, CreatesRunStep, DeletionStep, InsertsRunStep, InsertsManifestStep,
     CommitsRecordingStep, BeginsResetStep, EmptiesRecordsStep, CommitsResetStep, RollsBackStep,
     KilledStep
     DEF RecordsNext
<1>2. CASE UNCHANGED recordsVars
  <2>1. /\ tables' = tables /\ lastId' = lastId /\ writer' = writer /\ work' = work
        /\ stage' = stage /\ doomed' = doomed /\ emptied' = emptied
    BY <1>2 DEF recordsVars
  <2> QED BY <2>1 DEF RecordsIInv, RecordsTypeOK, Whole, IdsInv, WriterInv, RecordingInv,
                   ResetInv
<1> QED BY <1>1, <1>2

-----------------------------------------------------------------------------
\* The store's tables, ids and requests keep their types (state.go:172).
THEOREM RecordsTypeCorrect == RecordsSpec => []RecordsTypeOK
<1>1. RecordsIInv => RecordsTypeOK
  BY DEF RecordsIInv
<1> QED BY <1>1, InitRecords, RecordsStep, PTL DEF RecordsSpec

\* Every run has its source, whichever connections of the pool the statements
\* ran on (state.go:172).
THEOREM SourcesStay == RecordsSpec => []RunsHaveSources
<1>1. RecordsIInv => RunsHaveSources
  BY DEF RecordsIInv, Whole, RunsHaveSources
<1> QED BY <1>1, InitRecords, RecordsStep, PTL DEF RecordsSpec

\* What the next statement of a reset leaves is whole: the manifests nobody
\* names, the runs go first, and no runs are left when the sources go.
LEMMA EmptyingIsWhole ==
  ASSUME RecordsIInv, NEW r \in Admins, stage[r] = "resetting", emptied < 3
  PROVE  Whole(Emptied(work, ResetOrder[emptied + 1]))
<1>1. Whole(work) /\ emptied \in 0..3 /\ (emptied >= 2 => DOMAIN work.runs = {})
  BY DEF RecordsIInv, RecordsTypeOK, ResetInv
<1>2. CASE emptied = 0
  BY <1>1, <1>2, Emptying DEF Whole
<1>3. CASE emptied = 1
  BY <1>1, <1>3, Emptying, EmptyTuple DEF Whole
<1>4. CASE emptied = 2
  BY <1>1, <1>4, Emptying DEF Whole
<1> QED BY <1>1, <1>2, <1>3, <1>4

\* The foreign key never stops a reset (state.go:122).
THEOREM ResetSucceeds == RecordsSpec => []ResetGoesThrough
<1>1. RecordsIInv => ResetGoesThrough
  BY EmptyingIsWhole DEF ResetGoesThrough, Whole
<1> QED BY <1>1, InitRecords, RecordsStep, PTL DEF RecordsSpec

-----------------------------------------------------------------------------
\* The action of SeenTogether.
Together ==
  \A x \in RecordIds :
    x \in tables'.manifests \ tables.manifests <=>
      /\ x \in DOMAIN tables'.runs \ DOMAIN tables.runs
      /\ tables'.runs[x].recorded

\* A step that adds neither runs nor manifests shows none alone.
LEMMA Shrinking ==
  ASSUME tables'.manifests \subseteq tables.manifests,
         DOMAIN tables'.runs \subseteq DOMAIN tables.runs
  PROVE  Together
  BY DEF Together

\* A run created by itself is not a recorded one.
LEMMA CreatedTogether == ASSUME RecordsIInv, NEW r \in Admins, CreatesRun(r) PROVE Together
<1>1. PICK source \in RecordIds : tables' = AddRun(tables, source, FALSE)
  BY DEF CreatesRun
<1>2. tables \in Tables /\ lastId.runs \in Nat
  BY DEF RecordsIInv, RecordsTypeOK
<1>3. /\ tables'.manifests = tables.manifests
      /\ DOMAIN tables'.runs = DOMAIN tables.runs \cup {lastId.runs + 1}
      /\ tables'.runs[lastId.runs + 1].recorded = FALSE
  BY <1>1, <1>2, AddRunTyped
<1> QED BY <1>3 DEF Together

\* The recording that commits adds one run and its manifest, with a new id.
LEMMA CommittedTogether == ASSUME RecordsIInv, NEW r \in Admins, CommitsRecording(r) PROVE Together
<1>1. tables' = work /\ stage[r] = "recorded"
  BY DEF CommitsRecording
<1>2. /\ DOMAIN work.runs = DOMAIN tables.runs \cup {lastId.runs + 1}
      /\ work.runs[lastId.runs + 1].recorded
      /\ work.manifests = tables.manifests \cup {lastId.runs + 1}
  BY <1>1 DEF RecordsIInv, RecordingInv
<1>3. lastId.runs + 1 \notin DOMAIN tables.runs \cup tables.manifests
  BY DEF RecordsIInv, RecordsTypeOK, IdsInv
<1> QED BY <1>1, <1>2, <1>3 DEF Together

\* Every other step adds neither.
LEMMA StepTogether == ASSUME RecordsIInv, [RecordsNext]_recordsVars PROVE Together
<1>1. ASSUME tables' = tables PROVE Together
  BY <1>1, Shrinking
<1>2. ASSUME NEW r \in Admins, CreatesSource(r) PROVE Together
  <2>1. tables'.manifests = tables.manifests /\ tables'.runs = tables.runs
    BY <1>2 DEF CreatesSource, RecordsIInv, RecordsTypeOK, Tables
  <2> QED BY <2>1, Shrinking
<1>3. ASSUME NEW r \in Admins, DeletesRecord(r) PROVE Together
  <2>1. tables \in Tables /\ doomed[r].kind \in Kinds
    BY DEF RecordsIInv, RecordsTypeOK
  <2>2. tables' = tables \/ tables' = Deleted(tables, doomed[r].kind, doomed[r].id)
    BY <1>3 DEF DeletesRecord
  <2> QED BY <2>1, <2>2, DeletedTyped, Shrinking
<1>4. ASSUME NEW r \in Admins, CommitsReset(r) PROVE Together
  <2>1. tables' = work /\ stage[r] = "resetting"
    BY <1>4 DEF CommitsReset
  <2> QED BY <2>1, Shrinking DEF RecordsIInv, ResetInv
<1>5. ASSUME NEW r \in Admins,
             \/ LooksForRecord(r) \/ InsertsRun(r) \/ InsertsManifest(r)
             \/ BeginsReset(r) \/ EmptiesRecords(r) \/ RollsBack(r)
      PROVE  tables' = tables
  BY <1>5 DEF LooksForRecord, InsertsRun, InsertsManifest, BeginsReset, EmptiesRecords, RollsBack
<1>6. ASSUME ProcessKilled \/ UNCHANGED recordsVars PROVE tables' = tables
  BY <1>6 DEF ProcessKilled, recordsVars
<1> QED BY <1>1, <1>2, <1>3, <1>4, <1>5, <1>6, CreatedTogether, CommittedTogether DEF RecordsNext

\* A manifest appears with its run and a recorded run with its manifest
\* (state.go:490).
THEOREM RecordedTogether == RecordsSpec => SeenTogether
<1>1. RecordsIInv /\ [RecordsNext]_recordsVars => [Together]_recordsVars
  BY StepTogether
<1>2. RecordsSpec => [][Together]_recordsVars
  BY <1>1, InitRecords, RecordsStep, PTL DEF RecordsSpec
<1> QED BY <1>2 DEF SeenTogether, Together

-----------------------------------------------------------------------------
(* ManifestCheck. *)

\* The type invariant, but for the two lists.
BytesTypeOK ==
  /\ size \in [Files -> 0..MaxLength]
  /\ totalBytes \in 0..ManifestBytes /\ copied \in 0..(ManifestBytes + 1)
  /\ verdict \in {"idle", "checking", "accepted", "refused", "oversize"}

\* The files read are different, and every name listed is read or still to be examined.
ListsInv ==
  /\ names \in Seq(Names) /\ files \in Seq(Files) /\ IsInjective(files)
  /\ verdict \in {"checking", "accepted"} => Len(files) + Len(names) \in 1..MaxFiles
  /\ verdict = "accepted" => names = <<>>

\* What is reported was read.
BytesInv ==
  /\ verdict \in {"checking", "accepted"} => totalBytes = copied
  /\ verdict = "oversize" => copied > ManifestBytes \/ (copied = ManifestBytes /\ names # <<>>)

ManifestIInv == BytesTypeOK /\ ListsInv /\ BytesInv

\* The limits are numbers.
LEMMA Limits == MaxFiles \in Nat /\ ManifestBytes \in Nat /\ MaxLength \in Nat
  BY ManifestAssumption

\* A list of names is a sequence of them.
LEMMA ListsAre == \A list \in Lists : list \in Seq(Names)
  BY ManifestAssumption DEF Lists

\* Another file at the end of a sequence of different ones.
LEMMA OneFileMore ==
  ASSUME NEW s \in Seq(Files), IsInjective(s), NEW f \in Files, f \notin Range(s)
  PROVE  Append(s, f) \in Seq(Files) /\ IsInjective(Append(s, f)) /\ Len(Append(s, f)) = Len(s) + 1
<1>1. /\ Append(s, f) \in Seq(Files) /\ Len(Append(s, f)) = Len(s) + 1
      /\ DOMAIN Append(s, f) = 1..(Len(s) + 1)
      /\ Append(s, f)[Len(s) + 1] = f /\ \A i \in 1..Len(s) : Append(s, f)[i] = s[i]
  OBVIOUS
<1>2. \A i \in 1..Len(s) : s[i] # f
  BY DEF Range
<1>3. \A i, j \in 1..Len(s) : s[i] = s[j] => i = j
  BY DEF IsInjective
<1>4. Len(s) \in Nat
  OBVIOUS
<1> QED BY <1>1, <1>2, <1>3, <1>4 DEF IsInjective

\* What is read of a file is at most one byte more than may remain.
LEMMA AtMostOneMore ==
  ASSUME ManifestIInv, NEW f \in Files
  PROVE  Remaining \in 0..ManifestBytes /\ BytesOf(f) \in 0..(Remaining + 1)
<1>1. Remaining \in 0..ManifestBytes
  BY Limits DEF ManifestIInv, BytesTypeOK, Remaining
<1>2. size[f] \in Nat
  BY Limits DEF ManifestIInv, BytesTypeOK
<1> QED BY <1>1, <1>2 DEF BytesOf

\* A name that resolves does so to one of the files.
LEMMA FileIsOne ==
  ASSUME ManifestIInv, names # <<>>, File # NoFile
  PROVE  File \in Files /\ Tail(names) \in Seq(Names) /\ Len(Tail(names)) = Len(names) - 1
<1>1. Head(names) \in Names /\ Tail(names) \in Seq(Names) /\ Len(Tail(names)) = Len(names) - 1
  BY DEF ManifestIInv, ListsInv
<1> QED BY <1>1, ManifestAssumption DEF File

\* Nothing has been read before the first manifest.
LEMMA InitManifest == ASSUME ManifestInit PROVE ManifestIInv
<1>1. IsInjective(<<>>) /\ <<>> \in Seq(Names) /\ <<>> \in Seq(Files)
  BY DEF IsInjective
<1>2. ListsInv
  BY <1>1 DEF ManifestInit, ListsInv
<1>3. BytesTypeOK /\ BytesInv
  BY Limits DEF ManifestInit, BytesTypeOK, BytesInv
<1> QED BY <1>2, <1>3 DEF ManifestIInv

\* A manifest that is submitted, whatever was before.
LEMMA SubmitsStep == ASSUME ManifestIInv, NEW list \in Lists, Submits(list) PROVE ManifestIInv'
<1>1. IsInjective(<<>>) /\ <<>> \in Seq(Files) /\ Len(<<>>) = 0
  BY DEF IsInjective
<1>2. list \in Seq(Names) /\ Len(list) \in Nat
  BY ListsAre
<1>3. ListsInv'
  BY <1>1, <1>2 DEF ListsInv, Submits
<1>4. verdict' \in {"checking", "refused"} /\ totalBytes' = 0 /\ copied' = 0 /\ size' = size
  BY DEF Submits
<1>5. BytesTypeOK' /\ BytesInv'
  BY <1>4, Limits DEF ManifestIInv, BytesTypeOK, BytesInv
<1> QED BY <1>3, <1>5 DEF ManifestIInv

\* Too large: the limit is exceeded by one byte, or is reached with a name left.
LEMMA RefusesSizeStep == ASSUME ManifestIInv, RefusesSize PROVE ManifestIInv'
<1>1. Remaining \in 0..ManifestBytes /\ BytesOf(File) \in 0..(Remaining + 1)
  BY FileIsOne, AtMostOneMore DEF RefusesSize
<1>2. /\ copied' = IF Remaining <= 0 THEN copied ELSE copied + BytesOf(File)
      /\ Remaining <= 0 \/ BytesOf(File) > Remaining
      /\ totalBytes = copied /\ names # <<>> /\ verdict' = "oversize"
      /\ UNCHANGED <<size, names, files, totalBytes>>
  BY DEF RefusesSize, ManifestIInv, BytesInv
<1>3. totalBytes \in 0..ManifestBytes /\ ManifestBytes \in Nat
  BY Limits DEF ManifestIInv, BytesTypeOK
<1>4. copied' \in 0..(ManifestBytes + 1) /\ (copied' > ManifestBytes \/ copied' = ManifestBytes)
  BY <1>1, <1>2, <1>3 DEF Remaining
<1>5. BytesTypeOK' /\ BytesInv'
  BY <1>2, <1>4 DEF ManifestIInv, BytesTypeOK, BytesInv
<1>6. ListsInv'
  BY <1>2 DEF ManifestIInv, ListsInv
<1> QED BY <1>5, <1>6 DEF ManifestIInv

\* A file that is read goes from one list to the other.
LEMMA ReadsFileStep == ASSUME ManifestIInv, ReadsFile PROVE ManifestIInv'
<1>1. /\ File \in Files /\ Tail(names) \in Seq(Names) /\ Len(Tail(names)) = Len(names) - 1
      /\ File \notin Range(files)
  BY FileIsOne DEF ReadsFile
<1>2. Remaining \in 0..ManifestBytes /\ BytesOf(File) \in 0..Remaining
  BY <1>1, AtMostOneMore DEF ReadsFile
<1>3. files' \in Seq(Files) /\ IsInjective(files') /\ Len(files') = Len(files) + 1
  BY <1>1, OneFileMore DEF ReadsFile, ManifestIInv, ListsInv
<1>4. /\ totalBytes' = totalBytes + BytesOf(File) /\ copied' = copied + BytesOf(File)
      /\ totalBytes = copied /\ totalBytes \in 0..ManifestBytes /\ ManifestBytes \in Nat
  BY Limits DEF ReadsFile, ManifestIInv, BytesTypeOK, BytesInv
<1>5. /\ totalBytes' = copied' /\ totalBytes' \in 0..ManifestBytes
      /\ copied' \in 0..(ManifestBytes + 1)
  BY <1>2, <1>4 DEF Remaining
<1>6. names' = Tail(names) /\ verdict = "checking" /\ UNCHANGED <<size, verdict>>
  BY DEF ReadsFile
<1>7. Len(files) \in Nat /\ Len(names) \in Nat /\ Len(files) + Len(names) \in 1..MaxFiles
  BY <1>6 DEF ManifestIInv, ListsInv
<1>8. Len(files') + Len(names') \in 1..MaxFiles
  BY <1>1, <1>3, <1>6, <1>7
<1>9. ListsInv'
  BY <1>1, <1>3, <1>6, <1>8 DEF ListsInv
<1>10. BytesTypeOK' /\ BytesInv'
  BY <1>5, <1>6 DEF ManifestIInv, BytesTypeOK, BytesInv
<1> QED BY <1>9, <1>10 DEF ManifestIInv

\* Every step keeps the invariant.
LEMMA NextManifest == ASSUME ManifestIInv, [ManifestNext]_manifestVars PROVE ManifestIInv'
<1>1. ASSUME NEW f \in Files, Writes(f) PROVE ManifestIInv'
  BY <1>1 DEF ManifestIInv, BytesTypeOK, ListsInv, BytesInv, Writes
<1>2. CASE RefusesName
  BY <1>2 DEF ManifestIInv, BytesTypeOK, ListsInv, BytesInv, RefusesName
<1>3. CASE Decides
  BY <1>3 DEF ManifestIInv, BytesTypeOK, ListsInv, BytesInv, Decides
<1>4. CASE UNCHANGED manifestVars
  BY <1>4 DEF ManifestIInv, BytesTypeOK, ListsInv, BytesInv, manifestVars
<1> QED BY <1>1, <1>2, <1>3, <1>4, SubmitsStep, RefusesSizeStep, ReadsFileStep DEF ManifestNext

(* However the files grow while they are hashed: the limit of bytes, the   *)
(* limit of files, and what an accepted or too large manifest says.        *)
THEOREM ManifestCorrect == ManifestSpec => []ManifestIsBounded
<1>1. ManifestInit => ManifestIInv
  BY InitManifest
<1>2. ManifestIInv /\ [ManifestNext]_manifestVars => ManifestIInv'
  BY NextManifest
<1>3. ManifestIInv => ManifestIsBounded
  <2> SUFFICES ASSUME ManifestIInv PROVE ManifestIsBounded
    OBVIOUS
  <2>1. verdict = "accepted" => Len(files) \in 1..MaxFiles /\ IsInjective(files)
    BY DEF ManifestIInv, ListsInv
  <2>2. copied <= ManifestBytes + 1 /\ totalBytes <= ManifestBytes
    BY Limits DEF ManifestIInv, BytesTypeOK
  <2> QED BY <2>1, <2>2 DEF ManifestIInv, BytesInv, ManifestIsBounded
<1> QED BY <1>1, <1>2, <1>3, PTL DEF ManifestSpec
=============================================================================
