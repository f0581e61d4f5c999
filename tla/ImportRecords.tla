--------------------------- MODULE ImportRecords ---------------------------
(***************************************************************************)
(* The records of imports (internal/state/state.go): sources, runs of      *)
(* them, manifests.  The handlers of app.go write them in statements of    *)
(* their own, on any connection of the pool, or in a transaction that the  *)
(* process may be killed in.  SQLite lets one transaction write at a time; *)
(* whoever else wants to write waits or, after five seconds, fails.        *)
(***************************************************************************)
EXTENDS Naturals, Functions

CONSTANTS
  Admins,        \* admin requests served at a time
  Pool,          \* the connections of the state store
  Nobody,        \* no request is in a transaction
  MaxRecords     \* bound: sources, and runs, ever inserted

RecordIds == 1..MaxRecords
Kinds == {"sources", "runs", "manifests"}

ASSUME RecordsAssumption == MaxRecords \in Nat /\ Nobody \notin Admins

VARIABLES
  tables,    \* what is committed; a manifest has the id of the run recorded with it
  lastId,    \* the ids given last, which are not given again
  writer,    \* the request in a transaction
  work,      \* the tables as its transaction has changed them
  stage,     \* where each request is
  doomed,    \* the record it deletes
  emptied    \* how many tables a reset has emptied

recordsVars == <<tables, lastId, writer, work, stage, doomed, emptied>>

NoRecords == [sources |-> {}, runs |-> <<>>, manifests |-> {}]
NoRecord == [kind |-> "runs", id |-> 0]

RecordsInit ==
  /\ tables = NoRecords
  /\ lastId = [sources |-> 0, runs |-> 0]
  /\ writer = Nobody
  /\ work = NoRecords
  /\ stage = [r \in Admins |-> "idle"]
  /\ doomed = [r \in Admins |-> NoRecord]
  /\ emptied = 0

-----------------------------------------------------------------------------
Moves(r, place) == stage' = [stage EXCEPT ![r] = place]
IdsOf(t, kind) == IF kind = "runs" THEN DOMAIN t.runs ELSE t[kind]

\* Wrong: the pragma is executed once, on the connection that is open then.
ForeignKeysWrong(k) == k = CHOOSE j \in Pool : TRUE

\* The data source name turns foreign keys on in every connection.
ForeignKeys(k) == k \in Pool

\* A statement that leaves a run without its source is refused.
Permits(k, t) == ForeignKeys(k) => \A x \in DOMAIN t.runs : t.runs[x].source \in t.sources

AddRun(t, source, recorded) ==
  LET id == lastId.runs + 1
  IN  [t EXCEPT !.runs = [x \in DOMAIN @ \cup {id} |->
                            IF x = id THEN [source |-> source, recorded |-> recorded] ELSE @[x]]]

-----------------------------------------------------------------------------
(* One statement each.                                                     *)

CreatesSource(r) ==
  /\ stage[r] = "idle" /\ writer = Nobody /\ lastId.sources < MaxRecords
  /\ tables' = [tables EXCEPT !.sources = @ \cup {lastId.sources + 1}]
  /\ lastId' = [lastId EXCEPT !.sources = @ + 1]
  /\ UNCHANGED <<writer, work, stage, doomed, emptied>>

\* The source is one that was on the page, or any number.
CreatesRun(r) ==
  /\ stage[r] = "idle" /\ writer = Nobody /\ lastId.runs < MaxRecords
  /\ \E k \in Pool, source \in RecordIds :
       LET new == AddRun(tables, source, FALSE)
       IN  Permits(k, new) /\ tables' = new
  /\ lastId' = [lastId EXCEPT !.runs = @ + 1]
  /\ UNCHANGED <<writer, work, stage, doomed, emptied>>

\* A deletion reads the record, and answers 404 without one.
LooksForRecord(r) ==
  /\ stage[r] = "idle"
  /\ \E kind \in Kinds : \E id \in IdsOf(tables, kind) :
       doomed' = [doomed EXCEPT ![r] = [kind |-> kind, id |-> id]]
  /\ Moves(r, "deleting")
  /\ UNCHANGED <<tables, lastId, writer, work, emptied>>

Deleted(t, kind, id) ==
  IF kind = "runs" THEN [t EXCEPT !.runs = Restrict(@, DOMAIN @ \ {id})]
  ELSE [t EXCEPT ![kind] = @ \ {id}]

\* The statement is executed, or fails.
DeletesRecord(r) ==
  /\ stage[r] = "deleting"
  /\ \/ /\ writer = Nobody
        /\ \E k \in Pool :
             LET new == Deleted(tables, doomed[r].kind, doomed[r].id)
             IN  Permits(k, new) /\ tables' = new
     \/ UNCHANGED tables
  /\ Moves(r, "idle")
  /\ doomed' = [doomed EXCEPT ![r] = NoRecord]
  /\ UNCHANGED <<lastId, writer, work, emptied>>

-----------------------------------------------------------------------------
(* RecordValidatedManifest.                                                *)

\* Wrong: the run is committed before the manifest is inserted.
InsertsRunWrong(r) ==
  /\ stage[r] = "idle" /\ writer = Nobody /\ lastId.runs < MaxRecords
  /\ \E k \in Pool, source \in RecordIds :
       LET new == AddRun(tables, source, TRUE)
       IN  Permits(k, new) /\ tables' = new /\ work' = new
  /\ lastId' = [lastId EXCEPT !.runs = @ + 1]
  /\ writer' = r
  /\ Moves(r, "recording")
  /\ UNCHANGED <<doomed, emptied>>

\* The manifest has been accepted.  The counter goes back with a rollback.
InsertsRun(r) ==
  /\ stage[r] = "idle" /\ writer = Nobody /\ lastId.runs < MaxRecords
  /\ \E k \in Pool, source \in RecordIds :
       LET new == AddRun(tables, source, TRUE)
       IN  Permits(k, new) /\ work' = new
  /\ writer' = r
  /\ Moves(r, "recording")
  /\ UNCHANGED <<tables, lastId, doomed, emptied>>

InsertsManifest(r) ==
  /\ stage[r] = "recording"
  /\ work' = [work EXCEPT !.manifests = @ \cup {lastId.runs + 1}]
  /\ Moves(r, "recorded")
  /\ UNCHANGED <<tables, lastId, writer, doomed, emptied>>

Ends(r) ==
  /\ writer' = Nobody
  /\ work' = NoRecords
  /\ emptied' = 0
  /\ Moves(r, "idle")
  /\ UNCHANGED doomed

CommitsRecording(r) ==
  /\ stage[r] = "recorded"
  /\ tables' = work
  /\ lastId' = [lastId EXCEPT !.runs = @ + 1]
  /\ Ends(r)

-----------------------------------------------------------------------------
(* ResetOperationalRecords.                                                *)

\* Wrong: the sources go before the runs that name them.
ResetOrderWrong == <<"manifests", "sources", "runs">>

\* The tables of this module in resetOrder.
ResetOrder == <<"manifests", "runs", "sources">>

Emptied(t, kind) == [t EXCEPT ![kind] = IF kind = "runs" THEN <<>> ELSE {}]

BeginsReset(r) ==
  /\ stage[r] = "idle" /\ writer = Nobody
  /\ writer' = r
  /\ work' = tables
  /\ Moves(r, "resetting")
  /\ UNCHANGED <<tables, lastId, doomed, emptied>>

EmptiesRecords(r) ==
  /\ stage[r] = "resetting" /\ emptied < 3
  /\ work' = Emptied(work, ResetOrder[emptied + 1])
  /\ \E k \in Pool : Permits(k, work')
  /\ emptied' = emptied + 1
  /\ UNCHANGED <<tables, lastId, writer, stage, doomed>>

CommitsReset(r) ==
  /\ stage[r] = "resetting" /\ emptied = 3
  /\ tables' = work
  /\ UNCHANGED lastId
  /\ Ends(r)

-----------------------------------------------------------------------------
\* A statement or the commit fails, and the transaction is rolled back.
RollsBack(r) ==
  /\ writer = r
  /\ Ends(r)
  /\ UNCHANGED <<tables, lastId>>

\* The journal of an open transaction is rolled back by whoever opens next.
ProcessKilled ==
  /\ writer' = Nobody
  /\ work' = NoRecords
  /\ emptied' = 0
  /\ stage' = [r \in Admins |-> "idle"]
  /\ doomed' = [r \in Admins |-> NoRecord]
  /\ UNCHANGED <<tables, lastId>>

RecordsNext ==
  \/ \E r \in Admins :
       \/ CreatesSource(r) \/ CreatesRun(r) \/ LooksForRecord(r) \/ DeletesRecord(r)
       \/ InsertsRun(r) \/ InsertsManifest(r) \/ CommitsRecording(r)
       \/ BeginsReset(r) \/ EmptiesRecords(r) \/ CommitsReset(r) \/ RollsBack(r)
  \/ ProcessKilled

RecordsSpec == RecordsInit /\ [][RecordsNext]_recordsVars
-----------------------------------------------------------------------------
\* Every run is of a source that is there (the foreign key of state.go:172),
\* whichever connections its insertion and the deletions of sources ran on.
RunsHaveSources == \A x \in DOMAIN tables.runs : tables.runs[x].source \in tables.sources

\* A recorded manifest appears together with its run (state.go:490), also when
\* an insertion fails or the process is killed between the two.
SeenTogether ==
  [][\A x \in RecordIds :
       x \in tables'.manifests \ tables.manifests <=>
         /\ x \in DOMAIN tables'.runs \ DOMAIN tables.runs
         /\ tables'.runs[x].recorded]_recordsVars

\* The foreign key never stands in the way of a reset (state.go:122): what it
\* is about to empty is not needed by what it has not emptied yet, and nobody
\* adds to the tables it has emptied.
ResetGoesThrough ==
  \A r \in Admins :
    stage[r] = "resetting" /\ emptied < 3 =>
      LET new == Emptied(work, ResetOrder[emptied + 1])
      IN  \A x \in DOMAIN new.runs : new.runs[x].source \in new.sources
=============================================================================
