---------------------------- MODULE MCComponents ----------------------------
(* Components that share no state: an instance explores one of them,       *)
(* picked at the start, while the others stay as they begin.               *)
EXTENDS CatalogInstall, SearchIndex, CatalogSources, SearchPages, DownloadProgress,
        ManifestCheck, ImportRecords

CONSTANTS q1, q2           \* the two queries
CONSTANTS n1, n2, n3, n4   \* the names a manifest may list
CONSTANTS f1, f2           \* the files below its directory

VARIABLE part   \* the component explored

MCTotals == q1 :> 3 @@ q2 :> 6

\* Three lines of progress, of which the second ends with "\r\n", and before the
\* third one that tells none.
MCText == <<1, 1, 0, 2, 2, 0, 0, 4, 0, 3, 3, 0>>

\* Two names of one file, and one of none.
MCResolves == n1 :> f1 @@ n2 :> f2 @@ n3 :> f1 @@ n4 :> NoFile

Init ==
  /\ part \in {"install", "index", "sources", "pages", "progress", "manifest", "records"}
  /\ InstallInit
  /\ IndexInit
  /\ part # "index" => source.data = (CHOOSE d \in Data : TRUE) /\ index = Nothing
  /\ SourcesInit
  /\ PagesInit
  /\ ProgressInit
  /\ ManifestInit
  /\ part # "manifest" => size = [f \in Files |-> 0]
  /\ RecordsInit

\* A download that is over takes no more steps.
Over == hpc = "ended" /\ apc = "ended" /\ wpc = "idle" /\ UNCHANGED progressVars

Next ==
  /\ UNCHANGED part
  /\ \/ /\ part = "install" /\ InstallNext
        /\ UNCHANGED <<indexVars, sourcesVars, pagesVars, progressVars,
                       manifestVars, recordsVars>>
     \/ /\ part = "index" /\ IndexNext
        /\ UNCHANGED <<installVars, sourcesVars, pagesVars, progressVars,
                       manifestVars, recordsVars>>
     \/ /\ part = "sources" /\ SourcesNext
        /\ UNCHANGED <<installVars, indexVars, pagesVars, progressVars,
                       manifestVars, recordsVars>>
     \/ /\ part = "pages" /\ PagesNext
        /\ UNCHANGED <<installVars, indexVars, sourcesVars, progressVars,
                       manifestVars, recordsVars>>
     \/ /\ part = "progress" /\ (ProgressNext \/ Over)
        /\ UNCHANGED <<installVars, indexVars, sourcesVars, pagesVars,
                       manifestVars, recordsVars>>
     \/ /\ part = "manifest" /\ ManifestNext
        /\ UNCHANGED <<installVars, indexVars, sourcesVars, pagesVars,
                       progressVars, recordsVars>>
     \/ /\ part = "records" /\ RecordsNext
        /\ UNCHANGED <<installVars, indexVars, sourcesVars, pagesVars,
                       progressVars, manifestVars>>

Spec ==
  Init /\ [][Next]_<<installVars, indexVars, sourcesVars, pagesVars, progressVars,
                     manifestVars, recordsVars, part>>

Symmetry == UNION {Permutations(S) : S \in {Commands, Sources, Requests}}
=============================================================================
