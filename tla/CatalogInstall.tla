--------------------------- MODULE CatalogInstall ---------------------------
(***************************************************************************)
(* The commands of cmd/server/setup.go that put a catalog into the         *)
(* configuration directory: `setup`, which creates an empty one and the    *)
(* service's environment file, and `load-catalog`, which moves the         *)
(* installed catalog to a backup and renames a copy of another one into    *)
(* its place.  Either can be killed, or fail, between any two steps.       *)
(***************************************************************************)
EXTENDS Naturals

CONSTANTS
  Commands,    \* the terminals in which one command at a time is run
  Sources,     \* valid catalogs outside the directory
  LastSecond   \* bound: the clock that names the backups stops there

Absent == "absent"     \* no such file
Partial == "partial"   \* an incomplete copy, or an empty catalog without all its tables
Empty == "empty"       \* what createEmptyCatalog makes: complete, without torrents
Seconds == 1..LastSecond
Contents == Sources \cup {Absent, Partial, Empty}

ASSUME InstallAssumption ==
  /\ LastSecond \in Nat \ {0}
  /\ Sources \cap {Absent, Partial, Empty} = {}
  /\ Sources \cap Seconds = {}

VARIABLES
  catalog,      \* catalog.sqlite
  backup,       \* catalog.sqlite.backup-<second>
  temporary,    \* each command's copy, .catalog-*.tmp
  env,          \* service.env: absent, blank (created, not yet written) or written
  cpc,          \* where each command is
  from,         \* the path it was given: a source, or the backup of a second
  stamp,        \* the second in the name of the backup it makes
  second,       \* the clock
  installed,    \* history: the catalogs that were installed
  reused,       \* history: a backup was given the name of another
  overlapped,   \* history: two loads ran at once
  interrupted   \* history: the files whose setup was cut short: catalog, env

installVars == <<catalog, backup, temporary, env, cpc, from, stamp, second,
                 installed, reused, overlapped, interrupted>>

InstallInit ==
  /\ catalog = Absent
  /\ backup = [t \in Seconds |-> Absent]
  /\ temporary = [c \in Commands |-> Absent]
  /\ env = Absent
  /\ cpc = [c \in Commands |-> "idle"]
  /\ from = [c \in Commands |-> LastSecond]
  /\ stamp = [c \in Commands |-> LastSecond]
  /\ second = 1
  /\ installed = {}
  /\ reused = FALSE
  /\ overlapped = FALSE
  /\ interrupted = {}

\* The steps of the two commands; at "complete" setup has printed that it is.
SetupSteps == {"creating", "tables", "state", "blank", "complete"}
LoadSteps == {"looking", "moving", "copying", "copied"}

\* Nobody runs setup while another command is under way.
Alone == \A c \in Commands : cpc[c] = "idle"

Goes(c, place) == cpc' = [cpc EXCEPT ![c] = place]

-----------------------------------------------------------------------------
\* setup keeps a catalog it finds, whatever is in it.
SetupLooks(c) ==
  /\ Alone
  /\ Goes(c, IF catalog = Absent THEN "creating" ELSE "state")
  /\ UNCHANGED <<catalog, backup, temporary, env, from, stamp, second,
                 installed, reused, overlapped, interrupted>>

\* Wrong: only the first table is created.
CreatesFirstTableWrong(c) ==
  /\ cpc[c] = "creating"
  /\ catalog' = Partial
  /\ Goes(c, "state")
  /\ UNCHANGED <<backup, temporary, env, from, stamp, second,
                 installed, reused, overlapped, interrupted>>

\* createEmptyCatalog: the file appears with the first of five statements.
CreatesFirstTable(c) ==
  /\ cpc[c] = "creating"
  /\ catalog' = Partial
  /\ Goes(c, "tables")
  /\ UNCHANGED <<backup, temporary, env, from, stamp, second,
                 installed, reused, overlapped, interrupted>>

CreatesOtherTables(c) ==
  /\ cpc[c] = "tables"
  /\ catalog' = Empty
  /\ Goes(c, "state")
  /\ UNCHANGED <<backup, temporary, env, from, stamp, second,
                 installed, reused, overlapped, interrupted>>

\* With the state store in order, the environment file is looked for: one that
\* is there is kept, otherwise os.WriteFile creates it and then writes.
SetupFindsEnv(c) ==
  /\ cpc[c] = "state"
  /\ Goes(c, IF env = Absent THEN "blank" ELSE "complete")
  /\ env' = IF env = Absent THEN "blank" ELSE env
  /\ UNCHANGED <<catalog, backup, temporary, from, stamp, second,
                 installed, reused, overlapped, interrupted>>

SetupWritesEnv(c) ==
  /\ cpc[c] = "blank"
  /\ env' = "written"
  /\ Goes(c, "complete")
  /\ UNCHANGED <<catalog, backup, temporary, from, stamp, second,
                 installed, reused, overlapped, interrupted>>

SetupEnds(c) ==
  /\ cpc[c] = "complete"
  /\ Goes(c, "idle")
  /\ UNCHANGED <<catalog, backup, temporary, env, from, stamp, second,
                 installed, reused, overlapped, interrupted>>

\* An error, or a kill: what is there stays as it is.
SetupStops(c) ==
  /\ cpc[c] \in SetupSteps \ {"complete"}
  /\ interrupted' = interrupted \cup {file \in {"catalog"} : cpc[c] = "tables"}
                                 \cup {file \in {"env"} : cpc[c] = "blank"}
  /\ Goes(c, "idle")
  /\ UNCHANGED <<catalog, backup, temporary, env, from, stamp, second,
                 installed, reused, overlapped>>

-----------------------------------------------------------------------------
ContentOf(path) == IF path \in Sources THEN path ELSE backup[path]

\* load-catalog validates the file it is given, which may be a backup, and
\* makes sure that it is not the installed one (whose path is not among these).
LoadBegins(c, path) ==
  /\ cpc[c] = "idle"
  /\ \A other \in Commands : cpc[other] \notin SetupSteps
  /\ ContentOf(path) \in Sources
  /\ Goes(c, "looking")
  /\ from' = [from EXCEPT ![c] = path]
  /\ overlapped' = (overlapped \/ ~Alone)
  /\ UNCHANGED <<catalog, backup, temporary, env, stamp, second,
                 installed, reused, interrupted>>

\* Wrong: the installed catalog is removed instead of renamed.
LoadBacksUpWrong(c) ==
  /\ cpc[c] = "moving"
  /\ catalog # Absent
  /\ catalog' = Absent
  /\ Goes(c, "copying")
  /\ UNCHANGED <<backup, temporary, env, from, stamp, second,
                 installed, reused, overlapped, interrupted>>

\* If a catalog is installed, the backup is named after the second.
LoadLooks(c) ==
  /\ cpc[c] = "looking"
  /\ Goes(c, IF catalog = Absent THEN "copying" ELSE "moving")
  /\ stamp' = [stamp EXCEPT ![c] = second]
  /\ UNCHANGED <<catalog, backup, temporary, env, from, second,
                 installed, reused, overlapped, interrupted>>

\* os.Rename replaces a backup of that name; it fails if another load has
\* moved the catalog first.
LoadBacksUp(c) ==
  /\ cpc[c] = "moving"
  /\ catalog # Absent
  /\ backup' = [backup EXCEPT ![stamp[c]] = catalog]
  /\ catalog' = Absent
  /\ reused' = (reused \/ backup[stamp[c]] # Absent)
  /\ Goes(c, "copying")
  /\ UNCHANGED <<temporary, env, from, stamp, second, installed, overlapped, interrupted>>

\* Wrong: the source is copied onto the installed file itself.
LoadCopiesWrong(c) ==
  /\ cpc[c] = "copying"
  /\ catalog' = Partial
  /\ temporary' = [temporary EXCEPT ![c] = ContentOf(from[c])]
  /\ Goes(c, "copied")
  /\ UNCHANGED <<backup, env, from, stamp, second, installed, reused, overlapped, interrupted>>

\* CreateTemp, io.Copy, Chmod, Sync and Close: until the last of them the copy
\* is not complete.
LoadCopies(c) ==
  /\ cpc[c] = "copying"
  /\ \/ /\ temporary[c] # Partial
        /\ temporary' = [temporary EXCEPT ![c] = Partial]
        /\ UNCHANGED cpc
     \/ /\ temporary[c] = Partial
        /\ ContentOf(from[c]) # Absent
        /\ temporary' = [temporary EXCEPT ![c] = ContentOf(from[c])]
        /\ Goes(c, "copied")
  /\ UNCHANGED <<catalog, backup, env, from, stamp, second,
                 installed, reused, overlapped, interrupted>>

\* The command is over and its variables with it.
Returns(c) ==
  /\ Goes(c, "idle")
  /\ from' = [from EXCEPT ![c] = LastSecond]
  /\ stamp' = [stamp EXCEPT ![c] = LastSecond]

LoadInstalls(c) ==
  /\ cpc[c] = "copied"
  /\ catalog' = temporary[c]
  /\ temporary' = [temporary EXCEPT ![c] = Absent]
  /\ installed' = installed \cup ({temporary[c]} \cap Sources)
  /\ interrupted' = IF temporary[c] # Partial /\ \A other \in Commands \ {c} : cpc[other] = "idle"
                    THEN interrupted \ {"catalog"} ELSE interrupted
  /\ Returns(c)
  /\ UNCHANGED <<backup, env, second, reused, overlapped>>

\* An error return removes the copy; a kill leaves it, under a name that no
\* later command uses.  Neither puts the backup back.
LoadStops(c) ==
  /\ cpc[c] \in LoadSteps
  /\ temporary' = [temporary EXCEPT ![c] = Absent]
  /\ Returns(c)
  /\ UNCHANGED <<catalog, backup, env, second, installed, reused, overlapped, interrupted>>

Tick ==
  /\ second < LastSecond
  /\ second' = second + 1
  /\ UNCHANGED <<catalog, backup, temporary, env, cpc, from, stamp,
                 installed, reused, overlapped, interrupted>>

InstallNext ==
  \/ \E c \in Commands :
       \/ SetupLooks(c) \/ CreatesFirstTable(c) \/ CreatesOtherTables(c)
       \/ SetupFindsEnv(c) \/ SetupWritesEnv(c) \/ SetupEnds(c) \/ SetupStops(c)
       \/ \E path \in Sources \cup Seconds : LoadBegins(c, path)
       \/ LoadLooks(c) \/ LoadBacksUp(c) \/ LoadCopies(c) \/ LoadInstalls(c) \/ LoadStops(c)
  \/ Tick

InstallSpec == InstallInit /\ [][InstallNext]_installVars
-----------------------------------------------------------------------------
InstallTypeOK ==
  /\ catalog \in Contents
  /\ backup \in [Seconds -> Contents]
  /\ temporary \in [Commands -> Contents]
  /\ env \in {Absent, "blank", "written"}
  /\ cpc \in [Commands -> {"idle"} \cup SetupSteps \cup LoadSteps]
  /\ from \in [Commands -> Sources \cup Seconds]
  /\ stamp \in [Commands -> Seconds]
  /\ second \in Seconds
  /\ installed \in SUBSET Sources
  /\ reused \in BOOLEAN
  /\ overlapped \in BOOLEAN
  /\ interrupted \in SUBSET {"catalog", "env"}

\* A catalog.sqlite that a starting service can find is complete, however many
\* loads were killed, failed or overlapped.  Only a setup that is creating it, or
\* was cut short there, leaves it without some of its tables, and no longer than
\* until a load that runs alone replaces it.
InstalledIsWhole ==
  catalog = Partial => "catalog" \in interrupted \/ \E c \in Commands : cpc[c] = "tables"

\* Every catalog that was once installed is still complete, as the installed
\* one or as a backup, whatever loads were killed or failed since; only two
\* loads at once, or two backups within one second, can lose it.
CatalogsKept ==
  ~reused /\ ~overlapped =>
    \A s \in installed : s = catalog \/ \E t \in Seconds : backup[t] = s

\* A setup that reports completion leaves a complete catalog and a written
\* environment file, also when earlier ones were cut short, as it makes what is
\* missing; but it keeps what it finds without looking into it, and so the one
\* file that an earlier setup was writing when it was cut short.
SetupIsComplete ==
  \A c \in Commands :
    cpc[c] = "complete" =>
      /\ "catalog" \notin interrupted => catalog \in Sources \cup {Empty}
      /\ "env" \notin interrupted => env = "written"
=============================================================================
