------------------------ MODULE CatalogInstallProofs ------------------------
(***************************************************************************)
(* Proofs about CatalogInstall, for any number of terminals, catalogs and  *)
(* seconds.                                                                *)
(***************************************************************************)
EXTENDS CatalogInstall, TLAPS

\* A setup runs alone, and so does a load as long as no two have overlapped.
OneAtATime ==
  \A c, d \in Commands :
    c # d /\ cpc[c] # "idle" /\ (cpc[c] \in SetupSteps \/ ~overlapped) => cpc[d] = "idle"

\* An incomplete catalog is the work of a setup, under way or cut short; until one
\* is cut short, no load copies an incomplete backup.
WholeInv ==
  "catalog" \notin interrupted =>
    /\ catalog = Partial => \E c \in Commands : cpc[c] = "tables"
    /\ \A c \in Commands : cpc[c] \in LoadSteps => ContentOf(from[c]) # Partial
    /\ \A c \in Commands : cpc[c] = "copied" => temporary[c] # Partial

\* What setup has done by each of its places.
SetupInv ==
  /\ env = "blank" => "env" \in interrupted \/ \E c \in Commands : cpc[c] = "blank"
  /\ \A c \in Commands :
       /\ cpc[c] \in {"state", "blank", "complete"} =>
            catalog # Absent /\ ("catalog" \notin interrupted => catalog # Partial)
       /\ cpc[c] = "complete" =>
            env # Absent /\ ("env" \notin interrupted => env = "written")

\* A load that copies has moved the installed catalog away, and setup creates
\* one only where there is none.
VacantInv ==
  \A c \in Commands :
    /\ cpc[c] = "creating" => catalog = Absent
    /\ cpc[c] = "tables" => catalog = Partial
    /\ ~overlapped /\ cpc[c] \in {"copying", "copied"} => catalog = Absent

InstallIInv ==
  /\ InstallTypeOK
  /\ OneAtATime
  /\ WholeInv
  /\ SetupInv
  /\ VacantInv
  /\ CatalogsKept

-----------------------------------------------------------------------------
\* The files a load may be given.
LEMMA ContentType ==
  ASSUME InstallTypeOK, NEW path \in Sources \cup Seconds
  PROVE  ContentOf(path) \in Contents
  BY DEF ContentOf, Contents, InstallTypeOK

\* The kinds of content are different, and there is a last second.
LEMMA ContentsDiffer ==
  /\ LastSecond \in Seconds
  /\ \A s \in Sources : s # Absent /\ s # Partial
  /\ Absent # Partial /\ Absent # Empty /\ Partial # Empty
  BY InstallAssumption DEF Seconds, Absent, Partial, Empty

\* Every step keeps every variable in its range.
LEMMA TypeStep ==
  ASSUME InstallTypeOK, [InstallNext]_installVars
  PROVE  InstallTypeOK'
<1> USE ContentsDiffer DEF InstallTypeOK, SetupSteps, LoadSteps, Contents
<1>1. ASSUME NEW c \in Commands, SetupLooks(c) PROVE InstallTypeOK'
  BY <1>1 DEF SetupLooks, Alone, Goes
<1>2. ASSUME NEW c \in Commands, CreatesFirstTable(c) PROVE InstallTypeOK'
  BY <1>2 DEF CreatesFirstTable, Goes
<1>3. ASSUME NEW c \in Commands, CreatesOtherTables(c) PROVE InstallTypeOK'
  BY <1>3 DEF CreatesOtherTables, Goes
<1>4. ASSUME NEW c \in Commands, SetupFindsEnv(c) PROVE InstallTypeOK'
  BY <1>4 DEF SetupFindsEnv, Goes
<1>5. ASSUME NEW c \in Commands, SetupWritesEnv(c) PROVE InstallTypeOK'
  BY <1>5 DEF SetupWritesEnv, Goes
<1>6. ASSUME NEW c \in Commands, SetupEnds(c) PROVE InstallTypeOK'
  BY <1>6 DEF SetupEnds, Goes
<1>7. ASSUME NEW c \in Commands, SetupStops(c) PROVE InstallTypeOK'
  BY <1>7 DEF SetupStops, Goes, SetupSteps
<1>8. ASSUME NEW c \in Commands, LoadLooks(c) PROVE InstallTypeOK'
  BY <1>8 DEF LoadLooks, Goes
<1>9. ASSUME NEW c \in Commands, LoadBacksUp(c) PROVE InstallTypeOK'
  BY <1>9 DEF LoadBacksUp, Goes
<1>10. ASSUME NEW c \in Commands, LoadCopies(c) PROVE InstallTypeOK'
  <2>1. ContentOf(from[c]) \in Contents BY ContentType
  <2> QED BY <1>10, <2>1 DEF LoadCopies, Goes
<1>11. ASSUME NEW c \in Commands, LoadInstalls(c) PROVE InstallTypeOK'
  BY <1>11 DEF LoadInstalls, Returns, Goes
<1>12. ASSUME NEW c \in Commands, LoadStops(c) PROVE InstallTypeOK'
  BY <1>12 DEF LoadStops, Returns, Goes, LoadSteps
<1>13. ASSUME NEW c \in Commands, NEW path \in Sources \cup Seconds, LoadBegins(c, path)
      PROVE  InstallTypeOK'
  BY <1>13 DEF LoadBegins, Goes
<1>14. CASE Tick
  BY <1>14, InstallAssumption DEF Tick, Seconds
<1>15. CASE UNCHANGED installVars
  BY <1>15 DEF installVars
<1> QED BY <1>1, <1>2, <1>3, <1>4, <1>5, <1>6, <1>7, <1>8,
           <1>9, <1>10, <1>11, <1>12, <1>13, <1>14, <1>15 DEF InstallNext

\* Commands that must run alone do.
LEMMA AloneStep ==
  ASSUME InstallTypeOK, OneAtATime, [InstallNext]_installVars
  PROVE  OneAtATime'
<1> USE DEF InstallTypeOK, OneAtATime, SetupSteps, LoadSteps
<1>1. ASSUME NEW c \in Commands, SetupLooks(c) PROVE OneAtATime'
  BY <1>1 DEF SetupLooks, Alone, Goes
<1>2. ASSUME NEW c \in Commands, CreatesFirstTable(c) PROVE OneAtATime'
  BY <1>2 DEF CreatesFirstTable, Goes
<1>3. ASSUME NEW c \in Commands, CreatesOtherTables(c) PROVE OneAtATime'
  BY <1>3 DEF CreatesOtherTables, Goes
<1>4. ASSUME NEW c \in Commands, SetupFindsEnv(c) PROVE OneAtATime'
  BY <1>4 DEF SetupFindsEnv, Goes
<1>5. ASSUME NEW c \in Commands, SetupWritesEnv(c) PROVE OneAtATime'
  BY <1>5 DEF SetupWritesEnv, Goes
<1>6. ASSUME NEW c \in Commands, SetupEnds(c) PROVE OneAtATime'
  BY <1>6 DEF SetupEnds, Goes
<1>7. ASSUME NEW c \in Commands, SetupStops(c) PROVE OneAtATime'
  BY <1>7 DEF SetupStops, Goes, SetupSteps
<1>8. ASSUME NEW c \in Commands, LoadLooks(c) PROVE OneAtATime'
  BY <1>8 DEF LoadLooks, Goes
<1>9. ASSUME NEW c \in Commands, LoadBacksUp(c) PROVE OneAtATime'
  BY <1>9 DEF LoadBacksUp, Goes
<1>10. ASSUME NEW c \in Commands, LoadCopies(c) PROVE OneAtATime'
  BY <1>10 DEF LoadCopies, Goes
<1>11. ASSUME NEW c \in Commands, LoadInstalls(c) PROVE OneAtATime'
  BY <1>11 DEF LoadInstalls, Returns, Goes
<1>12. ASSUME NEW c \in Commands, LoadStops(c) PROVE OneAtATime'
  BY <1>12 DEF LoadStops, Returns, Goes, LoadSteps
<1>13. ASSUME NEW c \in Commands, NEW path \in Sources \cup Seconds, LoadBegins(c, path)
      PROVE  OneAtATime'
  BY <1>13 DEF LoadBegins, Goes, Alone
<1>14. CASE Tick
  BY <1>14 DEF Tick
<1>15. CASE UNCHANGED installVars
  BY <1>15 DEF installVars
<1> QED BY <1>1, <1>2, <1>3, <1>4, <1>5, <1>6, <1>7, <1>8,
           <1>9, <1>10, <1>11, <1>12, <1>13, <1>14, <1>15 DEF InstallNext

\* A complete catalog is not replaced by a part of one.
LEMMA WholeStep ==
  ASSUME InstallTypeOK, OneAtATime, WholeInv, [InstallNext]_installVars
  PROVE  WholeInv'
<1> USE ContentsDiffer DEF InstallTypeOK, WholeInv, ContentOf, SetupSteps, LoadSteps
<1>1. ASSUME NEW c \in Commands, SetupLooks(c) PROVE WholeInv'
  BY <1>1 DEF SetupLooks, Alone, Goes
<1>2. ASSUME NEW c \in Commands, CreatesFirstTable(c) PROVE WholeInv'
  BY <1>2 DEF CreatesFirstTable, Goes
<1>3. ASSUME NEW c \in Commands, CreatesOtherTables(c) PROVE WholeInv'
  BY <1>3 DEF CreatesOtherTables, Goes
<1>4. ASSUME NEW c \in Commands, SetupFindsEnv(c) PROVE WholeInv'
  BY <1>4 DEF SetupFindsEnv, Goes
<1>5. ASSUME NEW c \in Commands, SetupWritesEnv(c) PROVE WholeInv'
  BY <1>5 DEF SetupWritesEnv, Goes
<1>6. ASSUME NEW c \in Commands, SetupEnds(c) PROVE WholeInv'
  BY <1>6 DEF SetupEnds, Goes
<1>7. ASSUME NEW c \in Commands, SetupStops(c) PROVE WholeInv'
  BY <1>7 DEF SetupStops, Goes, SetupSteps
<1>8. ASSUME NEW c \in Commands, LoadLooks(c) PROVE WholeInv'
  BY <1>8 DEF LoadLooks, Goes
<1>9. ASSUME NEW c \in Commands, LoadBacksUp(c) PROVE WholeInv'
  BY <1>9 DEF LoadBacksUp, Goes, OneAtATime
<1>10. ASSUME NEW c \in Commands, LoadCopies(c) PROVE WholeInv'
  BY <1>10 DEF LoadCopies, Goes
<1>11. ASSUME NEW c \in Commands, LoadInstalls(c) PROVE WholeInv'
  BY <1>11 DEF LoadInstalls, Returns, Goes
<1>12. ASSUME NEW c \in Commands, LoadStops(c) PROVE WholeInv'
  BY <1>12 DEF LoadStops, Returns, Goes, LoadSteps
<1>13. ASSUME NEW c \in Commands, NEW path \in Sources \cup Seconds, LoadBegins(c, path)
      PROVE  WholeInv'
  BY <1>13 DEF LoadBegins, Goes
<1>14. CASE Tick
  BY <1>14 DEF Tick
<1>15. CASE UNCHANGED installVars
  BY <1>15 DEF installVars
<1> QED BY <1>1, <1>2, <1>3, <1>4, <1>5, <1>6, <1>7, <1>8,
           <1>9, <1>10, <1>11, <1>12, <1>13, <1>14, <1>15 DEF InstallNext

\* Setup does what it says.
LEMMA SetupStep ==
  ASSUME InstallTypeOK, OneAtATime, WholeInv, SetupInv, [InstallNext]_installVars
  PROVE  SetupInv'
<1> USE ContentsDiffer DEF InstallTypeOK, OneAtATime, SetupInv, SetupSteps, LoadSteps
<1>1. ASSUME NEW c \in Commands, SetupLooks(c) PROVE SetupInv'
  BY <1>1 DEF SetupLooks, Alone, Goes, WholeInv
<1>2. ASSUME NEW c \in Commands, CreatesFirstTable(c) PROVE SetupInv'
  BY <1>2 DEF CreatesFirstTable, Goes
<1>3. ASSUME NEW c \in Commands, CreatesOtherTables(c) PROVE SetupInv'
  BY <1>3 DEF CreatesOtherTables, Goes
<1>4. ASSUME NEW c \in Commands, SetupFindsEnv(c) PROVE SetupInv'
  BY <1>4 DEF SetupFindsEnv, Goes
<1>5. ASSUME NEW c \in Commands, SetupWritesEnv(c) PROVE SetupInv'
  BY <1>5 DEF SetupWritesEnv, Goes, Absent
<1>6. ASSUME NEW c \in Commands, SetupEnds(c) PROVE SetupInv'
  BY <1>6 DEF SetupEnds, Goes
<1>7. ASSUME NEW c \in Commands, SetupStops(c) PROVE SetupInv'
  BY <1>7 DEF SetupStops, Goes, SetupSteps
<1>8. ASSUME NEW c \in Commands, LoadLooks(c) PROVE SetupInv'
  BY <1>8 DEF LoadLooks, Goes
<1>9. ASSUME NEW c \in Commands, LoadBacksUp(c) PROVE SetupInv'
  BY <1>9 DEF LoadBacksUp, Goes
<1>10. ASSUME NEW c \in Commands, LoadCopies(c) PROVE SetupInv'
  BY <1>10 DEF LoadCopies, Goes
<1>11. ASSUME NEW c \in Commands, LoadInstalls(c) PROVE SetupInv'
  BY <1>11 DEF LoadInstalls, Returns, Goes
<1>12. ASSUME NEW c \in Commands, LoadStops(c) PROVE SetupInv'
  BY <1>12 DEF LoadStops, Returns, Goes, LoadSteps
<1>13. ASSUME NEW c \in Commands, NEW path \in Sources \cup Seconds, LoadBegins(c, path)
      PROVE  SetupInv'
  BY <1>13 DEF LoadBegins, Goes
<1>14. CASE Tick
  BY <1>14 DEF Tick
<1>15. CASE UNCHANGED installVars
  BY <1>15 DEF installVars
<1> QED BY <1>1, <1>2, <1>3, <1>4, <1>5, <1>6, <1>7, <1>8,
           <1>9, <1>10, <1>11, <1>12, <1>13, <1>14, <1>15 DEF InstallNext

\* A catalog appears only where there was none.
LEMMA VacantStep ==
  ASSUME InstallTypeOK, OneAtATime, VacantInv, [InstallNext]_installVars
  PROVE  VacantInv'
<1> USE ContentsDiffer DEF InstallTypeOK, OneAtATime, VacantInv, SetupSteps, LoadSteps
<1>1. ASSUME NEW c \in Commands, SetupLooks(c) PROVE VacantInv'
  BY <1>1 DEF SetupLooks, Alone, Goes
<1>2. ASSUME NEW c \in Commands, CreatesFirstTable(c) PROVE VacantInv'
  BY <1>2 DEF CreatesFirstTable, Goes
<1>3. ASSUME NEW c \in Commands, CreatesOtherTables(c) PROVE VacantInv'
  BY <1>3 DEF CreatesOtherTables, Goes
<1>4. ASSUME NEW c \in Commands, SetupFindsEnv(c) PROVE VacantInv'
  BY <1>4 DEF SetupFindsEnv, Goes
<1>5. ASSUME NEW c \in Commands, SetupWritesEnv(c) PROVE VacantInv'
  BY <1>5 DEF SetupWritesEnv, Goes
<1>6. ASSUME NEW c \in Commands, SetupEnds(c) PROVE VacantInv'
  BY <1>6 DEF SetupEnds, Goes
<1>7. ASSUME NEW c \in Commands, SetupStops(c) PROVE VacantInv'
  BY <1>7 DEF SetupStops, Goes, SetupSteps
<1>8. ASSUME NEW c \in Commands, LoadLooks(c) PROVE VacantInv'
  BY <1>8 DEF LoadLooks, Goes
<1>9. ASSUME NEW c \in Commands, LoadBacksUp(c) PROVE VacantInv'
  BY <1>9 DEF LoadBacksUp, Goes
<1>10. ASSUME NEW c \in Commands, LoadCopies(c) PROVE VacantInv'
  BY <1>10 DEF LoadCopies, Goes
<1>11. ASSUME NEW c \in Commands, LoadInstalls(c) PROVE VacantInv'
  BY <1>11 DEF LoadInstalls, Returns, Goes
<1>12. ASSUME NEW c \in Commands, LoadStops(c) PROVE VacantInv'
  BY <1>12 DEF LoadStops, Returns, Goes, LoadSteps
<1>13. ASSUME NEW c \in Commands, NEW path \in Sources \cup Seconds, LoadBegins(c, path)
      PROVE  VacantInv'
  BY <1>13 DEF LoadBegins, Goes, Alone
<1>14. CASE Tick
  BY <1>14 DEF Tick
<1>15. CASE UNCHANGED installVars
  BY <1>15 DEF installVars
<1> QED BY <1>1, <1>2, <1>3, <1>4, <1>5, <1>6, <1>7, <1>8,
           <1>9, <1>10, <1>11, <1>12, <1>13, <1>14, <1>15 DEF InstallNext

\* No step destroys a catalog that was installed.
LEMMA KeptStep ==
  ASSUME InstallTypeOK, VacantInv, CatalogsKept, [InstallNext]_installVars
  PROVE  CatalogsKept'
<1> USE ContentsDiffer DEF InstallTypeOK, VacantInv, CatalogsKept, SetupSteps, LoadSteps
<1>1. ASSUME NEW c \in Commands, SetupLooks(c) PROVE CatalogsKept'
  BY <1>1 DEF SetupLooks, Alone, Goes
<1>2. ASSUME NEW c \in Commands, CreatesFirstTable(c) PROVE CatalogsKept'
  BY <1>2 DEF CreatesFirstTable, Goes
<1>3. ASSUME NEW c \in Commands, CreatesOtherTables(c) PROVE CatalogsKept'
  BY <1>3 DEF CreatesOtherTables, Goes
<1>4. ASSUME NEW c \in Commands, SetupFindsEnv(c) PROVE CatalogsKept'
  BY <1>4 DEF SetupFindsEnv, Goes
<1>5. ASSUME NEW c \in Commands, SetupWritesEnv(c) PROVE CatalogsKept'
  BY <1>5 DEF SetupWritesEnv, Goes
<1>6. ASSUME NEW c \in Commands, SetupEnds(c) PROVE CatalogsKept'
  BY <1>6 DEF SetupEnds, Goes
<1>7. ASSUME NEW c \in Commands, SetupStops(c) PROVE CatalogsKept'
  BY <1>7 DEF SetupStops, Goes, SetupSteps
<1>8. ASSUME NEW c \in Commands, LoadLooks(c) PROVE CatalogsKept'
  BY <1>8 DEF LoadLooks, Goes
<1>9. ASSUME NEW c \in Commands, LoadBacksUp(c) PROVE CatalogsKept'
  <2> SUFFICES ASSUME ~reused', ~overlapped', NEW s \in installed
               PROVE  s = catalog' \/ \E t \in Seconds : backup'[t] = s
    BY <1>9 DEF LoadBacksUp, Goes
  <2>1. /\ backup[stamp[c]] = Absent /\ ~reused /\ ~overlapped
        /\ backup' = [backup EXCEPT ![stamp[c]] = catalog] /\ stamp[c] \in Seconds
    BY <1>9 DEF LoadBacksUp, Goes
  <2>2. CASE s = catalog
    BY <2>1, <2>2
  <2>3. CASE \E t \in Seconds : backup[t] = s
    BY <2>1, <2>3
  <2> QED BY <2>1, <2>2, <2>3
<1>10. ASSUME NEW c \in Commands, LoadCopies(c) PROVE CatalogsKept'
  BY <1>10 DEF LoadCopies, Goes
<1>11. ASSUME NEW c \in Commands, LoadInstalls(c) PROVE CatalogsKept'
  BY <1>11 DEF LoadInstalls, Returns, Goes
<1>12. ASSUME NEW c \in Commands, LoadStops(c) PROVE CatalogsKept'
  BY <1>12 DEF LoadStops, Returns, Goes, LoadSteps
<1>13. ASSUME NEW c \in Commands, NEW path \in Sources \cup Seconds, LoadBegins(c, path)
      PROVE  CatalogsKept'
  BY <1>13 DEF LoadBegins, Goes
<1>14. CASE Tick
  BY <1>14 DEF Tick
<1>15. CASE UNCHANGED installVars
  BY <1>15 DEF installVars
<1> QED BY <1>1, <1>2, <1>3, <1>4, <1>5, <1>6, <1>7, <1>8,
           <1>9, <1>10, <1>11, <1>12, <1>13, <1>14, <1>15 DEF InstallNext

-----------------------------------------------------------------------------
LEMMA InstallInductive ==
  /\ InstallInit => InstallIInv
  /\ InstallIInv /\ [InstallNext]_installVars => InstallIInv'
<1>1. InstallInit => InstallIInv
  <2> SUFFICES ASSUME InstallInit PROVE InstallIInv OBVIOUS
  <2> USE DEF InstallInit
  <2>0. 1 \in Seconds
    BY InstallAssumption DEF Seconds
  <2>1. InstallTypeOK
    BY <2>0, ContentsDiffer DEF InstallTypeOK, Contents
  <2>2. OneAtATime /\ VacantInv /\ CatalogsKept
    BY DEF OneAtATime, VacantInv, CatalogsKept
  <2>3. WholeInv /\ SetupInv
    BY ContentsDiffer DEF WholeInv, SetupInv, LoadSteps, Absent
  <2> QED BY <2>1, <2>2, <2>3 DEF InstallIInv
<1>2. InstallIInv /\ [InstallNext]_installVars => InstallIInv'
  BY TypeStep, AloneStep, WholeStep, SetupStep, VacantStep, KeptStep DEF InstallIInv
<1> QED BY <1>1, <1>2

\* The variables keep to their ranges.
THEOREM InstallTypeCorrect == InstallSpec => []InstallTypeOK
<1>1. InstallIInv => InstallTypeOK BY DEF InstallIInv
<1> QED BY <1>1, InstallInductive, PTL DEF InstallSpec

\* A starting service finds a complete catalog or none, unless a setup was cut
\* short: load-catalog copies beside it and renames.
THEOREM InstalledCorrect == InstallSpec => []InstalledIsWhole
<1>1. InstallIInv => InstalledIsWhole BY DEF InstallIInv, WholeInv, InstalledIsWhole
<1> QED BY <1>1, InstallInductive, PTL DEF InstallSpec

\* load-catalog destroys no catalog that was installed, unless two loads
\* overlap or two backups bear the name of one second.
THEOREM BackupsCorrect == InstallSpec => []CatalogsKept
<1>1. InstallIInv => CatalogsKept BY DEF InstallIInv
<1> QED BY <1>1, InstallInductive, PTL DEF InstallSpec

\* A setup that reports completion leaves a complete catalog and a written
\* environment file.
THEOREM SetupCorrect == InstallSpec => []SetupIsComplete
<1>1. InstallIInv => SetupIsComplete
  BY DEF InstallIInv, InstallTypeOK, SetupInv, SetupIsComplete, Contents
<1> QED BY <1>1, InstallInductive, PTL DEF InstallSpec
=============================================================================
