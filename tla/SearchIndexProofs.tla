------------------------- MODULE SearchIndexProofs --------------------------
(***************************************************************************)
(* Proofs about SearchIndex, for any contents, number of replacements and  *)
(* size of the pool.                                                       *)
(***************************************************************************)
EXTENDS SearchIndex, TLAPS

Stages == {"fingerprinted", "copying", "copied", "stamped"}

\* Nothing on disk is newer than the clock, and the source is the newest file as
\* long as no older one was put back.
TimeInv ==
  /\ source.time <= clock
  /\ ~backdated => source.time = clock
  /\ index # Nothing => index.time <= clock
  /\ index # Nothing /\ index.meta \in Fingerprints => index.meta.time <= clock
  /\ building # Nothing => building.time <= clock
  /\ fingerprint # Nothing => fingerprint.time <= clock

\* What the index on disk says of itself is true of the source, or of the past.
MetaInv ==
  index # Nothing /\ ~backdated =>
    /\ index.meta = Nothing => index.rows = source.data \/ index.time < source.time
    /\ index.meta \in Fingerprints => \/ index.meta = source /\ index.rows = source.data
                                      \/ index.meta.time < source.time

\* A build has read the file its fingerprint names, or that fingerprint is of the
\* past; it has read the source as it is if that has not been replaced under it.
BuildInv ==
  /\ xpc \in Stages =>
       /\ fingerprint # Nothing
       /\ ~backdated => fingerprint = source \/ fingerprint.time < source.time
  /\ xpc \in Stages \ {"fingerprinted"} =>
       /\ building # Nothing
       /\ reading # Nothing
       /\ ~moved => reading = source.data
       /\ ~backdated => reading = source.data \/ fingerprint.time < source.time
  /\ xpc \in {"copied", "stamped"} => building.rows = reading
  /\ xpc = "stamped" => building.meta = fingerprint

\* While the catalog that was loaded is the source, everything that is read of it
\* is its own.
Own == [torrents |-> source.data, rows |-> source.data]

ServedInv ==
  /\ moved => servedMoved
  /\ ~servedMoved /\ ~backdated =>
       /\ InService /\ index # Nothing => index.rows = source.data
       /\ \A k \in Connections : pool[k] \in {Nothing, Own}
       /\ total \in {Nothing, Own}
       /\ page \in {Nothing, [total |-> Own, items |-> Own]}

IndexIInv == IndexTypeOK /\ TimeInv /\ MetaInv /\ BuildInv /\ IndexIsOfSource /\ ServedInv

-----------------------------------------------------------------------------
\* Times are numbers, and Nothing is not a file, a fingerprint or a connection.
LEMMA TimesAreNat == Times \subseteq Nat
  BY IndexAssumption DEF Times

LEMMA NothingElse ==
  /\ \A x \in Data : x # Nothing
  /\ \A x \in Fingerprints : x # Nothing
  /\ \A x \in IndexFiles : x # Nothing
  /\ \A x \in Joins : x # Nothing
  /\ Unstamped \notin Fingerprints /\ Unstamped # Nothing
  BY IndexAssumption

\* The fields of fingerprints, indexes and connections.
LEMMA Fields ==
  /\ \A x \in Fingerprints : x.data \in Data /\ x.time \in Times
  /\ \A x \in IndexFiles : /\ x.rows \in Data \cup {InPart}
                            /\ x.meta \in Fingerprints \cup {Nothing, Unstamped}
                            /\ x.time \in Times
  /\ \A x \in Joins : x.torrents \in Data /\ x.rows \in Data \cup {InPart}
  BY DEF Fingerprints, IndexFiles, Joins

\* Times, where there is something that has one.
LEMMA Numbers ==
  ASSUME IndexTypeOK
  PROVE  /\ clock \in Nat /\ source # Nothing /\ source.time \in Nat
         /\ index # Nothing => index.time \in Nat
         /\ index # Nothing /\ index.meta \in Fingerprints => index.meta.time \in Nat
         /\ building # Nothing => building.time \in Nat
         /\ fingerprint # Nothing => fingerprint.time \in Nat
<1> USE TimesAreNat, NothingElse, Fields DEF IndexTypeOK
<1>1. clock \in Nat /\ source # Nothing /\ source.time \in Nat
  OBVIOUS
<1>2. index # Nothing => /\ index.time \in Nat
                         /\ index.meta \in Fingerprints => index.meta.time \in Nat
  OBVIOUS
<1>3. building # Nothing => building.time \in Nat
  OBVIOUS
<1>4. fingerprint # Nothing => fingerprint.time \in Nat
  OBVIOUS
<1> QED BY <1>1, <1>2, <1>3, <1>4

\* What is put in place of the source.
LEMMA Replacing ==
  ASSUME IndexTypeOK, NEW d \in Data, ReplaceSource(d)
  PROVE  /\ source' \in Fingerprints
         /\ source'.data = d /\ source'.time = clock + 1 /\ clock' = clock + 1
         /\ clock + 1 \in Times /\ moved' /\ servedMoved'
         /\ UNCHANGED <<index, building, xpc, fingerprint, reading, pool, total, page, backdated>>
<1>1. clock + 1 \in Times
  BY IndexAssumption DEF ReplaceSource, IndexTypeOK, Times
<1> QED BY <1>1 DEF ReplaceSource, Replaced, Fingerprints

LEMMA Restoring ==
  ASSUME IndexTypeOK, NEW d \in Data, NEW t \in Times, RestoreSource(d, t)
  PROVE  /\ source' \in Fingerprints
         /\ source'.data = d /\ source'.time = t /\ t < clock /\ clock' = clock
         /\ moved' /\ servedMoved' /\ backdated'
         /\ UNCHANGED <<index, building, xpc, fingerprint, reading, pool, total, page>>
  BY DEF RestoreSource, Replaced, Fingerprints

\* An index that is adopted keeps its rows, stamped or not.
LEMMA Adopting ==
  ASSUME IndexTypeOK, AdoptIndex
  PROVE  /\ index \in IndexFiles /\ index.meta = Nothing /\ index.time >= source.time
         /\ index' \in IndexFiles /\ index'.rows = index.rows
         /\ \/ index'.meta \in {source, Unstamped} /\ index'.time = clock
            \/ index' = index
<1>1. index \in IndexFiles /\ index.meta = Nothing /\ index.time >= source.time
  BY DEF AdoptIndex, IsLegacyOf, IndexTypeOK
<1>2. source \in Fingerprints /\ clock \in Times
  BY DEF IndexTypeOK
<1>3. CASE UNCHANGED index
  BY <1>1, <1>3
<1>4. ASSUME NEW stamp \in {source, Unstamped},
             index' = [index EXCEPT !.meta = stamp, !.time = clock]
      PROVE  /\ index' \in IndexFiles /\ index'.rows = index.rows
             /\ index'.meta = stamp /\ index'.time = clock
  BY <1>1, <1>2, <1>4 DEF IndexFiles
<1> QED BY <1>1, <1>3, <1>4 DEF AdoptIndex

\* A build starts empty.
LEMMA Starting ==
  ASSUME IndexTypeOK, StartBuild
  PROVE  /\ building' \in IndexFiles
         /\ building'.rows = InPart /\ building'.meta = Nothing /\ building'.time = clock
         /\ reading' = source.data /\ reading' \in Data
<1>1. source.data \in Data /\ clock \in Times
  BY DEF IndexTypeOK, Fingerprints
<1> QED BY <1>1 DEF StartBuild, IndexFiles

\* Every step keeps every variable in its range.
LEMMA TypeStep ==
  ASSUME IndexTypeOK, BuildInv, [IndexNext]_indexVars
  PROVE  IndexTypeOK'
<1> USE IndexAssumption DEF IndexTypeOK, served
<1>1. ASSUME NEW d \in Data, ReplaceSource(d) PROVE IndexTypeOK'
  <2>1. /\ source' \in Fingerprints
        /\ source'.data = d /\ source'.time = clock + 1 /\ clock' = clock + 1
        /\ clock + 1 \in Times /\ moved' /\ servedMoved'
        /\ UNCHANGED <<index, building, xpc, fingerprint, reading, pool, total, page, backdated>>
    BY <1>1, Replacing
  <2> QED BY <2>1, Numbers
<1>2. ASSUME NEW d \in Data, NEW t \in Times, RestoreSource(d, t) PROVE IndexTypeOK'
  <2>1. /\ source' \in Fingerprints
        /\ source'.data = d /\ source'.time = t /\ t < clock /\ clock' = clock
        /\ moved' /\ servedMoved' /\ backdated'
        /\ UNCHANGED <<index, building, xpc, fingerprint, reading, pool, total, page>>
    BY <1>2, Restoring
  <2> QED BY <2>1, Numbers
<1>3. CASE RemoveIndex
  BY <1>3 DEF RemoveIndex
<1>4. CASE ProcessDies
  BY <1>4 DEF ProcessDies
<1>5. CASE LoadCatalog
  BY <1>5 DEF LoadCatalog
<1>6. CASE MatchIndex
  BY <1>6 DEF MatchIndex, Matches
<1>7. CASE AdoptIndex
  <2>1. /\ index \in IndexFiles /\ index.meta = Nothing /\ index.time >= source.time
        /\ index' \in IndexFiles /\ index'.rows = index.rows
        /\ \/ index'.meta \in {source, Unstamped} /\ index'.time = clock
           \/ index' = index
    BY <1>7, Adopting
  <2> QED BY <1>7, <2>1 DEF AdoptIndex, IsLegacyOf
<1>8. CASE FindNoMatch
  BY <1>8 DEF FindNoMatch
<1>9. CASE TakeFingerprint
  BY <1>9 DEF TakeFingerprint
<1>10. CASE StartBuild
  <2>1. /\ building' \in IndexFiles
        /\ building'.rows = InPart /\ building'.meta = Nothing /\ building'.time = clock
        /\ reading' = source.data /\ reading' \in Data
    BY <1>10, Starting
  <2> QED BY <1>10, <2>1 DEF StartBuild
<1>11. CASE CommitLastBatch
  BY <1>11 DEF CommitLastBatch, BuildInv, Stages, IndexFiles
<1>12. CASE WriteMetadata
  BY <1>12 DEF WriteMetadata, BuildInv, Stages, IndexFiles
<1>13. CASE InstallIndex
  BY <1>13 DEF InstallIndex
<1>14. CASE BuildFails
  BY <1>14 DEF BuildFails
<1>15. CASE OpenCatalog
  BY <1>15 DEF OpenCatalog, Connection, Fingerprints, IndexFiles, Joins
<1>16. CASE OpenFails
  BY <1>16 DEF OpenFails
<1>17. ASSUME NEW k \in Connections, Connect(k) PROVE IndexTypeOK'
  BY <1>17 DEF Connect, Connection, Fingerprints, IndexFiles, Joins
<1>18. ASSUME NEW k \in Connections, CountMatches(k) PROVE IndexTypeOK'
  BY <1>18 DEF CountMatches
<1>19. ASSUME NEW k \in Connections, ListItems(k) PROVE IndexTypeOK'
  BY <1>19 DEF ListItems
<1>20. CASE UNCHANGED indexVars
  BY <1>20 DEF indexVars
<1> QED BY <1>1, <1>2, <1>3, <1>4, <1>5, <1>6, <1>7, <1>8, <1>9, <1>10, <1>11,
           <1>12, <1>13, <1>14, <1>15, <1>16, <1>17, <1>18, <1>19, <1>20 DEF IndexNext

\* No step makes a file that is newer than the clock.
LEMMA TimeStep ==
  ASSUME IndexTypeOK, TimeInv, BuildInv, [IndexNext]_indexVars
  PROVE  TimeInv'
<1> USE TimesAreNat, NothingElse, Fields DEF IndexTypeOK, served, TimeInv
<1>1. ASSUME NEW d \in Data, ReplaceSource(d) PROVE TimeInv'
  <2>1. /\ source' \in Fingerprints
        /\ source'.data = d /\ source'.time = clock + 1 /\ clock' = clock + 1
        /\ clock + 1 \in Times /\ moved' /\ servedMoved'
        /\ UNCHANGED <<index, building, xpc, fingerprint, reading, pool, total, page, backdated>>
    BY <1>1, Replacing
  <2> QED BY <2>1, Numbers
<1>2. ASSUME NEW d \in Data, NEW t \in Times, RestoreSource(d, t) PROVE TimeInv'
  <2>1. /\ source' \in Fingerprints
        /\ source'.data = d /\ source'.time = t /\ t < clock /\ clock' = clock
        /\ moved' /\ servedMoved' /\ backdated'
        /\ UNCHANGED <<index, building, xpc, fingerprint, reading, pool, total, page>>
    BY <1>2, Restoring
  <2> QED BY <2>1, Numbers
<1>3. CASE RemoveIndex
  BY <1>3 DEF RemoveIndex
<1>4. CASE ProcessDies
  BY <1>4 DEF ProcessDies
<1>5. CASE LoadCatalog
  BY <1>5 DEF LoadCatalog
<1>6. CASE MatchIndex
  BY <1>6 DEF MatchIndex, Matches
<1>7. CASE AdoptIndex
  <2>1. /\ index \in IndexFiles /\ index.meta = Nothing /\ index.time >= source.time
        /\ index' \in IndexFiles /\ index'.rows = index.rows
        /\ \/ index'.meta \in {source, Unstamped} /\ index'.time = clock
           \/ index' = index
    BY <1>7, Adopting
  <2> QED BY <1>7, <2>1 DEF AdoptIndex, IsLegacyOf
<1>8. CASE FindNoMatch
  BY <1>8 DEF FindNoMatch
<1>9. CASE TakeFingerprint
  BY <1>9 DEF TakeFingerprint
<1>10. CASE StartBuild
  <2>1. /\ building' \in IndexFiles
        /\ building'.rows = InPart /\ building'.meta = Nothing /\ building'.time = clock
        /\ reading' = source.data /\ reading' \in Data
    BY <1>10, Starting
  <2> QED BY <1>10, <2>1 DEF StartBuild
<1>11. CASE CommitLastBatch
  BY <1>11 DEF CommitLastBatch, BuildInv, Stages, IndexFiles
<1>12. CASE WriteMetadata
  BY <1>12 DEF WriteMetadata, BuildInv, Stages, IndexFiles
<1>13. CASE InstallIndex
  BY <1>13 DEF InstallIndex, BuildInv, Stages
<1>14. CASE BuildFails
  BY <1>14 DEF BuildFails
<1>15. CASE OpenCatalog
  BY <1>15 DEF OpenCatalog, Connection
<1>16. CASE OpenFails
  BY <1>16 DEF OpenFails
<1>17. ASSUME NEW k \in Connections, Connect(k) PROVE TimeInv'
  BY <1>17 DEF Connect, Connection
<1>18. ASSUME NEW k \in Connections, CountMatches(k) PROVE TimeInv'
  BY <1>18 DEF CountMatches
<1>19. ASSUME NEW k \in Connections, ListItems(k) PROVE TimeInv'
  BY <1>19 DEF ListItems
<1>20. CASE UNCHANGED indexVars
  BY <1>20 DEF indexVars
<1> QED BY <1>1, <1>2, <1>3, <1>4, <1>5, <1>6, <1>7, <1>8, <1>9, <1>10, <1>11,
           <1>12, <1>13, <1>14, <1>15, <1>16, <1>17, <1>18, <1>19, <1>20 DEF IndexNext

\* An index is stamped with what was read, and is of the past after a replacement.
LEMMA MetaStep ==
  ASSUME IndexTypeOK, TimeInv, MetaInv, BuildInv, [IndexNext]_indexVars
  PROVE  MetaInv'
<1> USE TimesAreNat, NothingElse, Fields DEF IndexTypeOK, served, TimeInv, MetaInv
<1>1. ASSUME NEW d \in Data, ReplaceSource(d) PROVE MetaInv'
  <2>1. /\ source' \in Fingerprints
        /\ source'.data = d /\ source'.time = clock + 1 /\ clock' = clock + 1
        /\ clock + 1 \in Times /\ moved' /\ servedMoved'
        /\ UNCHANGED <<index, building, xpc, fingerprint, reading, pool, total, page, backdated>>
    BY <1>1, Replacing
  <2> QED BY <2>1, Numbers
<1>2. ASSUME NEW d \in Data, NEW t \in Times, RestoreSource(d, t) PROVE MetaInv'
  <2>1. /\ source' \in Fingerprints
        /\ source'.data = d /\ source'.time = t /\ t < clock /\ clock' = clock
        /\ moved' /\ servedMoved' /\ backdated'
        /\ UNCHANGED <<index, building, xpc, fingerprint, reading, pool, total, page>>
    BY <1>2, Restoring
  <2> QED BY <2>1, Numbers
<1>3. CASE RemoveIndex
  BY <1>3 DEF RemoveIndex
<1>4. CASE ProcessDies
  BY <1>4 DEF ProcessDies
<1>5. CASE LoadCatalog
  BY <1>5 DEF LoadCatalog
<1>6. CASE MatchIndex
  BY <1>6 DEF MatchIndex, Matches
<1>7. CASE AdoptIndex
  <2>1. /\ index \in IndexFiles /\ index.meta = Nothing /\ index.time >= source.time
        /\ index' \in IndexFiles /\ index'.rows = index.rows
        /\ \/ index'.meta \in {source, Unstamped} /\ index'.time = clock
           \/ index' = index
    BY <1>7, Adopting
  <2> QED BY <1>7, <2>1 DEF AdoptIndex, IsLegacyOf
<1>8. CASE FindNoMatch
  BY <1>8 DEF FindNoMatch
<1>9. CASE TakeFingerprint
  BY <1>9 DEF TakeFingerprint
<1>10. CASE StartBuild
  <2>1. /\ building' \in IndexFiles
        /\ building'.rows = InPart /\ building'.meta = Nothing /\ building'.time = clock
        /\ reading' = source.data /\ reading' \in Data
    BY <1>10, Starting
  <2> QED BY <1>10, <2>1 DEF StartBuild
<1>11. CASE CommitLastBatch
  BY <1>11 DEF CommitLastBatch
<1>12. CASE WriteMetadata
  BY <1>12 DEF WriteMetadata
<1>13. CASE InstallIndex
  BY <1>13 DEF InstallIndex, BuildInv, Stages
<1>14. CASE BuildFails
  BY <1>14 DEF BuildFails
<1>15. CASE OpenCatalog
  BY <1>15 DEF OpenCatalog, Connection
<1>16. CASE OpenFails
  BY <1>16 DEF OpenFails
<1>17. ASSUME NEW k \in Connections, Connect(k) PROVE MetaInv'
  BY <1>17 DEF Connect, Connection
<1>18. ASSUME NEW k \in Connections, CountMatches(k) PROVE MetaInv'
  BY <1>18 DEF CountMatches
<1>19. ASSUME NEW k \in Connections, ListItems(k) PROVE MetaInv'
  BY <1>19 DEF ListItems
<1>20. CASE UNCHANGED indexVars
  BY <1>20 DEF indexVars
<1> QED BY <1>1, <1>2, <1>3, <1>4, <1>5, <1>6, <1>7, <1>8, <1>9, <1>10, <1>11,
           <1>12, <1>13, <1>14, <1>15, <1>16, <1>17, <1>18, <1>19, <1>20 DEF IndexNext

\* A build goes from a fingerprint to what was read after it.
LEMMA BuildStep ==
  ASSUME IndexTypeOK, TimeInv, BuildInv, [IndexNext]_indexVars
  PROVE  BuildInv'
<1> USE TimesAreNat, NothingElse, Fields DEF IndexTypeOK, served, TimeInv, BuildInv, Stages
<1>1. ASSUME NEW d \in Data, ReplaceSource(d) PROVE BuildInv'
  <2>1. /\ source' \in Fingerprints
        /\ source'.data = d /\ source'.time = clock + 1 /\ clock' = clock + 1
        /\ clock + 1 \in Times /\ moved' /\ servedMoved'
        /\ UNCHANGED <<index, building, xpc, fingerprint, reading, pool, total, page, backdated>>
    BY <1>1, Replacing
  <2> QED BY <2>1, Numbers
<1>2. ASSUME NEW d \in Data, NEW t \in Times, RestoreSource(d, t) PROVE BuildInv'
  <2>1. /\ source' \in Fingerprints
        /\ source'.data = d /\ source'.time = t /\ t < clock /\ clock' = clock
        /\ moved' /\ servedMoved' /\ backdated'
        /\ UNCHANGED <<index, building, xpc, fingerprint, reading, pool, total, page>>
    BY <1>2, Restoring
  <2> QED BY <2>1, Numbers
<1>3. CASE RemoveIndex
  BY <1>3 DEF RemoveIndex
<1>4. CASE ProcessDies
  BY <1>4 DEF ProcessDies
<1>5. CASE LoadCatalog
  BY <1>5 DEF LoadCatalog
<1>6. CASE MatchIndex
  BY <1>6 DEF MatchIndex, Matches
<1>7. CASE AdoptIndex
  <2>1. /\ index \in IndexFiles /\ index.meta = Nothing /\ index.time >= source.time
        /\ index' \in IndexFiles /\ index'.rows = index.rows
        /\ \/ index'.meta \in {source, Unstamped} /\ index'.time = clock
           \/ index' = index
    BY <1>7, Adopting
  <2> QED BY <1>7, <2>1 DEF AdoptIndex, IsLegacyOf
<1>8. CASE FindNoMatch
  BY <1>8 DEF FindNoMatch
<1>9. CASE TakeFingerprint
  BY <1>9 DEF TakeFingerprint
<1>10. CASE StartBuild
  <2>1. /\ building' \in IndexFiles
        /\ building'.rows = InPart /\ building'.meta = Nothing /\ building'.time = clock
        /\ reading' = source.data /\ reading' \in Data
    BY <1>10, Starting
  <2> QED BY <1>10, <2>1 DEF StartBuild
<1>11. CASE CommitLastBatch
  BY <1>11 DEF CommitLastBatch, IndexFiles
<1>12. CASE WriteMetadata
  BY <1>12 DEF WriteMetadata, IndexFiles
<1>13. CASE InstallIndex
  BY <1>13 DEF InstallIndex
<1>14. CASE BuildFails
  BY <1>14 DEF BuildFails
<1>15. CASE OpenCatalog
  BY <1>15 DEF OpenCatalog, Connection
<1>16. CASE OpenFails
  BY <1>16 DEF OpenFails
<1>17. ASSUME NEW k \in Connections, Connect(k) PROVE BuildInv'
  BY <1>17 DEF Connect, Connection
<1>18. ASSUME NEW k \in Connections, CountMatches(k) PROVE BuildInv'
  BY <1>18 DEF CountMatches
<1>19. ASSUME NEW k \in Connections, ListItems(k) PROVE BuildInv'
  BY <1>19 DEF ListItems
<1>20. CASE UNCHANGED indexVars
  BY <1>20 DEF indexVars
<1> QED BY <1>1, <1>2, <1>3, <1>4, <1>5, <1>6, <1>7, <1>8, <1>9, <1>10, <1>11,
           <1>12, <1>13, <1>14, <1>15, <1>16, <1>17, <1>18, <1>19, <1>20 DEF IndexNext

\* An index that a load goes on with is of the source.
LEMMA OpeningStep ==
  ASSUME IndexTypeOK, MetaInv, BuildInv, IndexIsOfSource, [IndexNext]_indexVars
  PROVE  IndexIsOfSource'
<1> USE TimesAreNat, NothingElse, Fields DEF IndexTypeOK, served, IndexIsOfSource
<1>1. ASSUME NEW d \in Data, ReplaceSource(d) PROVE IndexIsOfSource'
  <2>1. /\ source' \in Fingerprints
        /\ source'.data = d /\ source'.time = clock + 1 /\ clock' = clock + 1
        /\ clock + 1 \in Times /\ moved' /\ servedMoved'
        /\ UNCHANGED <<index, building, xpc, fingerprint, reading, pool, total, page, backdated>>
    BY <1>1, Replacing
  <2> QED BY <2>1, Numbers
<1>2. ASSUME NEW d \in Data, NEW t \in Times, RestoreSource(d, t) PROVE IndexIsOfSource'
  <2>1. /\ source' \in Fingerprints
        /\ source'.data = d /\ source'.time = t /\ t < clock /\ clock' = clock
        /\ moved' /\ servedMoved' /\ backdated'
        /\ UNCHANGED <<index, building, xpc, fingerprint, reading, pool, total, page>>
    BY <1>2, Restoring
  <2> QED BY <2>1, Numbers
<1>3. CASE RemoveIndex
  BY <1>3 DEF RemoveIndex
<1>4. CASE ProcessDies
  BY <1>4 DEF ProcessDies
<1>5. CASE LoadCatalog
  BY <1>5 DEF LoadCatalog
<1>6. CASE MatchIndex
  BY <1>6, Numbers DEF MatchIndex, Matches, MetaInv
<1>7. CASE AdoptIndex
  <2>1. /\ index \in IndexFiles /\ index.meta = Nothing /\ index.time >= source.time
        /\ index' \in IndexFiles /\ index'.rows = index.rows
        /\ \/ index'.meta \in {source, Unstamped} /\ index'.time = clock
           \/ index' = index
    BY <1>7, Adopting
  <2> QED BY <1>7, <2>1 DEF AdoptIndex, IsLegacyOf, MetaInv
<1>8. CASE FindNoMatch
  BY <1>8 DEF FindNoMatch
<1>9. CASE TakeFingerprint
  BY <1>9 DEF TakeFingerprint
<1>10. CASE StartBuild
  <2>1. /\ building' \in IndexFiles
        /\ building'.rows = InPart /\ building'.meta = Nothing /\ building'.time = clock
        /\ reading' = source.data /\ reading' \in Data
    BY <1>10, Starting
  <2> QED BY <1>10, <2>1 DEF StartBuild, MetaInv
<1>11. CASE CommitLastBatch
  BY <1>11 DEF CommitLastBatch
<1>12. CASE WriteMetadata
  BY <1>12 DEF WriteMetadata
<1>13. CASE InstallIndex
  BY <1>13 DEF InstallIndex, BuildInv, Stages
<1>14. CASE BuildFails
  BY <1>14 DEF BuildFails
<1>15. CASE OpenCatalog
  BY <1>15 DEF OpenCatalog, Connection
<1>16. CASE OpenFails
  BY <1>16 DEF OpenFails
<1>17. ASSUME NEW k \in Connections, Connect(k) PROVE IndexIsOfSource'
  BY <1>17 DEF Connect, Connection
<1>18. ASSUME NEW k \in Connections, CountMatches(k) PROVE IndexIsOfSource'
  BY <1>18 DEF CountMatches
<1>19. ASSUME NEW k \in Connections, ListItems(k) PROVE IndexIsOfSource'
  BY <1>19 DEF ListItems
<1>20. CASE UNCHANGED indexVars
  BY <1>20 DEF indexVars
<1> QED BY <1>1, <1>2, <1>3, <1>4, <1>5, <1>6, <1>7, <1>8, <1>9, <1>10, <1>11,
           <1>12, <1>13, <1>14, <1>15, <1>16, <1>17, <1>18, <1>19, <1>20 DEF IndexNext

\* Connections made later join the same two files.
LEMMA ServedStep ==
  ASSUME IndexTypeOK, BuildInv, IndexIsOfSource, ServedInv, [IndexNext]_indexVars
  PROVE  ServedInv'
<1> USE TimesAreNat, NothingElse, Fields DEF IndexTypeOK, served, ServedInv, Own, InService
<1>1. ASSUME NEW d \in Data, ReplaceSource(d) PROVE ServedInv'
  <2>1. /\ source' \in Fingerprints
        /\ source'.data = d /\ source'.time = clock + 1 /\ clock' = clock + 1
        /\ clock + 1 \in Times /\ moved' /\ servedMoved'
        /\ UNCHANGED <<index, building, xpc, fingerprint, reading, pool, total, page, backdated>>
    BY <1>1, Replacing
  <2> QED BY <2>1, Numbers
<1>2. ASSUME NEW d \in Data, NEW t \in Times, RestoreSource(d, t) PROVE ServedInv'
  <2>1. /\ source' \in Fingerprints
        /\ source'.data = d /\ source'.time = t /\ t < clock /\ clock' = clock
        /\ moved' /\ servedMoved' /\ backdated'
        /\ UNCHANGED <<index, building, xpc, fingerprint, reading, pool, total, page>>
    BY <1>2, Restoring
  <2> QED BY <2>1, Numbers
<1>3. CASE RemoveIndex
  BY <1>3 DEF RemoveIndex
<1>4. CASE ProcessDies
  BY <1>4 DEF ProcessDies
<1>5. CASE LoadCatalog
  BY <1>5 DEF LoadCatalog
<1>6. CASE MatchIndex
  BY <1>6 DEF MatchIndex, Matches
<1>7. CASE AdoptIndex
  <2>1. /\ index \in IndexFiles /\ index.meta = Nothing /\ index.time >= source.time
        /\ index' \in IndexFiles /\ index'.rows = index.rows
        /\ \/ index'.meta \in {source, Unstamped} /\ index'.time = clock
           \/ index' = index
    BY <1>7, Adopting
  <2> QED BY <1>7, <2>1 DEF AdoptIndex, IsLegacyOf
<1>8. CASE FindNoMatch
  BY <1>8 DEF FindNoMatch
<1>9. CASE TakeFingerprint
  BY <1>9 DEF TakeFingerprint
<1>10. CASE StartBuild
  <2>1. /\ building' \in IndexFiles
        /\ building'.rows = InPart /\ building'.meta = Nothing /\ building'.time = clock
        /\ reading' = source.data /\ reading' \in Data
    BY <1>10, Starting
  <2> QED BY <1>10, <2>1 DEF StartBuild
<1>11. CASE CommitLastBatch
  BY <1>11 DEF CommitLastBatch
<1>12. CASE WriteMetadata
  BY <1>12 DEF WriteMetadata
<1>13. CASE InstallIndex
  BY <1>13 DEF InstallIndex, BuildInv, Stages
<1>14. CASE BuildFails
  BY <1>14 DEF BuildFails
<1>15. CASE OpenCatalog
  BY <1>15 DEF OpenCatalog, Connection, IndexIsOfSource
<1>16. CASE OpenFails
  BY <1>16 DEF OpenFails
<1>17. ASSUME NEW k \in Connections, Connect(k) PROVE ServedInv'
  BY <1>17 DEF Connect, Connection
<1>18. ASSUME NEW k \in Connections, CountMatches(k) PROVE ServedInv'
  BY <1>18 DEF CountMatches
<1>19. ASSUME NEW k \in Connections, ListItems(k) PROVE ServedInv'
  BY <1>19 DEF ListItems
<1>20. CASE UNCHANGED indexVars
  BY <1>20 DEF indexVars
<1> QED BY <1>1, <1>2, <1>3, <1>4, <1>5, <1>6, <1>7, <1>8, <1>9, <1>10, <1>11,
           <1>12, <1>13, <1>14, <1>15, <1>16, <1>17, <1>18, <1>19, <1>20 DEF IndexNext

---------------------------------------------------------------------------
LEMMA IndexInductive ==
  /\ IndexInit => IndexIInv
  /\ IndexIInv /\ [IndexNext]_indexVars => IndexIInv'
<1>1. IndexInit => IndexIInv
  <2> SUFFICES ASSUME IndexInit PROVE IndexIInv OBVIOUS
  <2> USE DEF IndexInit
  <2>1. source \in Fingerprints /\ source.time = 1 /\ source.data \in Data /\ 1 \in Times
    BY IndexAssumption DEF Fingerprints, Times
  <2>2. \/ index = Nothing
        \/ index \in IndexFiles /\ index.meta = Nothing /\ index.time = 1 /\ index.rows \in Data
    BY <2>1 DEF IndexFiles
  <2>3. IndexTypeOK BY <2>1, <2>2 DEF IndexTypeOK
  <2>4. TimeInv BY <2>1, <2>2, NothingElse DEF TimeInv
  <2>5. MetaInv BY <2>2, NothingElse DEF MetaInv
  <2>6. BuildInv /\ IndexIsOfSource BY DEF BuildInv, Stages, IndexIsOfSource
  <2>7. ServedInv BY DEF ServedInv, InService
  <2> QED BY <2>3, <2>4, <2>5, <2>6, <2>7 DEF IndexIInv
<1>2. IndexIInv /\ [IndexNext]_indexVars => IndexIInv'
  BY TypeStep, TimeStep, MetaStep, BuildStep, OpeningStep, ServedStep DEF IndexIInv
<1> QED BY <1>1, <1>2

\* The variables keep to their ranges: a type invariant for every instance.
THEOREM IndexTypeCorrect == IndexSpec => []IndexTypeOK
<1>1. IndexIInv => IndexTypeOK BY DEF IndexIInv
<1> QED BY <1>1, IndexInductive, PTL DEF IndexSpec

\* ensureCatalogSearchIndex never goes on with an index of another catalog than
\* the one it was called for, whatever builds were killed, failed or overtaken.
THEOREM IndexCorrect == IndexSpec => []IndexIsOfSource
<1>1. IndexIInv => IndexIsOfSource BY DEF IndexIInv
<1> QED BY <1>1, IndexInductive, PTL DEF IndexSpec

\* A search joins a catalog with its own index on every connection of the pool,
\* and both halves of a cached page are of that catalog.
THEOREM SearchesCorrect == IndexSpec => []SearchesAgree
<1>1. IndexIInv => SearchesAgree
  BY IndexAssumption DEF IndexIInv, IndexTypeOK, ServedInv, SearchesAgree, Own, Joins
<1> QED BY <1>1, IndexInductive, PTL DEF IndexSpec
=============================================================================
