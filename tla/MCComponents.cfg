\* Two commands on two catalogs; two contents of a file and two connections; two
\* admin requests, two rows and an upload; two readers of two queries, with pages
\* of one or six of at most six results; the output of one download; a manifest of
\* two files, of at most three bytes; two admins, two connections and two records.
SPECIFICATION Spec
CONSTANTS
  Commands = {c1, c2}
  Sources = {s1, s2}
  LastSecond = 2
  Data = {d1, d2}
  MaxTime = 2
  Connections = {k1, k2}
  Nothing = Nothing
  Unstamped = Unstamped
  Requests = {r1, r2}
  Magnets = {m1}
  NoMagnet = NoMagnet
  Paths = {p1}
  NoPath = NoPath
  MaxSources = 2
  MaxUploads = 1
  Readers = {v1, v2}
  q1 = q1
  q2 = q2
  Queries = {q1, q2}
  TotalOf <- MCTotals
  Limits = {0, 6}
  MaxLimit = 6
  MaxOffset = 4
  MaxEntries = 2
  MaxBytes = 5
  Text <- MCText
  End = 0
  Full = 9
  n1 = n1
  n2 = n2
  n3 = n3
  n4 = n4
  f1 = f1
  f2 = f2
  Names = {n1, n2, n3, n4}
  Files = {f1, f2}
  Resolves <- MCResolves
  NoFile = NoFile
  MaxFiles = 2
  ManifestBytes = 3
  MaxLength = 3
  Admins = {a1, a2}
  Pool = {k1, k2}
  Nobody = Nobody
  MaxRecords = 2
SYMMETRY Symmetry
INVARIANTS
  InstalledIsWhole CatalogsKept SetupIsComplete
  IndexIsOfSource SearchesAgree
  UploadsAreWhole NoStrayFiles ActsOnWhatWasShown RecoveredIsListed
  CacheBounded BrowsingIsComplete
  ManifestIsBounded RunsHaveSources ResetGoesThrough
  ChunksDoNotMatter OutcomeStands ProgressIsShown
PROPERTIES EvictsOldestOnly SeenTogether
