\* A catalog, and an archive without a valid one, the operator keeping away.
SPECIFICATION FairSpec
CONSTANTS
  MaxRefs = 2
  Meddling = FALSE
  Archives = {2}
  Valid = {1}
  Matching <- OwnNames
  NoRow = NoRow
  NoFiles = NoFiles
  NoJob = NoJob
  NoPath = NoPath
  Configured = Configured
  Other = Other
PROPERTIES RecoveriesEnd RestartResumes
