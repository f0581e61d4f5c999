\* A catalog and an archive, restarts, and an operator who resets and removes.
SPECIFICATION Spec
CONSTANTS
  MaxRefs = 2
  Meddling = TRUE
  Archives = {2}
  Valid = {1, 2}
  Matching <- OwnNames
  NoRow = NoRow
  NoFiles = NoFiles
  NoJob = NoJob
  NoPath = NoPath
  Configured = Configured
  Other = Other
INVARIANTS TypeOK LoadedIsValid SelectionIsValid
PROPERTY RecoveredOnce
