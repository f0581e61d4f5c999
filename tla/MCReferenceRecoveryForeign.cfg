\* File names that fit no other reference.
SPECIFICATION Spec
CONSTANTS
  MaxRefs = 2
  Meddling = FALSE
  Archives = {2}
  Valid = {1, 2}
  Matching <- OwnNames
  NoRow = NoRow
  NoFiles = NoFiles
  NoJob = NoJob
  NoPath = NoPath
  Configured = Configured
  Other = Other
INVARIANT LoadedIsRequested
