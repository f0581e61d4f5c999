\* Loads one after another, with requests that query without end, failures,
\* shutdowns and restarts.
SPECIFICATION FairSpec
CONSTANTS
  DefaultPath = base
  ConfiguredName = configured
  NoHandle = NoHandle
  NoLabel = NoLabel
  Nobody = Nobody
  Closer = Closer
  Paths = {base, backup}
  Names = {configured}
  Loaders = {l1}
  Readers = {r1, r2}
  EditsInFlight = FALSE
  IndexCanFail = TRUE
  MaxOpens = 2
INVARIANTS SelectionSurvivesRestart ServedWasValidated
PROPERTIES LoadsFinish CloseFinishes
