\* Two overlapping loads of valid files; nothing fails.
SPECIFICATION Spec
CONSTANTS
  DefaultPath = base
  ConfiguredName = configured
  NoHandle = NoHandle
  NoLabel = NoLabel
  Nobody = Nobody
  Closer = Closer
  Paths = {base, backup}
  Names = {configured}
  Loaders = {l1, l2}
  Readers = {r1}
  EditsInFlight = FALSE
  IndexCanFail = FALSE
  MaxOpens = 1
INVARIANT SelectionSurvivesRestart
