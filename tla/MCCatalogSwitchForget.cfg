\* Restarts while the search index of a valid selection cannot be built.
SPECIFICATION Spec
CONSTANTS
  DefaultPath = base
  ConfiguredName = configured
  NoHandle = NoHandle
  NoLabel = NoLabel
  Nobody = Nobody
  Closer = Closer
  Paths = {base, backup}
  Names = {configured}
  Loaders = {l1}
  Readers = {r1}
  EditsInFlight = FALSE
  IndexCanFail = TRUE
  MaxOpens = 1
PROPERTY ValidSelectionRemembered
