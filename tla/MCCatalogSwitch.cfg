\* Two concurrent loads, one request, two files that can change at any time.
SPECIFICATION Spec
CONSTANTS
  DefaultPath = base
  ConfiguredName = configured
  NoHandle = NoHandle
  NoLabel = NoLabel
  Nobody = Nobody
  Closer = Closer
  Paths = {base, backup}
  Names = {configured}
  Loaders = {l1, l2}
  Readers = {r1}
  EditsInFlight = TRUE
  IndexCanFail = TRUE
  MaxOpens = 1
SYMMETRY LoaderSymmetry
INVARIANTS TypeOK NoUseAfterClose OneCatalogPerQuery NoLeakedHandle
PROPERTY ImplementsServedCatalog
