\* Two requests at a time from three clients, of which two can be tracked.
SPECIFICATION Spec
CONSTANTS
  Clients = {c1, c2, c3}
  Requests = {q1, q2}
  Nobody = Nobody
  MaxFailures = 2
  MaxTracked = 2
  FixedSecret = TRUE
  TorOverlaps = FALSE
  MaxLogins = 2
  MaxLogouts = 2
  MaxRestarts = 1
SYMMETRY Symmetry
INVARIANTS TypeOK RevokedStaysRevoked GuessesBounded TableBounded
