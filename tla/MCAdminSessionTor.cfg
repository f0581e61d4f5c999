\* A logout during a settings update.
SPECIFICATION Spec
CONSTANTS
  Clients = {c1}
  Requests = {q1, q2}
  Nobody = Nobody
  MaxFailures = 2
  MaxTracked = 2
  FixedSecret = TRUE
  TorOverlaps = TRUE
  MaxLogins = 2
  MaxLogouts = 2
  MaxRestarts = 1
SYMMETRY Symmetry
INVARIANT RevokedStaysRevoked
