SPECIFICATION Spec
CONSTANTS
  Orders = {w1, w2, w3}
  Clients = {c1, c2}
  NoOrder = NoOrder
  FromAps = TRUE
  Quantities = {2}
  Reports = {1, 2}
  MaxLevel = 3
  MaxRequests = 5
SYMMETRY Symmetry
INVARIANTS
  TypeOK
  CancelledHasNoWork
  CompletedIsReported
  AnnouncedWasMade
  OneFate
CHECK_DEADLOCK FALSE
