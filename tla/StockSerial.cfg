SPECIFICATION WhSpec
CONSTANTS
  Keys = {k1, k2}
  Clients = {c1}
  NoRow = NoRow
  NoLine = NoLine
  Amounts = {1, 2}
  Opening <- EmptyStock
  Wants = {3}
  MaxRequests = 4
  MaxCount = 1
SYMMETRY KeySymmetry
INVARIANTS
  WhTypeOK
  Balanced
  Covered
  AppliedAtMostOnce
CHECK_DEADLOCK FALSE
