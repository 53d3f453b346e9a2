SPECIFICATION WhSpec
CONSTANTS
  Keys = {k1}
  Clients = {c1, c2}
  NoRow = NoRow
  NoLine = NoLine
  Amounts = {1}
  Opening <- TwoOfEach
  Wants = {2}
  MaxRequests = 2
  MaxCount = 0
SYMMETRY KeySymmetry
INVARIANTS
  ConcurrencyIsConsistent
CHECK_DEADLOCK FALSE
