SPECIFICATION WhSpec
CONSTANTS
  Keys = {k1}
  Clients = {c1}
  NoRow = NoRow
  NoLine = NoLine
  Amounts = {1, 2}
  Opening <- TwoOfEach
  Wants = {3}
  MaxRequests = 4
  MaxCount = 1
SYMMETRY KeySymmetry
INVARIANTS
  AdjustedIsApplied
CHECK_DEADLOCK FALSE
