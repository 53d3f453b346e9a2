SPECIFICATION WhSpec
CONSTANTS
  Keys = {k1, k2}
  Clients = {c1, c2}
  NoRow = NoRow
  NoLine = NoLine
  Amounts = {1}
  Opening <- OneOfEach
  Wants = {2}
  MaxRequests = 2
  MaxCount = 0
INVARIANTS
  LedgerExplains
  AnnouncedIsIssued
CHECK_DEADLOCK FALSE
