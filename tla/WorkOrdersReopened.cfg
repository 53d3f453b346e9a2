SPECIFICATION Spec
CONSTANTS
  Orders = {w1}
  Clients = {c1, c2}
  NoOrder = NoOrder
  FromAps = FALSE
  Quantities = {2}
  Reports = {2}
  MaxLevel = 3
  MaxRequests = 3
PROPERTIES
  ClosedStaysClosed
CHECK_DEADLOCK FALSE
