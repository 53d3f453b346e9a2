SPECIFICATION Spec
CONSTANTS
  e1 = e1
  e2 = e2
  a1 = a1
  h1 = h1
  h2 = h2
  NoEvent = NoEvent
  Handlers = {h1, h2}
  Events = {e1, e2}
  Alerts = {}
  TenantBound = {}
  Priority <- SamePriority
  HandlersOf <- SomeHandlers
  MaxRetries = 2
  Take = 1
  Cap = 2
  Publishers = {p1}
  Ticks = {t1}
  Faults = {}
  MaxPublishes = 1
  MaxRequeues = 0
  MaxFailures = 2
INVARIANTS
  HandledAtMostOnce
