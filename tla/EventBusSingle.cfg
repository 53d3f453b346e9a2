SPECIFICATION Spec
CONSTANTS
  e1 = e1
  e2 = e2
  a1 = a1
  h1 = h1
  h2 = h2
  NoEvent = NoEvent
  Handlers = {h1, h2}
  Events = {e1, e2, a1}
  Alerts = {a1}
  TenantBound = {h2}
  Priority <- AlertFirst
  HandlersOf <- SomeHandlers
  MaxRetries = 2
  Take = 2
  Cap = 1
  Publishers = {p1, p2}
  Ticks = {t1}
  Faults = {}
  MaxPublishes = 2
  MaxRequeues = 0
  MaxFailures = 2
INVARIANTS
  TypeOK
  GivenUpInTime
  EveryEventStored
PROPERTIES
  OutcomeIsFinal
