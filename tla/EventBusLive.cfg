SPECIFICATION FairSpec
CONSTANTS
  e1 = e1
  e2 = e2
  a1 = a1
  h1 = h1
  h2 = h2
  NoEvent = NoEvent
  Handlers = {h1, h2}
  Events = {e1, a1}
  Alerts = {a1}
  TenantBound = {}
  Priority <- AlertFirst
  HandlersOf <- SomeHandlers
  MaxRetries = 2
  Take = 1
  Cap = 2
  Publishers = {p1}
  Ticks = {t1, t2}
  Faults = {}
  MaxPublishes = 1
  MaxRequeues = 1
  MaxFailures = 2
PROPERTIES
  WaitingIsSettled
  FailureIsRecovered
