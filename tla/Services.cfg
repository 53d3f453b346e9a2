SPECIFICATION Spec
CONSTANTS
  Clients = {c1, c2}
  MaxRequests = 4
  bom = bom
  routing = routing
  Objects = {bom, routing}
  KindOf <- KindIs
  ReleasedWith <- ReleasedIs
  Plans = {p1}
  WorkOrders = {w1}
  NoObject = NoObject
  Bodies = {"ACTIVE"}
  MaxVersion = 2
  op1 = op1
  op2 = op2
  op3 = op3
  Ops = {op1, op2, op3}
  SequenceOf <- SequenceIs
  line1 = line1
  line2 = line2
  doc1 = doc1
  doc2 = doc2
  Lines = {line1, line2}
  Shipments = {doc1, doc2}
  ItemsIn <- DocumentHas
  Ordered = {1, 2}
  MaxDay = 2
  PoLines = {line1, line2}
  Receipts = {doc1, doc2}
  Confirmed <- DocumentHas
  PoOrdered = {1, 2}
  Issues = {doc1, doc2}
  OutReceipts = {r1, r2}
  Planned = 2
  MaxOpening = 1
  MaxRetries = 3
  Edits = {1}
  order1 = order1
  order2 = order2
  order3 = order3
  TreeOrders = {order1, order2, order3}
  DurationOf <- TakesHours
  StartOf <- PlannedAt
  NoTime = NoTime
  NoParent = NoParent
  MaxLevel = 4
  machine1 = machine1
  machine2 = machine2
  Machines = {machine1, machine2}
  First = machine1
  Faults = {f1}
  Tasks = {t1}
  TaskOn <- TaskIsOn
  Changes = {"MAINTENANCE"}
  ByHand = {"BREAKDOWN"}
  Applications = {a1, a2}
  MaxQty = 2
  slot1 = slot1
  slot2 = slot2
  Rows = {slot1, slot2}
  OrderOf <- OneOrder
  Hours <- HoursAre
  Resources = {machine1, machine2}
  Alternative <- AlternativeIs
  FirstResource = machine2
  Starts = {0}
  Moments = {1}
  NewHours = {3}
  report1 = report1
  report2 = report2
  report3 = report3
  weekday = weekday
  sunday = sunday
  Reports = {report1, report2, report3}
  Days = {weekday, sunday}
  Sunday = sunday
  DayOf <- DayIs
  HoursOf <- WorkedAre
  Shift = 2
  supplier1 = supplier1
  supplier2 = supplier2
  Suppliers <- Asked
  Amount = 2
  Payments = {1, 2}
  Differences = {0, 1}
  material1 = material1
  material2 = material2
  Stocked = {1, 2, 3}
  Productions <- Reported
  frame = frame
  wheel = wheel
  bolt = bolt
  bomA = bomA
  bomB = bomB
  bomC = bomC
  Boms = {bomA, bomB, bomC}
  Parts = {frame, wheel, bolt}
  BomOf <- Made
  NoBom = NoBom
  StdCost <- Standard
  Structures <- Designs
  Quantities = {1, 2}
  MaxLines = 3
  MaxDepth = 1
  MaxNodes = 3
SYMMETRY Symmetry
INVARIANTS
  ServicesTypeOK
  CompletedMeansApplied
  OneActiveVersion
  ProgressIsKept
  ShipmentsAreBooked
  ReceiptsAreBooked
  OrderAddsUp
  ClosingLeavesNothing
  SerialsAreUnique
  TreeIsSound
  ResourceFollows
  StockIsBooked
  SlotsAreApart
  HoursAreSummed
  OneVerdict
  PaymentsAreKept
  RecallIsComplete
  RollupIsCost
PROPERTIES
  EndedPlansRest
CHECK_DEADLOCK FALSE
