----------------------------- MODULE MCServices -----------------------------
(***************************************************************************)
(* Small instances of the component services for TLC, in one run.  The     *)
(* components share no state but the requests in flight: a behaviour is    *)
(* one of the component that scene names, and the others stay as they are. *)
(***************************************************************************)
EXTENDS EcnExecution, Operations, Sales, Purchasing, Outsourcing, Vouchers,
        Numbering, WorkOrderTree, Equipment, SpareParts, Scheduling, WorkHours,
        Documents, Payables, Recalls, BillOfMaterial

CONSTANTS bom, routing,   \* of the material of the work order
          op1, op2, op3,  \* operations, the last two parallel
          line1, line2,   \* lines of an order
          doc1, doc2,     \* shipments, receipts and issues
          machine1, machine2,
          slot1, slot2,   \* rows of aps_schedule
          report1, report2, report3,
          weekday, sunday,
          supplier1, supplier2,
          material1, material2,
          order1, order2, order3,  \* work orders of a tree
          frame, wheel, bolt,     \* parts, the last one bought
          bomA, bomB, bomC        \* bills, the first of a product

KindIs == [o \in Objects |-> IF o = bom THEN "BOM" ELSE "ROUTING"]
ReleasedIs ==
  [w \in WorkOrders |-> [k \in {"BOM", "ROUTING"} |->
                           IF k = "BOM" THEN bom ELSE routing]]
SequenceIs == [o \in Ops |-> IF o = op1 THEN 10 ELSE 20]
TaskIsOn == [t \in Tasks |-> machine2]
OneOrder == [s \in Rows |-> 1]
HoursAre == [s \in Rows |-> IF s = slot1 THEN 2 ELSE 1]
AlternativeIs == [r \in Resources |-> IF r = machine1 THEN machine2 ELSE "none"]
DayIs == [r \in Reports |-> IF r = report3 THEN sunday ELSE weekday]
WorkedAre == [r \in Reports |-> IF r = report1 THEN 3 ELSE 1]
Asked == <<supplier1, supplier2>>
Reported ==
  {[output |-> 2, inputs |-> <<1>>, material |-> material1],
   [output |-> 3, inputs |-> <<2>>, material |-> material2]}

TakesHours == [w \in TreeOrders |-> IF w = order1 THEN 2 ELSE 1]
PlannedAt == [w \in TreeOrders |-> IF w = order2 THEN 1 ELSE 0]

Made == [m \in Parts |-> IF m = frame THEN bomB
                          ELSE IF m = wheel THEN bomC ELSE NoBom]
Standard == [m \in Parts |-> IF m = bolt THEN 1 ELSE 0]
Line(m, q) == [part |-> m, quantity |-> q]
Designs ==
  {[b \in Boms |-> IF b = bomA THEN top ELSE IF b = bomB THEN middle ELSE bottom] :
     top \in {<<Line(frame, 2), Line(wheel, 1)>>, <<Line(frame, 1), Line(bolt, 2)>>},
     middle \in {<<Line(wheel, 2)>>, <<Line(bolt, 2)>>},
     bottom \in {<<Line(bolt, 1)>>, <<Line(frame, 1), Line(bolt, 1)>>}}

\* The first document names both lines, the second one only the first line.
Entries(l) == [line |-> l, qty |-> 1]
DocumentHas ==
  [d \in {doc1, doc2} |-> IF d = doc1 THEN <<Entries(line1), Entries(line2)>>
                                      ELSE <<Entries(line1)>>]

VARIABLE scene

\* The requests of an instance, and its initial states; the components out of
\* the scene have one initial state.
Budget ==
  [ecn |-> 3, operations |-> 4, sales |-> 4, purchasing |-> 4,
   outsourcing |-> 6, vouchers |-> 4, numbering |-> 4, tree |-> 2,
   equipment |-> 3, parts |-> 4, scheduling |-> 3, hours |-> 4, documents |-> 6,
   payables |-> 4, recalls |-> 3, boms |-> 2]

Init ==
  /\ scene \in DOMAIN Budget
  /\ job = [c \in Clients |-> NoJob] /\ left = Budget[scene]
  /\ EcnInit /\ OpsInit /\ PartInit /\ NumInit /\ SlotInit /\ HourInit /\ RecallInit
  /\ SalesInit /\ (scene # "sales" => \A l \in Lines : line[l].quantity = 1)
  /\ PoInit /\ (scene # "purchasing" => \A l \in PoLines : poLine[l].quantity = 1)
  /\ OutInit /\ (scene # "outsourcing" => \A r \in OutReceipts : outReceipt[r].issue = doc1)
  /\ VoucherInit /\ (scene # "vouchers" => vouchers = << >>)
  /\ TreeInit /\ IF scene = "tree" THEN parent[order1] = NoParent
                  ELSE \A w \in TreeOrders : parent[w] = NoParent
  /\ EqInit /\ IF scene = "equipment"
                THEN \A f \in Faults : fault[f].status \in {"none", "REPORTED", "REPAIRING"}
                ELSE \A f \in Faults : fault[f] = [status |-> "none", on |-> First]
  /\ DocInit /\ (scene # "documents" => kind = "request")
  /\ BomInit /\ (scene # "boms" => bomLine = CHOOSE d \in Designs : TRUE)
  /\ PayInit /\ (scene # "payables" => recon.diff = 0)

\* Bound: the first of three requests or more is served alone; the others
\* overlap.  (A first one that dies at once leaves them the whole scene.)
FirstAlone ==
  Budget[scene] > 2 /\ left = Budget[scene] - 1 /\ left' # left
    => \A c \in Clients : job[c] = NoJob

\* The components out of the scene.
Rest(name, data) == IF scene = name THEN TRUE ELSE UNCHANGED data

Next ==
  /\ UNCHANGED scene
  /\ \/ scene = "ecn" /\ EcnNext
     \/ scene = "operations" /\ OpsNext
     \/ scene = "sales" /\ SalesNext
     \/ scene = "purchasing" /\ PoNext
     \/ scene = "outsourcing" /\ OutNext
     \/ scene = "vouchers" /\ VoucherNext
     \/ scene = "numbering" /\ NumNext
     \/ scene = "tree" /\ TreeNext
     \/ scene = "equipment" /\ EqNext
     \/ scene = "parts" /\ PartNext
     \/ scene = "scheduling" /\ SlotNext
     \/ scene = "hours" /\ HourNext
     \/ scene = "documents" /\ DocNext
     \/ scene = "payables" /\ PayNext
     \/ scene = "recalls" /\ RecallNext
     \/ scene = "boms" /\ BomNext
  /\ Rest("ecn", ecnData) /\ Rest("operations", opData)
  /\ Rest("sales", salesData) /\ Rest("purchasing", poData)
  /\ Rest("outsourcing", outData) /\ Rest("vouchers", voucherData)
  /\ Rest("numbering", numData) /\ Rest("tree", treeData)
  /\ Rest("equipment", eqData) /\ Rest("parts", partData)
  /\ Rest("scheduling", slotData) /\ Rest("hours", hourData)
  /\ Rest("documents", docData) /\ Rest("payables", payData)
  /\ Rest("recalls", recallData) /\ Rest("boms", bomData)
  /\ FirstAlone

vars == <<ecnData, opData, salesData, poData, outData, voucherData, numData,
          treeData, eqData, partData, slotData, hourData, docData, payData,
          recallData, bomData, reqVars, scene>>

Spec == Init /\ [][Next]_vars

Symmetry == Permutations(Clients)

-----------------------------------------------------------------------------
\* The component in the scene is in a state its module describes; the others
\* have not moved.
ServicesTypeOK ==
  /\ (scene = "ecn" => EcnTypeOK) /\ (scene = "operations" => OpsTypeOK)
  /\ (scene = "sales" => SalesTypeOK) /\ (scene = "purchasing" => PoTypeOK)
  /\ (scene = "outsourcing" => OutTypeOK) /\ (scene = "vouchers" => VoucherTypeOK)
  /\ (scene = "numbering" => NumTypeOK) /\ (scene = "tree" => TreeTypeOK)
  /\ (scene = "equipment" => EqTypeOK) /\ (scene = "parts" => PartTypeOK)
  /\ (scene = "scheduling" => SlotTypeOK) /\ (scene = "hours" => HourTypeOK)
  /\ (scene = "documents" => DocTypeOK) /\ (scene = "payables" => PayTypeOK)
  /\ (scene = "recalls" => RecallTypeOK) /\ (scene = "boms" => BomTypeOK)
=============================================================================
