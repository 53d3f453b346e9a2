------------------------------- MODULE Sales -------------------------------
(***************************************************************************)
(* A sales order, its shipments and its receivables (SalesOrderService,    *)
(* ShipmentService).                                                       *)
(*                                                                         *)
(* Shipping is a transaction that holds others: each item is credited to   *)
(* its line of the order in a transaction of its own, the event goes out   *)
(* at once, and only then the shipment is saved as shipped together with a *)
(* receivable.  The number of the receivable follows the last one in the   *)
(* snapshot of the transaction, and numbers are unique; they start again   *)
(* every day.  Amounts are left out, and so are the operations of the      *)
(* order that nothing calls (startProduction, updateStatus, ship, close,   *)
(* void).                                                                  *)
(*                                                                         *)
(* The rest is history: lines credited while another request had read      *)
(* them (lateLines), and shipments that were shipped and made PENDING      *)
(* again by a save of their whole row (reopened).                          *)
(***************************************************************************)
EXTENDS Requests, FiniteSetsExt

CONSTANTS Lines,      \* the lines of the order
          Shipments,  \* shipments of the order
          ItemsIn,    \* [Shipments -> Seq([line : Lines, qty : Nat])]
          Ordered,    \* quantities a line may be changed to
          MaxDay      \* bound: days

ASSUME ItemsAssumption ==
  ItemsIn \in [Shipments -> Seq([line : Lines, qty : Nat \ {0}])]
ASSUME ShipmentsAssumption == IsFiniteSet(Shipments)
ASSUME OrderedAssumption == Ordered \subseteq Nat \ {0}
ASSUME MaxDayAssumption == MaxDay \in Nat \ {0}

VARIABLES so, line, shipment, receivables, announced, day, lateLines, reopened

salesData ==
  <<so, line, shipment, receivables, announced, day, lateLines, reopened>>
salesVars == <<salesData, reqVars>>

-----------------------------------------------------------------------------
SoStatus == {"DRAFT", "CONFIRMED", "SHIPPED"}
LineStatus == {"OPEN", "PARTIAL", "CLOSED"}
ShipmentStatus == {"none", "PENDING", "SHIPPED", "SIGNED"}
Receivable == [day : 1..MaxDay, no : Nat, shipment : Shipments]
SoLine == [quantity : Nat, shipped : Nat, status : LineStatus]

SalesInit ==
  /\ so = "DRAFT"
  /\ line \in [Lines -> {[quantity |-> q, shipped |-> 0, status |-> "OPEN"] :
                           q \in Ordered}]
  /\ shipment = [s \in Shipments |-> "none"]
  /\ receivables = {}
  /\ announced = {}
  /\ day = 1
  /\ lateLines = {} /\ reopened = {}

-----------------------------------------------------------------------------
(* The order *)

ConfirmOrder(c) ==
  /\ so = "DRAFT"
  /\ Accept(c, [op |-> "confirmOrder", stage |-> "write"])
  /\ UNCHANGED salesData

\* The whole row is saved, whatever has become of it.
ConfirmOrderWrite(c) ==
  /\ At(c, "confirmOrder", "write")
  /\ so' = "CONFIRMED"
  /\ Reply(c)
  /\ UNCHANGED <<line, shipment, receivables, announced, day, lateLines, reopened>>

\* The status of the line stays as it is.
ChangeOrder(c, l, q) ==
  /\ so = "CONFIRMED"
  /\ Accept(c, [op |-> "changeOrder", stage |-> "write", line |-> l, qty |-> q])
  /\ UNCHANGED salesData

ChangeOrderWrite(c) ==
  /\ At(c, "changeOrder", "write")
  /\ line' = [line EXCEPT ![job[c].line].quantity = job[c].qty]
  /\ Reply(c)
  /\ UNCHANGED <<so, shipment, receivables, announced, day, lateLines, reopened>>

-----------------------------------------------------------------------------
(* Shipments *)

CreateShipment(s) ==
  /\ shipment[s] = "none"
  /\ Once
  /\ shipment' = [shipment EXCEPT ![s] = "PENDING"]
  /\ UNCHANGED <<so, line, receivables, announced, day, lateLines, reopened>>

LastNo(d) == Max({r.no : r \in {x \in receivables : x.day = d}} \cup {0})

\* The transaction begins: its snapshot has these numbers.
ShipBegin(c, s) ==
  /\ shipment[s] = "PENDING"
  /\ Accept(c, [op |-> "ship", stage |-> "item", shipment |-> s, item |-> 1,
                last |-> [d \in 1..MaxDay |-> LastNo(d)]])
  /\ UNCHANGED salesData

\* updateShippedQty reads the order and its lines ...
CreditRead(c) ==
  /\ At(c, "ship", "item")
  /\ job[c].item <= Len(ItemsIn[job[c].shipment])
  /\ Continue(c, [op |-> "ship", stage |-> "credit",
                  shipment |-> job[c].shipment, item |-> job[c].item,
                  last |-> job[c].last, lines |-> line])
  /\ UNCHANGED salesData

\* Variant: the quantity of the item replaces what was shipped before
CreditedByItem(row, q) ==
  [row EXCEPT !.shipped = q,
              !.status = IF q >= row.quantity THEN "CLOSED" ELSE "PARTIAL"]

Credited(row, q) ==
  LET total == row.shipped + q
  IN [row EXCEPT !.shipped = total,
                 !.status = IF total >= row.quantity THEN "CLOSED" ELSE "PARTIAL"]

\* ... and commits the columns it has changed: quantity and status of the
\* line, and the status of the order once all lines are closed.
CreditWrite(c) ==
  /\ At(c, "ship", "credit")
  /\ LET i == ItemsIn[job[c].shipment][job[c].item]
         row == Credited(job[c].lines[i.line], i.qty)
         seen == [job[c].lines EXCEPT ![i.line] = row]
     IN /\ line' = [line EXCEPT ![i.line].shipped = row.shipped,
                                ![i.line].status = row.status]
        /\ so' = IF \A l \in Lines : seen[l].status = "CLOSED"
                 THEN "SHIPPED" ELSE so
        /\ lateLines' =
             IF \E d \in Clients \ {c} : At(d, "ship", "credit")
                  /\ ItemsIn[job[d].shipment][job[d].item].line = i.line
             THEN lateLines \cup {i.line} ELSE lateLines
        /\ Continue(c, [op |-> "ship", stage |-> "item",
                        shipment |-> job[c].shipment, item |-> job[c].item + 1,
                        last |-> job[c].last])
  /\ UNCHANGED <<shipment, receivables, announced, day, reopened>>

\* The row of shipment s is locked by the transaction that ships it.
Locked(s) == \E d \in Clients : At(d, "ship", "receivable") /\ job[d].shipment = s

\* The shipment is saved, which locks its row, and the event goes out.
ShipSave(c) ==
  /\ At(c, "ship", "item")
  /\ job[c].item > Len(ItemsIn[job[c].shipment])
  /\ ~Locked(job[c].shipment)
  /\ announced' = announced \cup {job[c].shipment}
  /\ Continue(c, [job[c] EXCEPT !.stage = "receivable"])
  /\ UNCHANGED <<so, line, shipment, receivables, day, lateLines, reopened>>

\* Variant: the last number is read from the table as it is
NextNoNow(j) == LastNo(day) + 1

NextNo(j) == j.last[day] + 1

\* The receivable is inserted and the transaction commits, or the number is
\* taken and all of it but the credits and the event is rolled back.
ShipCommit(c) ==
  /\ At(c, "ship", "receivable")
  /\ LET s == job[c].shipment
         r == [day |-> day, no |-> NextNo(job[c]), shipment |-> s]
     IN IF \E x \in receivables : x.day = r.day /\ x.no = r.no
        THEN UNCHANGED <<shipment, receivables>>
        ELSE /\ shipment' = [shipment EXCEPT ![s] = "SHIPPED"]
             /\ receivables' = receivables \cup {r}
  /\ Reply(c)
  /\ UNCHANGED <<so, line, announced, day, lateLines, reopened>>

ConfirmDelivery(c, s) ==
  /\ shipment[s] = "SHIPPED"
  /\ Accept(c, [op |-> "deliver", stage |-> "write", shipment |-> s])
  /\ UNCHANGED salesData

ConfirmDeliveryWrite(c) ==
  /\ At(c, "deliver", "write")
  /\ ~Locked(job[c].shipment)
  /\ shipment' = [shipment EXCEPT ![job[c].shipment] = "SIGNED"]
  /\ Reply(c)
  /\ UNCHANGED <<so, line, receivables, announced, day, lateLines, reopened>>

\* updateLogistics reads the shipment, in whatever status it is ...
UpdateLogistics(c, s) ==
  /\ shipment[s] # "none"
  /\ Accept(c, [op |-> "logistics", stage |-> "write", shipment |-> s,
                from |-> shipment[s]])
  /\ UNCHANGED salesData

\* ... and saves all of it.
UpdateLogisticsWrite(c) ==
  /\ At(c, "logistics", "write")
  /\ ~Locked(job[c].shipment)
  /\ LET s == job[c].shipment
     IN /\ shipment' = [shipment EXCEPT ![s] = job[c].from]
        /\ reopened' = IF job[c].from = "PENDING" /\ shipment[s] # "PENDING"
                       THEN reopened \cup {s} ELSE reopened
  /\ Reply(c)
  /\ UNCHANGED <<so, line, receivables, announced, day, lateLines>>

Midnight ==
  /\ day < MaxDay
  /\ day' = day + 1
  /\ UNCHANGED <<so, line, shipment, receivables, announced, lateLines, reopened,
                 reqVars>>

\* The open transaction is rolled back; those that are committed stay.
SalesDie(c) ==
  /\ job[c] # NoJob
  /\ Reply(c)
  /\ UNCHANGED salesData

-----------------------------------------------------------------------------
SalesNext ==
  \/ \E c \in Clients :
       \/ ConfirmOrder(c) \/ ConfirmOrderWrite(c)
       \/ \E l \in Lines, q \in Ordered : ChangeOrder(c, l, q)
       \/ ChangeOrderWrite(c)
       \/ \E s \in Shipments :
            ShipBegin(c, s) \/ ConfirmDelivery(c, s) \/ UpdateLogistics(c, s)
       \/ CreditRead(c) \/ CreditWrite(c) \/ ShipSave(c) \/ ShipCommit(c)
       \/ ConfirmDeliveryWrite(c) \/ UpdateLogisticsWrite(c) \/ SalesDie(c)
  \/ \E s \in Shipments : CreateShipment(s)
  \/ Midnight

SalesSpec == ReqInit /\ SalesInit /\ [][SalesNext]_salesVars

-----------------------------------------------------------------------------
SalesTypeOK ==
  /\ so \in SoStatus
  /\ line \in [Lines -> SoLine]
  /\ shipment \in [Shipments -> ShipmentStatus]
  /\ receivables \subseteq Receivable
  /\ announced \subseteq Shipments
  /\ day \in 1..MaxDay
  /\ lateLines \subseteq Lines /\ reopened \subseteq Shipments

Charged == {r.shipment : r \in receivables}
Shipped == {s \in Shipments : shipment[s] \in {"SHIPPED", "SIGNED"}}

\* What shipment s brings of line l.
Brings(s, l) ==
  SumFunctionOnSet([i \in DOMAIN ItemsIn[s] |-> ItemsIn[s][i].qty],
                   {i \in DOMAIN ItemsIn[s] : ItemsIn[s][i].line = l})

(***************************************************************************)
(* A shipment that was shipped was announced and charged, and what was     *)
(* charged has been credited: the quantity of a line covers the shipments  *)
(* charged of it, although a shipment and its credits are transactions     *)
(* apart and requests die between them.  Lines credited by two requests at *)
(* the same time are excepted.  No shipment is charged twice in one day,   *)
(* although two requests may ship it at the same time (the second one      *)
(* fails on the number of its receivable), unless a save of its whole row  *)
(* had made it PENDING again.                                              *)
(***************************************************************************)
ShipmentsAreBooked ==
  /\ Shipped \subseteq Charged /\ Charged \subseteq announced
  /\ \A l \in Lines \ lateLines :
        SumFunctionOnSet([s \in Shipments |-> Brings(s, l)], Charged) <= line[l].shipped
  /\ \A r, x \in receivables :
       r.shipment = x.shipment /\ r.day = x.day => r = x \/ r.shipment \in reopened
=============================================================================
