--------------------------- MODULE FinanceProofs ----------------------------
(***************************************************************************)
(* Theorems about sales and finance: sales orders, shipments and           *)
(* receivables (Sales), vouchers and the end of a period (Vouchers),       *)
(* payables and reconciliations (Payables), and the cost rollup of bills   *)
(* of material (BillOfMaterial), for any number of documents, bills and    *)
(* requests.                                                               *)
(***************************************************************************)
EXTENDS Sales, Vouchers, Payables, BillOfMaterial, SumProofs, SequenceTheorems

-----------------------------------------------------------------------------
(***************************************************************************)
(* Shipped quantities and receivables: what was shipped has been credited  *)
(* and charged.                                                            *)
(*                                                                         *)
(* Several requests may ship one shipment, and each credits all of its     *)
(* items. The invariant bounds what shipments that are charged have        *)
(* brought to a line, together with what the requests still under way have *)
(* credited for others, by the quantity of the line (LinesCover), a sum    *)
(* over shipments and over clients. The numbers of receivables of a day    *)
(* run from 1 on without a gap (NumbersRun), which is why a request that   *)
(* has read the last one cannot insert a second receivable for its         *)
(* shipment on the same day, unless it found the shipment PENDING again    *)
(* although it was charged: only a save of logistic data does that, and it *)
(* marks the shipment as reopened (ShippedIsCharged).                      *)
(***************************************************************************)

ConfirmOrderJobs == [op : {"confirmOrder"}, stage : {"write"}]
ChangeOrderJobs == [op : {"changeOrder"}, stage : {"write"}, line : Lines, qty : Nat]
ShipJobs == [op : {"ship"}, stage : {"item", "receivable"}, shipment : Shipments,
             item : Nat, last : [1..MaxDay -> Nat]]
CreditJobs == [op : {"ship"}, stage : {"credit"}, shipment : Shipments,
               item : Nat, last : [1..MaxDay -> Nat], lines : [Lines -> SoLine]]
DeliverJobs == [op : {"deliver"}, stage : {"write"}, shipment : Shipments]
LogisticsJobs == [op : {"logistics"}, stage : {"write"}, shipment : Shipments,
                  from : ShipmentStatus \ {"none"}]
SalesJobs == ConfirmOrderJobs \cup ChangeOrderJobs \cup ShipJobs \cup CreditJobs
             \cup DeliverJobs \cup LogisticsJobs \cup {NoJob}

CreditedLine(j) == ItemsIn[j.shipment][j.item].line

\* A receivable of day d has this number.
NumberTaken(d, n) == \E r \in receivables : r.day = d /\ r.no = n

\* A request that ships has credited the items before its own, read the line it
\* is about to credit, and numbers that were given before its shipment was charged.
ShipFits(j) ==
  /\ j.item > 0
  /\ j.stage = "receivable" => /\ j.item > Len(ItemsIn[j.shipment])
                               /\ j.shipment \in announced
  /\ j.stage = "credit" =>
       /\ j.item <= Len(ItemsIn[j.shipment])
       /\ CreditedLine(j) \notin lateLines =>
            j.lines[CreditedLine(j)].shipped = line[CreditedLine(j)].shipped
  /\ \A d \in 1..MaxDay : \A n \in 1..j.last[d] : NumberTaken(d, n)
  /\ j.shipment \notin reopened =>
       \A r \in receivables : r.shipment = j.shipment => j.last[r.day] < r.no

\* A request that found its shipment shipped.
Found(j) == j.op = "deliver" \/ (j.op = "logistics" /\ j.from # "PENDING")

SalesJobsFit ==
  \A c \in Clients : /\ job[c].op = "ship" => ShipFits(job[c])
                     /\ Found(job[c]) => job[c].shipment \in Charged

ShippedIsCharged ==
  /\ Shipped \subseteq Charged /\ Charged \subseteq announced
  /\ Charged \ reopened \subseteq Shipped

\* The numbers of a day run from 1 on, and each is given once.
NumbersRun ==
  /\ \A d \in 1..MaxDay : \E m \in Nat :
       /\ \A r \in receivables : r.day = d => r.no \in 1..m
       /\ \A n \in 1..m : NumberTaken(d, n)
  /\ \A r, x \in receivables : r.day = x.day /\ r.no = x.no => r = x

ChargedOnceADay ==
  \A r, x \in receivables :
    r.shipment = x.shipment /\ r.day = x.day => r = x \/ r.shipment \in reopened

\* What the items of shipment s before item n bring of line l, and what request
\* j has credited for a shipment that is not charged yet.
Qty(s) == [i \in DOMAIN ItemsIn[s] |-> ItemsIn[s][i].qty]
Before(s, n, l) == {i \in DOMAIN ItemsIn[s] : i < n /\ ItemsIn[s][i].line = l}
BringsBefore(s, n, l) == SumFunctionOnSet(Qty(s), Before(s, n, l))
CreditedBy(j, shipped, l) ==
  IF j.op = "ship" /\ j.shipment \notin shipped THEN BringsBefore(j.shipment, j.item, l) ELSE 0

BroughtBy(shipped, l) == SumFunctionOnSet([s \in Shipments |-> Brings(s, l)], shipped)
Underway(l) == SumFunction([c \in Clients |-> CreditedBy(job[c], Charged, l)])

\* The quantity of a line covers what was charged and what is being shipped.
LinesCover ==
  \A l \in Lines \ lateLines : BroughtBy(Charged, l) + Underway(l) <= line[l].shipped

SalesInv ==
  /\ SalesTypeOK
  /\ job \in [Clients -> SalesJobs]
  /\ SalesJobsFit /\ ShippedIsCharged /\ NumbersRun /\ ChargedOnceADay /\ LinesCover

-----------------------------------------------------------------------------
LEMMA JobsOfSales ==
  ASSUME NEW j \in SalesJobs
  PROVE  /\ j.op \in {"confirmOrder", "changeOrder", "ship", "deliver", "logistics",
                     "none"}
         /\ j.op = "confirmOrder" => j \in ConfirmOrderJobs
         /\ j.op = "changeOrder" => j \in ChangeOrderJobs
         /\ j.op = "ship" => /\ j.shipment \in Shipments /\ j.item \in Nat
                             /\ j.last \in [1..MaxDay -> Nat]
                             /\ j.stage = "credit" => j \in CreditJobs
                             /\ j.stage # "credit" => j \in ShipJobs
         /\ j.op = "deliver" => j \in DeliverJobs
         /\ j.op = "logistics" => j \in LogisticsJobs
BY DEF SalesJobs, ConfirmOrderJobs, ChangeOrderJobs, ShipJobs, CreditJobs, DeliverJobs,
   LogisticsJobs, NoJob

LEMMA NoSalesJob == NoJob \in SalesJobs /\ NoJob.op = "none" /\ ~Found(NoJob)
BY DEF NoJob, SalesJobs, Found

LEMMA ChargedIsShipments == ASSUME SalesInv PROVE Charged \subseteq Shipments
BY DEF SalesInv, SalesTypeOK, Receivable, Charged

(* The sums *)

LEMMA ElementsOfSequence ==
  ASSUME NEW S, NEW s \in Seq(S) PROVE \A i \in 1..Len(s) : s[i] \in S
OBVIOUS

LEMMA UpToIsFinite == ASSUME NEW n \in Nat PROVE IsFiniteSet(1..n)
BY FS_Interval

LEMMA ShipmentItems ==
  ASSUME NEW s \in Shipments
  PROVE  /\ DOMAIN ItemsIn[s] = 1..Len(ItemsIn[s]) /\ Len(ItemsIn[s]) \in Nat
         /\ IsFiniteSet(DOMAIN ItemsIn[s])
         /\ \A i \in DOMAIN ItemsIn[s] : /\ ItemsIn[s][i].line \in Lines
                                         /\ ItemsIn[s][i].qty \in Nat
<1>1. ItemsIn[s] \in Seq([line : Lines, qty : Nat \ {0}])
  BY ItemsAssumption
<1>2. DOMAIN ItemsIn[s] = 1..Len(ItemsIn[s]) /\ Len(ItemsIn[s]) \in Nat
  BY <1>1
<1>3. IsFiniteSet(1..Len(ItemsIn[s]))
  BY <1>2, UpToIsFinite
<1>4. \A i \in 1..Len(ItemsIn[s]) : ItemsIn[s][i] \in [line : Lines, qty : Nat \ {0}]
  BY <1>1, ElementsOfSequence
<1>5. \A x \in [line : Lines, qty : Nat \ {0}] : x.line \in Lines /\ x.qty \in Nat
  OBVIOUS
<1> QED
  BY <1>2, <1>3, <1>4, <1>5

LEMMA BringsBeforeIsNat ==
  ASSUME NEW s \in Shipments, NEW n, NEW l PROVE BringsBefore(s, n, l) \in Nat
<1>1. \A i \in Before(s, n, l) : Qty(s)[i] \in Nat
  BY ShipmentItems DEF Before, Qty
<1>2. IsFiniteSet(Before(s, n, l))
  BY ShipmentItems, FS_Subset DEF Before
<1> QED
  BY <1>1, <1>2, SumIsNat DEF BringsBefore

\* Nothing comes before the first item, ...
LEMMA BringsNone ==
  ASSUME NEW s \in Shipments, NEW l PROVE BringsBefore(s, 1, l) = 0
<1>1. Before(s, 1, l) = {}
  BY ShipmentItems DEF Before
<1> QED
  BY <1>1, SumOfNone DEF BringsBefore

\* ... all of it before the item after the last one, ...
LEMMA BringsAll ==
  ASSUME NEW s \in Shipments, NEW l, NEW n \in Nat, n > Len(ItemsIn[s])
  PROVE  BringsBefore(s, n, l) = Brings(s, l)
<1>1. Before(s, n, l) = {i \in DOMAIN ItemsIn[s] : ItemsIn[s][i].line = l}
  BY ShipmentItems DEF Before
<1> QED
  BY <1>1 DEF BringsBefore, Brings, Qty

\* ... and an item adds its quantity.
LEMMA BringsMore ==
  ASSUME NEW s \in Shipments, NEW l, NEW n \in DOMAIN ItemsIn[s]
  PROVE  BringsBefore(s, n + 1, l) = BringsBefore(s, n, l)
           + (IF ItemsIn[s][n].line = l THEN ItemsIn[s][n].qty ELSE 0)
<1>1. n \in Nat /\ \A i \in DOMAIN ItemsIn[s] : i < n + 1 <=> i < n \/ i = n
  BY ShipmentItems
<1>2. BringsBefore(s, n, l) \in Nat
  BY BringsBeforeIsNat
<1>3. CASE ItemsIn[s][n].line = l
  <2>1. Before(s, n + 1, l) = Before(s, n, l) \cup {n} /\ n \notin Before(s, n, l)
    BY <1>1, <1>3 DEF Before
  <2>2. /\ \A i \in Before(s, n, l) : Qty(s)[i] \in Int
        /\ Qty(s)[n] \in Int /\ Qty(s)[n] = ItemsIn[s][n].qty
    BY ShipmentItems DEF Before, Qty
  <2>3. IsFiniteSet(Before(s, n, l))
    BY ShipmentItems, FS_Subset DEF Before
  <2>4. BringsBefore(s, n + 1, l) = Qty(s)[n] + BringsBefore(s, n, l)
    BY <2>1, <2>2, <2>3, SumOfMore DEF BringsBefore
  <2> QED
    BY <1>2, <1>3, <2>2, <2>4
<1>4. CASE ItemsIn[s][n].line # l
  <2>1. Before(s, n + 1, l) = Before(s, n, l)
    BY <1>1, <1>4 DEF Before
  <2> QED
    BY <1>2, <1>4, <2>1 DEF BringsBefore
<1> QED
  BY <1>3, <1>4

LEMMA CreditedByIsNat ==
  ASSUME NEW j \in SalesJobs, NEW shipped, NEW l PROVE CreditedBy(j, shipped, l) \in Nat
BY BringsBeforeIsNat, JobsOfSales DEF CreditedBy

LEMMA BringsIsNat ==
  ASSUME NEW s \in Shipments, NEW l PROVE Brings(s, l) \in Nat
<1>1. Len(ItemsIn[s]) + 1 \in Nat /\ Len(ItemsIn[s]) + 1 > Len(ItemsIn[s])
  BY ShipmentItems
<1> QED
  BY <1>1, BringsAll, BringsBeforeIsNat

LEMMA BroughtByIsInt ==
  ASSUME NEW shipped, shipped \subseteq Shipments, NEW l PROVE BroughtBy(shipped, l) \in Int
<1>1. IsFiniteSet(shipped)
  BY ShipmentsAssumption, FS_Subset
<1>2. \A s \in shipped : [x \in Shipments |-> Brings(x, l)][s] \in Int
  BY BringsIsNat
<1> QED
  BY <1>1, <1>2, SumIsInt DEF BroughtBy

LEMMA BroughtByMore ==
  ASSUME NEW shipped, shipped \subseteq Shipments, NEW s \in Shipments, s \notin shipped, NEW l
  PROVE  BroughtBy(shipped \cup {s}, l) = Brings(s, l) + BroughtBy(shipped, l)
<1> DEFINE f == [x \in Shipments |-> Brings(x, l)]
<1>1. IsFiniteSet(shipped)
  BY ShipmentsAssumption, FS_Subset
<1>2. (\A x \in shipped : f[x] \in Int) /\ f[s] \in Int /\ f[s] = Brings(s, l)
  BY BringsIsNat
<1> HIDE DEF f
<1>3. SumFunctionOnSet(f, shipped \cup {s}) = f[s] + SumFunctionOnSet(f, shipped)
  BY <1>1, <1>2, SumOfMore
<1> QED
  BY <1>2, <1>3 DEF BroughtBy, f

\* What requests have credited, whichever shipments are shipped
LEMMA UnderwayIsInt ==
  ASSUME NEW jobs \in [Clients -> SalesJobs], NEW shipped, NEW l
  PROVE  SumFunction([d \in Clients |-> CreditedBy(jobs[d], shipped, l)]) \in Int
<1> DEFINE f == [d \in Clients |-> CreditedBy(jobs[d], shipped, l)]
<1>1. f \in [Clients -> Int]
  BY CreditedByIsNat
<1> HIDE DEF f
<1>2. SumFunction(f) \in Int
  BY <1>1, ClientsAssumption, SumOfFunction
<1> QED
  BY <1>2 DEF f

LEMMA UnderwayIsNat ==
  ASSUME NEW jobs \in [Clients -> SalesJobs], NEW shipped, NEW l
  PROVE  SumFunction([d \in Clients |-> CreditedBy(jobs[d], shipped, l)]) \in Nat
<1> DEFINE f == [d \in Clients |-> CreditedBy(jobs[d], shipped, l)]
<1>1. f \in [Clients -> Int] /\ \A d \in Clients : f[d] \in Nat
  BY CreditedByIsNat
<1> HIDE DEF f
<1>2. SumFunction(f) = SumFunctionOnSet(f, Clients) /\ SumFunctionOnSet(f, Clients) \in Nat
  BY <1>1, ClientsAssumption, SumOfFunction, SumIsNat
<1> QED
  BY <1>2 DEF f

LEMMA UnderwayShrinks ==
  ASSUME NEW jobs \in [Clients -> SalesJobs], NEW shipped, NEW more, shipped \subseteq more,
         NEW l
  PROVE  SumFunction([d \in Clients |-> CreditedBy(jobs[d], more, l)])
           <= SumFunction([d \in Clients |-> CreditedBy(jobs[d], shipped, l)])
<1> DEFINE f == [d \in Clients |-> CreditedBy(jobs[d], more, l)]
           h == [d \in Clients |-> CreditedBy(jobs[d], shipped, l)]
<1>1. /\ f \in [Clients -> Int] /\ h \in [Clients -> Int]
      /\ \A d \in Clients : CreditedBy(jobs[d], shipped, l) \in Nat
  BY CreditedByIsNat
<1>2. \A d \in Clients : f[d] \in Int /\ h[d] \in Int /\ f[d] <= h[d]
  BY <1>1 DEF CreditedBy
<1> HIDE DEF f, h
<1>3. /\ SumFunction(f) = SumFunctionOnSet(f, Clients)
      /\ SumFunction(h) = SumFunctionOnSet(h, Clients)
  BY <1>1, ClientsAssumption, SumOfFunction
<1>4. SumFunctionOnSet(f, Clients) <= SumFunctionOnSet(h, Clients)
  BY <1>2, ClientsAssumption, SumKeepsOrder
<1> QED
  BY <1>3, <1>4 DEF f, h

\* Client c goes on with j: what is under way moves as its credits do.
LEMMA UnderwayMoves ==
  ASSUME job \in [Clients -> SalesJobs], NEW c \in Clients, NEW j \in SalesJobs,
         job' = [job EXCEPT ![c] = j], NEW l, NEW shipped
  PROVE  /\ SumFunction([d \in Clients |-> CreditedBy(job[d], shipped, l)]) \in Int
         /\ SumFunction([d \in Clients |-> CreditedBy(job'[d], shipped, l)])
              = SumFunction([d \in Clients |-> CreditedBy(job[d], shipped, l)])
                - CreditedBy(job[c], shipped, l) + CreditedBy(j, shipped, l)
<1> DEFINE f == [d \in Clients |-> CreditedBy(job[d], shipped, l)]
           h == [d \in Clients |-> CreditedBy(job'[d], shipped, l)]
<1>1. job' \in [Clients -> SalesJobs]
  OBVIOUS
<1>2. f \in [Clients -> Int] /\ h \in [Clients -> Int]
  BY <1>1, CreditedByIsNat
<1>3. /\ f[c] = CreditedBy(job[c], shipped, l) /\ h[c] = CreditedBy(j, shipped, l)
      /\ \A d \in Clients : d # c => h[d] = f[d]
  OBVIOUS
<1> HIDE DEF f, h
<1>4. ChangesAt(Clients, f, h, c)
  BY <1>2, <1>3, ClientsAssumption DEF ChangesAt
<1>5. SumFunction(f) \in Int /\ SumFunction(h) = SumFunction(f) - f[c] + h[c]
  BY <1>4, SumChangesBy
<1> QED
  BY <1>3, <1>5 DEF f, h

LEMMA SalesInitInv == ReqInit /\ SalesInit => SalesInv
<1> SUFFICES ASSUME ReqInit, SalesInit PROVE SalesInv
  OBVIOUS
<1>1. /\ job = [c \in Clients |-> NoJob] /\ NoJob \in SalesJobs
      /\ line \in [Lines -> {[quantity |-> q, shipped |-> 0, status |-> "OPEN"] :
                               q \in Ordered}]
      /\ receivables = {} /\ Charged = {} /\ Shipped = {}
  BY NoSalesJob DEF ReqInit, SalesInit, Charged, Shipped
<1>2. \A l \in Lines : line[l] \in SoLine /\ line[l].shipped = 0
  BY <1>1, OrderedAssumption DEF SoLine, LineStatus
<1>3. \A c \in Clients : job[c].op = "none"
  BY <1>1 DEF NoJob
<1>4. SalesTypeOK
  <2>1. line \in [Lines -> SoLine]
    BY <1>1, <1>2
  <2> QED
    BY <2>1, MaxDayAssumption DEF SalesInit, SalesTypeOK, SoStatus, ShipmentStatus
<1>5. SalesJobsFit /\ ShippedIsCharged /\ ChargedOnceADay
  BY <1>1, <1>3 DEF SalesJobsFit, Found, ShippedIsCharged, ChargedOnceADay
<1>6. NumbersRun
  BY <1>1 DEF NumbersRun, NumberTaken
<1>7. LinesCover
  <2> SUFFICES ASSUME NEW l \in Lines
               PROVE  BroughtBy({}, l) = 0 /\ Underway(l) = 0
    BY <1>1, <1>2 DEF LinesCover
  <2>1. BroughtBy({}, l) = 0
    BY SumOfNone DEF BroughtBy
  <2>2. \A c \in Clients : CreditedBy(job[c], Charged, l) = 0
    BY <1>3 DEF CreditedBy
  <2> QED
    BY <2>1, <2>2, ClientsAssumption, SumOfZeros DEF Underway
<1> QED
  BY <1>1, <1>4, <1>5, <1>6, <1>7 DEF SalesInv

-----------------------------------------------------------------------------
(* The steps *)

\* The conditions of a request in the next state, when nothing is charged
LEMMA FitsStill ==
  ASSUME NEW j, ShipFits(j), UNCHANGED <<receivables, lateLines>>,
         reopened \subseteq reopened', announced \subseteq announced',
         j.op = "ship" /\ j.stage = "credit" => CreditedLine(j) \in Lines,
         j.op = "ship",
         \A l \in Lines : line'[l].shipped = line[l].shipped
  PROVE  ShipFits(j)'
BY DEF ShipFits, CreditedLine, NumberTaken

LEMMA CreditedLineIsLine ==
  ASSUME NEW j \in SalesJobs, j.op = "ship", j.item > 0, j.item <= Len(ItemsIn[j.shipment])
  PROVE  CreditedLine(j) \in Lines /\ j.item \in DOMAIN ItemsIn[j.shipment]
BY JobsOfSales, ShipmentItems DEF CreditedLine

\* What stays true as client c goes on with j, when nothing is credited or charged.
LEMMA SalesGoesOnWith ==
  ASSUME SalesInv, NEW c \in Clients, NEW j \in SalesJobs, job' = [job EXCEPT ![c] = j],
         SalesTypeOK', UNCHANGED <<receivables, lateLines>>, announced \subseteq announced',
         reopened \subseteq reopened',
         Shipped' \subseteq Charged, Charged \ reopened' \subseteq Shipped',
         \A l \in Lines : line'[l].shipped = line[l].shipped,
         j.op = "ship" => ShipFits(j)',
         Found(j) => j.shipment \in Charged,
         \A l \in Lines : CreditedBy(j, Charged, l) <= CreditedBy(job[c], Charged, l)
  PROVE  SalesInv'
<1>1. /\ job' \in [Clients -> SalesJobs]
      /\ job'[c] = j /\ \A d \in Clients \ {c} : job'[d] = job[d]
  BY DEF SalesInv
<1>2. SalesJobsFit'
  <2> SUFFICES ASSUME NEW d \in Clients
               PROVE  /\ job'[d].op = "ship" => ShipFits(job[d])'
                      /\ Found(job'[d]) => job'[d].shipment \in Charged
    BY DEF SalesJobsFit, Found, Charged
  <2>1. PICK k : k = job'[d]
    OBVIOUS
  <2>2. CASE d = c
    BY <1>1, <2>1, <2>2 DEF ShipFits, CreditedLine
  <2>3. CASE d # c
    <3>1. k = job[d] /\ k \in SalesJobs
      BY <1>1, <2>1, <2>3
    <3>2. /\ k.op = "ship" => ShipFits(k)
          /\ Found(k) => k.shipment \in Charged
      BY <3>1 DEF SalesInv, SalesJobsFit
    <3>3. k.op = "ship" /\ k.stage = "credit" => CreditedLine(k) \in Lines
      BY <3>1, <3>2, CreditedLineIsLine DEF ShipFits
    <3>4. k.op = "ship" => ShipFits(k)'
      BY <3>2, <3>3, FitsStill
    <3> QED
      BY <2>1, <3>2, <3>4 DEF ShipFits, CreditedLine
  <2> QED
    BY <2>2, <2>3
<1>3. ShippedIsCharged' /\ ChargedOnceADay' /\ Charged' = Charged
  <2>1. Charged' = Charged
    BY DEF Charged
  <2> QED
    BY <2>1 DEF SalesInv, ShippedIsCharged, ChargedOnceADay
<1>4. NumbersRun'
  BY DEF SalesInv, NumbersRun, NumberTaken
<1>5. LinesCover'
  <2> SUFFICES ASSUME NEW l \in Lines \ lateLines
               PROVE  BroughtBy(Charged, l)
                        + SumFunction([d \in Clients |-> CreditedBy(job'[d], Charged, l)])
                        <= line'[l].shipped
    BY <1>3 DEF LinesCover, Underway, BroughtBy, CreditedBy
  <2>1. BroughtBy(Charged, l) + Underway(l) <= line[l].shipped /\ line[l].shipped \in Nat
    BY DEF SalesInv, LinesCover, SalesTypeOK, SoLine
  <2>2. /\ Underway(l) \in Int
        /\ SumFunction([d \in Clients |-> CreditedBy(job'[d], Charged, l)])
             = Underway(l) - CreditedBy(job[c], Charged, l) + CreditedBy(j, Charged, l)
    BY UnderwayMoves DEF SalesInv, Underway
  <2>3. CreditedBy(job[c], Charged, l) \in Nat /\ CreditedBy(j, Charged, l) \in Nat
    BY CreditedByIsNat DEF SalesInv
  <2>4. BroughtBy(Charged, l) \in Int
    BY BroughtByIsInt, ChargedIsShipments
  <2> QED
    BY <2>1, <2>2, <2>3, <2>4
<1> QED
  BY <1>1, <1>2, <1>3, <1>4, <1>5 DEF SalesInv

\* The same when no shipment changes.
LEMMA SalesGoesOn ==
  ASSUME SalesInv, NEW c \in Clients, NEW j \in SalesJobs, job' = [job EXCEPT ![c] = j],
         SalesTypeOK', UNCHANGED <<shipment, receivables, lateLines, reopened>>,
         announced \subseteq announced',
         \A l \in Lines : line'[l].shipped = line[l].shipped,
         j.op = "ship" => ShipFits(j)',
         Found(j) => j.shipment \in Charged,
         \A l \in Lines : CreditedBy(j, Charged, l) <= CreditedBy(job[c], Charged, l)
  PROVE  SalesInv'
<1>1. Shipped' = Shipped /\ reopened' = reopened
  BY DEF Shipped
<1>2. Shipped' \subseteq Charged /\ Charged \ reopened' \subseteq Shipped'
  BY <1>1 DEF SalesInv, ShippedIsCharged
<1> QED
  BY <1>1, <1>2, SalesGoesOnWith

\* No request goes on.
LEMMA SalesRests ==
  ASSUME SalesInv, SalesTypeOK', Shipped' = Shipped,
         UNCHANGED <<job, line, receivables, announced, lateLines, reopened>>
  PROVE  SalesInv'
<1>1. SalesJobsFit'
  <2>1. job' = job /\ line' = line /\ receivables' = receivables
    OBVIOUS
  <2>2. \A d, n : NumberTaken(d, n)' <=> NumberTaken(d, n)
    BY <2>1 DEF NumberTaken
  <2>3. \A k : CreditedLine(k)' = CreditedLine(k)
    BY <2>1 DEF CreditedLine
  <2>4. \A k : ShipFits(k) => ShipFits(k)'
    BY <2>1, <2>2, <2>3 DEF ShipFits
  <2> QED
    BY <2>1, <2>4 DEF SalesInv, SalesJobsFit, Found, Charged
<1>2. ShippedIsCharged' /\ ChargedOnceADay' /\ NumbersRun'
  BY DEF SalesInv, ShippedIsCharged, Charged, ChargedOnceADay, NumbersRun, NumberTaken
<1>3. \A l : BroughtBy(Charged, l)' = BroughtBy(Charged, l) /\ Underway(l)' = Underway(l)
  BY DEF BroughtBy, Underway, Charged
<1>4. LinesCover'
  BY <1>3 DEF SalesInv, LinesCover
<1> QED
  BY <1>1, <1>2, <1>4 DEF SalesInv

LEMMA SalesTypesStay ==
  ASSUME SalesInv, so' \in SoStatus, UNCHANGED <<receivables, day, lateLines, reopened>>,
         line' \in [Lines -> SoLine], shipment' \in [Shipments -> ShipmentStatus],
         announced' \subseteq Shipments
  PROVE  SalesTypeOK'
BY DEF SalesInv, SalesTypeOK

LEMMA CreateShipmentKeeps ==
  ASSUME SalesInv, NEW s \in Shipments, CreateShipment(s) PROVE SalesInv'
<1>1. /\ shipment[s] = "none" /\ shipment' = [shipment EXCEPT ![s] = "PENDING"]
      /\ UNCHANGED <<so, line, receivables, announced, day, lateLines, reopened, job>>
  BY DEF CreateShipment, Once
<1>2. shipment' \in [Shipments -> ShipmentStatus] /\ Shipped' = Shipped
  BY <1>1 DEF SalesInv, SalesTypeOK, ShipmentStatus, Shipped
<1>3. SalesTypeOK'
  BY <1>1, <1>2 DEF SalesInv, SalesTypeOK
<1> QED
  BY <1>1, <1>2, <1>3, SalesRests

LEMMA MidnightKeeps == ASSUME SalesInv, Midnight PROVE SalesInv'
<1>1. /\ day < MaxDay /\ day' = day + 1
      /\ UNCHANGED <<so, line, shipment, receivables, announced, lateLines, reopened, job>>
  BY DEF Midnight, reqVars
<1>2. day' \in 1..MaxDay
  BY <1>1, MaxDayAssumption DEF SalesInv, SalesTypeOK
<1>3. SalesTypeOK' /\ Shipped' = Shipped
  BY <1>1, <1>2 DEF SalesInv, SalesTypeOK, Shipped
<1> QED
  BY <1>1, <1>3, SalesRests

\* A request that ships nothing has credited nothing.
LEMMA NothingCredited ==
  ASSUME SalesInv, NEW c \in Clients, NEW j \in SalesJobs, j.op # "ship"
  PROVE  \A l \in Lines : CreditedBy(j, Charged, l) <= CreditedBy(job[c], Charged, l)
<1> SUFFICES ASSUME NEW l \in Lines
             PROVE  CreditedBy(j, Charged, l) <= CreditedBy(job[c], Charged, l)
  OBVIOUS
<1>1. CreditedBy(j, Charged, l) = 0
  BY DEF CreditedBy
<1>2. CreditedBy(job[c], Charged, l) \in Nat
  BY CreditedByIsNat DEF SalesInv
<1> QED
  BY <1>1, <1>2

LEMMA OrderRequestKeeps ==
  ASSUME SalesInv, NEW c \in Clients, NEW j \in SalesJobs, j.op # "ship", ~Found(j),
         job' = [job EXCEPT ![c] = j],
         so' \in SoStatus, line' \in [Lines -> SoLine],
         \A l \in Lines : line'[l].shipped = line[l].shipped,
         UNCHANGED <<shipment, receivables, announced, day, lateLines, reopened>>
  PROVE  SalesInv'
<1>2. SalesTypeOK'
  BY SalesTypesStay DEF SalesInv, SalesTypeOK
<1>3. \A l \in Lines : CreditedBy(j, Charged, l) <= CreditedBy(job[c], Charged, l)
  BY NothingCredited
<1> QED
  BY <1>2, <1>3, SalesGoesOn

LEMMA ConfirmOrderKeeps ==
  ASSUME SalesInv, NEW c \in Clients, ConfirmOrder(c) \/ ConfirmOrderWrite(c) PROVE SalesInv'
<1>1. /\ so' \in SoStatus
      /\ UNCHANGED <<line, shipment, receivables, announced, day, lateLines, reopened>>
  BY DEF ConfirmOrder, ConfirmOrderWrite, salesData, SalesInv, SalesTypeOK, SoStatus
<1>2. line' \in [Lines -> SoLine] /\ \A l \in Lines : line'[l].shipped = line[l].shipped
  BY <1>1 DEF SalesInv, SalesTypeOK
<1>3. PICK j : /\ j \in SalesJobs /\ j.op # "ship" /\ ~Found(j)
               /\ job' = [job EXCEPT ![c] = j]
  <2>1. /\ [op |-> "confirmOrder", stage |-> "write"] \in SalesJobs
        /\ [op |-> "confirmOrder", stage |-> "write"].op = "confirmOrder"
    BY DEF SalesJobs, ConfirmOrderJobs
  <2> QED
    BY <2>1, NoSalesJob DEF Found, ConfirmOrder, ConfirmOrderWrite, Accept, Reply, Continue
<1> QED
  BY <1>1, <1>2, <1>3, OrderRequestKeeps

LEMMA ChangeOrderKeeps ==
  ASSUME SalesInv, NEW c \in Clients, NEW l \in Lines, NEW q \in Ordered, ChangeOrder(c, l, q)
  PROVE  SalesInv'
<1> DEFINE j == [op |-> "changeOrder", stage |-> "write", line |-> l, qty |-> q]
<1>1. /\ job' = [job EXCEPT ![c] = j]
      /\ UNCHANGED <<so, line, shipment, receivables, announced, day, lateLines, reopened>>
  BY DEF ChangeOrder, Accept, salesData
<1>2. j \in SalesJobs /\ j.op = "changeOrder" /\ ~Found(j)
  BY OrderedAssumption DEF SalesJobs, ChangeOrderJobs, Found
<1> HIDE DEF j
<1>3. so' \in SoStatus /\ line' \in [Lines -> SoLine]
      /\ \A k \in Lines : line'[k].shipped = line[k].shipped
  BY <1>1 DEF SalesInv, SalesTypeOK
<1> QED
  BY <1>1, <1>2, <1>3, OrderRequestKeeps

LEMMA ChangeOrderWriteKeeps ==
  ASSUME SalesInv, NEW c \in Clients, ChangeOrderWrite(c) PROVE SalesInv'
<1>1. PICK l, q : l = job[c].line /\ q = job[c].qty
  OBVIOUS
<1>2. /\ job' = [job EXCEPT ![c] = NoJob] /\ line' = [line EXCEPT ![l].quantity = q]
      /\ UNCHANGED <<so, shipment, receivables, announced, day, lateLines, reopened>>
      /\ job[c].op = "changeOrder"
  BY <1>1 DEF ChangeOrderWrite, Reply, Continue, At
<1>3. l \in Lines /\ q \in Nat
  BY <1>1, <1>2, JobsOfSales DEF SalesInv, ChangeOrderJobs
<1>4. line' \in [Lines -> SoLine] /\ \A k \in Lines : line'[k].shipped = line[k].shipped
  BY <1>2, <1>3 DEF SalesInv, SalesTypeOK, SoLine
<1>5. so' \in SoStatus
  BY <1>2 DEF SalesInv, SalesTypeOK
<1> QED
  BY <1>2, <1>4, <1>5, NoSalesJob, OrderRequestKeeps

LEMMA SalesDieKeeps == ASSUME SalesInv, NEW c \in Clients, SalesDie(c) PROVE SalesInv'
<1>1. /\ job' = [job EXCEPT ![c] = NoJob]
      /\ UNCHANGED <<so, line, shipment, receivables, announced, day, lateLines, reopened>>
  BY DEF SalesDie, Reply, Continue, salesData
<1>2. so' \in SoStatus /\ line' \in [Lines -> SoLine]
      /\ \A k \in Lines : line'[k].shipped = line[k].shipped
  BY <1>1 DEF SalesInv, SalesTypeOK
<1> QED
  BY <1>1, <1>2, NoSalesJob, OrderRequestKeeps

\* A request that found a shipment holds no number: it goes on, or it ends.
LEMMA FindingKeeps ==
  ASSUME SalesInv, NEW c \in Clients, NEW j \in SalesJobs, j.op # "ship",
         Found(j) => j.shipment \in Charged, job' = [job EXCEPT ![c] = j],
         UNCHANGED salesData
  PROVE  SalesInv'
<1>1. /\ SalesTypeOK' /\ \A l \in Lines : line'[l].shipped = line[l].shipped
      /\ UNCHANGED <<shipment, receivables, announced, lateLines, reopened>>
  BY DEF salesData, SalesInv, SalesTypeOK
<1>2. \A l \in Lines : CreditedBy(j, Charged, l) <= CreditedBy(job[c], Charged, l)
  BY NothingCredited
<1> QED
  BY <1>1, <1>2, SalesGoesOn

LEMMA ConfirmDeliveryKeeps ==
  ASSUME SalesInv, NEW c \in Clients, NEW s \in Shipments, ConfirmDelivery(c, s)
  PROVE  SalesInv'
<1> DEFINE j == [op |-> "deliver", stage |-> "write", shipment |-> s]
<1>1. job' = [job EXCEPT ![c] = j] /\ s \in Shipped /\ UNCHANGED salesData
  BY DEF ConfirmDelivery, Accept, Shipped
<1>2. j \in SalesJobs /\ j.op = "deliver" /\ j.shipment = s
  BY DEF SalesJobs, DeliverJobs
<1>3. s \in Charged
  BY <1>1 DEF SalesInv, ShippedIsCharged
<1> HIDE DEF j
<1> QED
  BY <1>1, <1>2, <1>3, FindingKeeps

LEMMA UpdateLogisticsKeeps ==
  ASSUME SalesInv, NEW c \in Clients, NEW s \in Shipments, UpdateLogistics(c, s)
  PROVE  SalesInv'
<1> DEFINE j == [op |-> "logistics", stage |-> "write", shipment |-> s,
                 from |-> shipment[s]]
<1>1. job' = [job EXCEPT ![c] = j] /\ shipment[s] # "none" /\ UNCHANGED salesData
  BY DEF UpdateLogistics, Accept
<1>2. shipment[s] \in ShipmentStatus
  BY DEF SalesInv, SalesTypeOK
<1>3. j \in SalesJobs /\ j.op = "logistics" /\ j.shipment = s /\ j.from = shipment[s]
  BY <1>1, <1>2 DEF SalesJobs, LogisticsJobs
<1>4. Found(j) => s \in Charged
  <2>1. Found(j) => s \in Shipped
    BY <1>1, <1>2, <1>3 DEF Found, Shipped, ShipmentStatus
  <2> QED
    BY <2>1 DEF SalesInv, ShippedIsCharged
<1> HIDE DEF j
<1> QED
  BY <1>1, <1>3, <1>4, FindingKeeps

\* A row that was found is saved.
LEMMA SavedRowKeeps ==
  ASSUME SalesInv, NEW c \in Clients, NEW s \in Shipments,
         NEW to \in ShipmentStatus \ {"none"},
         to # "PENDING" => s \in Charged,
         job' = [job EXCEPT ![c] = NoJob], shipment' = [shipment EXCEPT ![s] = to],
         reopened' = IF to = "PENDING" /\ shipment[s] # "PENDING"
                     THEN reopened \cup {s} ELSE reopened,
         UNCHANGED <<so, line, receivables, announced, day, lateLines>>
  PROVE  SalesInv'
<1>1. /\ shipment' \in [Shipments -> ShipmentStatus] /\ shipment'[s] = to
      /\ \A q \in Shipments \ {s} : shipment'[q] = shipment[q]
  BY DEF SalesInv, SalesTypeOK
<1>2. reopened \subseteq reopened' /\ reopened' \subseteq Shipments
  BY DEF SalesInv, SalesTypeOK
<1>3. SalesTypeOK' /\ \A l \in Lines : line'[l].shipped = line[l].shipped
  BY <1>1, <1>2 DEF SalesInv, SalesTypeOK
<1>4. Shipped \subseteq Charged /\ Charged \ reopened \subseteq Shipped
  BY DEF SalesInv, ShippedIsCharged
<1>5. Shipped' \subseteq Charged
  BY <1>1, <1>4 DEF Shipped
<1>6. Charged \ reopened' \subseteq Shipped'
  <2> SUFFICES ASSUME NEW q \in Charged, q \notin reopened' PROVE q \in Shipped'
    OBVIOUS
  <2>1. q \in Shipped /\ q \in Shipments
    BY <1>2, <1>4 DEF Shipped
  <2>2. CASE q # s
    BY <1>1, <2>1, <2>2 DEF Shipped
  <2>3. CASE q = s
    <3>1. to \in {"SHIPPED", "SIGNED"}
      BY <2>1, <2>3 DEF Shipped, ShipmentStatus
    <3> QED
      BY <1>1, <2>1, <2>3, <3>1 DEF Shipped
  <2> QED
    BY <2>2, <2>3
<1>7. \A l \in Lines : CreditedBy(NoJob, Charged, l) <= CreditedBy(job[c], Charged, l)
  BY NoSalesJob, NothingCredited
<1> QED
  BY <1>2, <1>3, <1>5, <1>6, <1>7, NoSalesJob, SalesGoesOnWith

LEMMA ConfirmDeliveryWriteKeeps ==
  ASSUME SalesInv, NEW c \in Clients, ConfirmDeliveryWrite(c) PROVE SalesInv'
<1>1. PICK s : s = job[c].shipment
  OBVIOUS
<1>2. /\ job' = [job EXCEPT ![c] = NoJob] /\ shipment' = [shipment EXCEPT ![s] = "SIGNED"]
      /\ UNCHANGED <<so, line, receivables, announced, day, lateLines, reopened>>
      /\ Found(job[c])
  BY <1>1 DEF ConfirmDeliveryWrite, Reply, Continue, At, Found
<1>3. s \in Charged /\ s \in Shipments /\ "SIGNED" \in ShipmentStatus \ {"none"}
  BY <1>1, <1>2, ChargedIsShipments DEF SalesInv, SalesJobsFit, ShipmentStatus
<1> QED
  BY <1>2, <1>3, SavedRowKeeps

LEMMA UpdateLogisticsWriteKeeps ==
  ASSUME SalesInv, NEW c \in Clients, UpdateLogisticsWrite(c) PROVE SalesInv'
<1>1. PICK s, to : s = job[c].shipment /\ to = job[c].from
  OBVIOUS
<1>2. /\ job' = [job EXCEPT ![c] = NoJob] /\ shipment' = [shipment EXCEPT ![s] = to]
      /\ reopened' = IF to = "PENDING" /\ shipment[s] # "PENDING"
                     THEN reopened \cup {s} ELSE reopened
      /\ UNCHANGED <<so, line, receivables, announced, day, lateLines>>
      /\ job[c].op = "logistics"
  BY <1>1 DEF UpdateLogisticsWrite, Reply, Continue, At
<1>3. s \in Shipments /\ to \in ShipmentStatus \ {"none"}
  BY <1>1, <1>2, JobsOfSales DEF SalesInv, LogisticsJobs
<1>4. to # "PENDING" => s \in Charged
  BY <1>1, <1>2 DEF SalesInv, SalesJobsFit, Found
<1> QED
  BY <1>2, <1>3, <1>4, SavedRowKeeps

\* The last number of a day: all from 1 up to it are taken.
LEMMA LastNumber ==
  ASSUME SalesInv, NEW d \in 1..MaxDay
  PROVE  LastNo(d) \in Nat /\ \A n \in 1..LastNo(d) : NumberTaken(d, n)
<1>1. PICK m \in Nat : /\ \A r \in receivables : r.day = d => r.no \in 1..m
                       /\ \A n \in 1..m : NumberTaken(d, n)
  BY DEF SalesInv, NumbersRun
<1>2. {r.no : r \in {x \in receivables : x.day = d}} \cup {0} = 0..m
  BY <1>1 DEF NumberTaken
<1>3. Max(0..m) = m
  BY DEF Max
<1>4. LastNo(d) = m
  BY <1>2, <1>3 DEF LastNo
<1> QED
  BY <1>1, <1>4

LEMMA ShipBeginKeeps ==
  ASSUME SalesInv, NEW c \in Clients, NEW s \in Shipments, ShipBegin(c, s) PROVE SalesInv'
<1>1. PICK last : last = [d \in 1..MaxDay |-> LastNo(d)]
  OBVIOUS
<1> DEFINE j == [op |-> "ship", stage |-> "item", shipment |-> s, item |-> 1, last |-> last]
<1>2. /\ job' = [job EXCEPT ![c] = j] /\ shipment[s] = "PENDING"
      /\ UNCHANGED <<so, line, shipment, receivables, announced, day, lateLines, reopened>>
  BY <1>1 DEF ShipBegin, Accept, salesData
<1>3. last \in [1..MaxDay -> Nat] /\ \A d \in 1..MaxDay : \A n \in 1..last[d] : NumberTaken(d, n)
  BY <1>1, LastNumber
<1>4. /\ j \in SalesJobs /\ j.op = "ship" /\ j.shipment = s /\ j.stage = "item"
      /\ j.item = 1 /\ j.last = last
  BY <1>3 DEF SalesJobs, ShipJobs
<1> HIDE DEF j
<1>5. s \notin reopened => \A r \in receivables : r.shipment # s
  <2>1. s \notin Shipped
    BY <1>2 DEF Shipped
  <2>2. s \notin reopened => s \notin Charged
    BY <2>1 DEF SalesInv, ShippedIsCharged
  <2> QED
    BY <2>2 DEF Charged
<1>6. ShipFits(j)'
  BY <1>2, <1>3, <1>4, <1>5 DEF ShipFits, NumberTaken
<1>7. SalesTypeOK' /\ \A k \in Lines : line'[k].shipped = line[k].shipped
  BY <1>2 DEF SalesInv, SalesTypeOK
<1>8. \A l \in Lines : CreditedBy(j, Charged, l) <= CreditedBy(job[c], Charged, l)
  <2> SUFFICES ASSUME NEW l \in Lines
               PROVE  CreditedBy(j, Charged, l) <= CreditedBy(job[c], Charged, l)
    OBVIOUS
  <2>1. CreditedBy(j, Charged, l) = 0
    BY <1>4, BringsNone DEF CreditedBy
  <2>2. CreditedBy(job[c], Charged, l) \in Nat
    BY CreditedByIsNat DEF SalesInv
  <2> QED
    BY <2>1, <2>2
<1>9. ~Found(j)
  BY <1>4 DEF Found
<1> QED
  BY <1>2, <1>4, <1>6, <1>7, <1>8, <1>9, SalesGoesOn

\* A request that ships goes on to another stage of the same item.
LEMMA ShipGoesOn ==
  ASSUME SalesInv, NEW c \in Clients, NEW j \in SalesJobs, job[c].op = "ship",
         j.op = "ship", j.shipment = job[c].shipment, j.item = job[c].item,
         j.last = job[c].last, job' = [job EXCEPT ![c] = j],
         j.stage = "receivable" => /\ j.item > Len(ItemsIn[j.shipment])
                                   /\ j.shipment \in announced',
         j.stage = "credit" => /\ j.item <= Len(ItemsIn[j.shipment])
                               /\ j.lines = line,
         announced \subseteq announced', announced' \subseteq Shipments,
         UNCHANGED <<so, line, shipment, receivables, day, lateLines, reopened>>
  PROVE  SalesInv'
<1>1. PICK k : k = job[c]
  OBVIOUS
<1>2. ShipFits(k) /\ k.op = "ship"
  BY <1>1 DEF SalesInv, SalesJobsFit
<1>3. ShipFits(j)'
  BY <1>1, <1>2 DEF ShipFits, CreditedLine, NumberTaken
<1>4. SalesTypeOK' /\ \A l \in Lines : line'[l].shipped = line[l].shipped
  BY DEF SalesInv, SalesTypeOK
<1>5. \A l \in Lines : CreditedBy(j, Charged, l) <= CreditedBy(job[c], Charged, l)
  <2> SUFFICES ASSUME NEW l \in Lines
               PROVE  CreditedBy(j, Charged, l) <= CreditedBy(job[c], Charged, l)
    OBVIOUS
  <2>1. CreditedBy(j, Charged, l) = CreditedBy(job[c], Charged, l)
    BY DEF CreditedBy
  <2>2. CreditedBy(j, Charged, l) \in Nat
    BY CreditedByIsNat
  <2> QED
    BY <2>1, <2>2
<1>6. ~Found(j)
  BY DEF Found
<1> QED
  BY <1>3, <1>4, <1>5, <1>6, SalesGoesOn

LEMMA CreditReadKeeps == ASSUME SalesInv, NEW c \in Clients, CreditRead(c) PROVE SalesInv'
<1> DEFINE j == [op |-> "ship", stage |-> "credit",
                 shipment |-> job[c].shipment, item |-> job[c].item,
                 last |-> job[c].last, lines |-> line]
<1>1. /\ job[c].op = "ship" /\ job' = [job EXCEPT ![c] = j]
      /\ job[c].item <= Len(ItemsIn[job[c].shipment])
      /\ UNCHANGED <<so, line, shipment, receivables, announced, day, lateLines, reopened>>
  BY DEF CreditRead, At, Continue, salesData
<1>2. /\ j.op = "ship" /\ j.stage = "credit" /\ j.shipment = job[c].shipment
      /\ j.item = job[c].item /\ j.last = job[c].last /\ j.lines = line
  OBVIOUS
<1>3. /\ job[c].shipment \in Shipments /\ job[c].item \in Nat
      /\ job[c].last \in [1..MaxDay -> Nat] /\ line \in [Lines -> SoLine]
  BY <1>1, JobsOfSales DEF SalesInv, SalesTypeOK
<1>4. j \in SalesJobs
  BY <1>3 DEF SalesJobs, CreditJobs
<1>5. announced' \subseteq Shipments
  BY <1>1 DEF SalesInv, SalesTypeOK
<1> HIDE DEF j
<1> QED
  BY <1>1, <1>2, <1>4, <1>5, ShipGoesOn

LEMMA ShipSaveKeeps == ASSUME SalesInv, NEW c \in Clients, ShipSave(c) PROVE SalesInv'
<1> DEFINE j == [job[c] EXCEPT !.stage = "receivable"]
<1>1. /\ job[c].op = "ship" /\ job[c].stage = "item" /\ job' = [job EXCEPT ![c] = j]
      /\ job[c].item > Len(ItemsIn[job[c].shipment])
      /\ announced' = announced \cup {job[c].shipment}
      /\ UNCHANGED <<so, line, shipment, receivables, day, lateLines, reopened>>
  BY DEF ShipSave, At, Continue
<1>2. job[c] \in ShipJobs
  BY <1>1, JobsOfSales DEF SalesInv
<1>3. /\ j \in ShipJobs /\ j.op = "ship" /\ j.stage = "receivable"
      /\ j.shipment = job[c].shipment /\ j.item = job[c].item /\ j.last = job[c].last
  BY <1>2 DEF ShipJobs
<1>4. j \in SalesJobs
  BY <1>3 DEF SalesJobs
<1>5. announced' \subseteq Shipments
  BY <1>1, <1>2 DEF SalesInv, SalesTypeOK, ShipJobs
<1> HIDE DEF j
<1> QED
  BY <1>1, <1>3, <1>4, <1>5, ShipGoesOn

\* The row of a line that is credited, and the columns that are written
LEMMA CreditedRow ==
  ASSUME NEW row \in SoLine, NEW q \in Nat
  PROVE  /\ Credited(row, q).shipped = row.shipped + q
         /\ Credited(row, q).status \in LineStatus
BY DEF Credited, SoLine, LineStatus

WritesLine(f, h, l, a, st) ==
  /\ f \in [Lines -> SoLine] /\ l \in Lines /\ a \in Nat /\ st \in LineStatus
  /\ h = [f EXCEPT ![l].shipped = a, ![l].status = st]

LEMMA WrittenLine ==
  ASSUME NEW f, NEW h, NEW l, NEW a, NEW st, WritesLine(f, h, l, a, st)
  PROVE  /\ h \in [Lines -> SoLine]
         /\ \A k \in Lines \ {l} : h[k] = f[k]
         /\ h[l].shipped = a
BY DEF WritesLine, SoLine

LEMMA CreditWriteKeeps == ASSUME SalesInv, NEW c \in Clients, CreditWrite(c) PROVE SalesInv'
<1>1. PICK s, n, l, q, lines, last :
        /\ s = job[c].shipment /\ n = job[c].item
        /\ l = ItemsIn[s][n].line /\ q = ItemsIn[s][n].qty
        /\ lines = job[c].lines /\ last = job[c].last
  OBVIOUS
<1> DEFINE j == [op |-> "ship", stage |-> "item", shipment |-> s, item |-> n + 1, last |-> last]
<1>2. /\ job[c].op = "ship" /\ job[c].stage = "credit" /\ job[c] \in CreditJobs
      /\ ShipFits(job[c])
  BY JobsOfSales DEF CreditWrite, At, SalesInv, SalesJobsFit
<1>3. /\ s \in Shipments /\ n \in DOMAIN ItemsIn[s] /\ n \in Nat /\ l \in Lines /\ q \in Nat
      /\ lines \in [Lines -> SoLine] /\ last \in [1..MaxDay -> Nat]
      /\ CreditedLine(job[c]) = l
  <2>1. /\ s \in Shipments /\ n \in Nat /\ n > 0 /\ n <= Len(ItemsIn[s])
        /\ lines \in [Lines -> SoLine] /\ last \in [1..MaxDay -> Nat]
    BY <1>1, <1>2 DEF CreditJobs, ShipFits
  <2>2. n \in DOMAIN ItemsIn[s]
    BY <2>1, ShipmentItems
  <2> QED
    BY <1>1, <2>1, <2>2, ShipmentItems DEF CreditedLine
<1>4. lines[l].shipped \in Nat
  BY <1>3 DEF SoLine
<1>5. PICK row : row = Credited(lines[l], q)
  OBVIOUS
<1>6. row.shipped = lines[l].shipped + q /\ row.status \in LineStatus
  BY <1>3, <1>5, CreditedRow
<1>7. /\ line' = [line EXCEPT ![l].shipped = row.shipped, ![l].status = row.status]
      /\ so' = "SHIPPED" \/ so' = so
      /\ lateLines' =
           IF \E d \in Clients \ {c} : At(d, "ship", "credit")
                /\ ItemsIn[job[d].shipment][job[d].item].line = l
           THEN lateLines \cup {l} ELSE lateLines
      /\ job' = [job EXCEPT ![c] = j]
      /\ UNCHANGED <<shipment, receivables, announced, day, reopened>>
  BY <1>1, <1>5 DEF CreditWrite, Continue
<1>8. /\ line' \in [Lines -> SoLine] /\ \A k \in Lines \ {l} : line'[k] = line[k]
      /\ line'[l].shipped = lines[l].shipped + q
  <2>1. PICK f, h, a, st : f = line /\ h = line' /\ a = row.shipped /\ st = row.status
    OBVIOUS
  <2>2. WritesLine(f, h, l, a, st)
    BY <1>3, <1>4, <1>6, <1>7, <2>1 DEF WritesLine, SalesInv, SalesTypeOK
  <2>3. h \in [Lines -> SoLine] /\ (\A k \in Lines \ {l} : h[k] = f[k]) /\ h[l].shipped = a
    BY <2>2, WrittenLine
  <2> QED
    BY <1>6, <2>1, <2>3
<1>9. /\ j \in SalesJobs /\ j.op = "ship" /\ j.stage = "item" /\ j.item = n + 1
      /\ j.shipment = s /\ j.last = last
  BY <1>3 DEF SalesJobs, ShipJobs
<1> HIDE DEF j
<1>10. /\ job' \in [Clients -> SalesJobs] /\ job'[c] = j
       /\ \A d \in Clients \ {c} : job'[d] = job[d]
  BY <1>7, <1>9 DEF SalesInv
<1>11. SalesTypeOK' /\ Charged' = Charged /\ Shipped' = Shipped /\ lateLines \subseteq lateLines'
  BY <1>3, <1>7, <1>8 DEF SalesInv, SalesTypeOK, SoStatus, Charged, Shipped
<1>12. SalesJobsFit'
  <2> SUFFICES ASSUME NEW d \in Clients
               PROVE  /\ job'[d].op = "ship" => ShipFits(job[d])'
                      /\ Found(job'[d]) => job'[d].shipment \in Charged
    BY <1>11 DEF SalesJobsFit, Found
  <2>1. CASE d = c
    <3>1. /\ \A e \in 1..MaxDay : \A x \in 1..last[e] : NumberTaken(e, x)
          /\ s \notin reopened =>
               \A r \in receivables : r.shipment = s => last[r.day] < r.no
      BY <1>1, <1>2 DEF ShipFits
    <3>2. ShipFits(j)'
      BY <1>3, <1>7, <1>9, <3>1 DEF ShipFits, NumberTaken
    <3> QED
      BY <1>9, <1>10, <2>1, <3>2 DEF ShipFits, CreditedLine, Found
  <2>2. CASE d # c
    <3>1. PICK k : k = job[d]
      OBVIOUS
    <3>2. /\ k \in SalesJobs /\ job'[d] = k
          /\ k.op = "ship" => ShipFits(k)
          /\ Found(k) => k.shipment \in Charged
      BY <1>10, <2>2, <3>1 DEF SalesInv, SalesJobsFit
    <3>3. k.op = "ship" /\ k.stage = "credit" =>
            /\ CreditedLine(k) \in Lines
            /\ CreditedLine(k) = l => l \in lateLines'
      <4> SUFFICES ASSUME k.op = "ship", k.stage = "credit"
                   PROVE  /\ CreditedLine(k) \in Lines
                          /\ CreditedLine(k) = l => l \in lateLines'
        OBVIOUS
      <4>1. CreditedLine(k) \in Lines
        BY <3>2, CreditedLineIsLine DEF ShipFits
      <4>2. At(d, "ship", "credit") /\ CreditedLine(k) = ItemsIn[job[d].shipment][job[d].item].line
        BY <3>1 DEF At, CreditedLine
      <4> QED
        BY <1>7, <2>2, <4>1, <4>2
    <3>4. k.op = "ship" => ShipFits(k)'
      <4> SUFFICES ASSUME k.op = "ship" PROVE ShipFits(k)'
        OBVIOUS
      <4>1. k.stage = "credit" => /\ k.item <= Len(ItemsIn[k.shipment])
                                  /\ CreditedLine(k) \notin lateLines' =>
                                       k.lines[CreditedLine(k)].shipped
                                         = line'[CreditedLine(k)].shipped
        BY <1>8, <1>11, <3>2, <3>3 DEF ShipFits
      <4> QED
        BY <1>7, <3>2, <4>1 DEF ShipFits, CreditedLine, NumberTaken
    <3> QED
      BY <3>1, <3>2, <3>4 DEF ShipFits, CreditedLine
  <2> QED
    BY <2>1, <2>2
<1>13. ShippedIsCharged' /\ ChargedOnceADay' /\ NumbersRun'
  BY <1>7, <1>11 DEF SalesInv, ShippedIsCharged, ChargedOnceADay, NumbersRun, NumberTaken
<1>14. LinesCover'
  <2> SUFFICES ASSUME NEW m \in Lines \ lateLines'
               PROVE  BroughtBy(Charged, m)
                        + SumFunction([d \in Clients |-> CreditedBy(job'[d], Charged, m)])
                        <= line'[m].shipped
    BY <1>11 DEF LinesCover, Underway, BroughtBy, CreditedBy
  <2>1. /\ BroughtBy(Charged, m) + Underway(m) <= line[m].shipped /\ line[m].shipped \in Nat
        /\ BroughtBy(Charged, m) \in Int
    BY <1>11, BroughtByIsInt, ChargedIsShipments
       DEF SalesInv, LinesCover, SalesTypeOK, SoLine
  <2>2. /\ Underway(m) \in Int
        /\ SumFunction([d \in Clients |-> CreditedBy(job'[d], Charged, m)])
             = Underway(m) - CreditedBy(job[c], Charged, m) + CreditedBy(j, Charged, m)
    BY <1>7, <1>9, UnderwayMoves DEF SalesInv, Underway
  <2>3. /\ CreditedBy(job[c], Charged, m) \in Nat
        /\ CreditedBy(j, Charged, m) \in Nat
        /\ CreditedBy(j, Charged, m)
             <= CreditedBy(job[c], Charged, m) + (IF l = m THEN q ELSE 0)
    <3>1. CreditedBy(job[c], Charged, m) \in Nat /\ CreditedBy(j, Charged, m) \in Nat
      BY <1>9, CreditedByIsNat DEF SalesInv
    <3>2. BringsBefore(s, n + 1, m) = BringsBefore(s, n, m) + (IF l = m THEN q ELSE 0)
      BY <1>1, <1>3, BringsMore
    <3>3. s \notin Charged => /\ CreditedBy(job[c], Charged, m) = BringsBefore(s, n, m)
                              /\ CreditedBy(j, Charged, m) = BringsBefore(s, n + 1, m)
      BY <1>1, <1>2, <1>9 DEF CreditedBy
    <3>4. s \in Charged => CreditedBy(job[c], Charged, m) = 0 /\ CreditedBy(j, Charged, m) = 0
      BY <1>1, <1>2, <1>9 DEF CreditedBy
    <3> QED
      BY <1>3, <3>1, <3>2, <3>3, <3>4
  <2>4. line'[m].shipped = line[m].shipped + (IF l = m THEN q ELSE 0)
    <3>1. m = l => lines[l].shipped = line[l].shipped
      BY <1>1, <1>2, <1>3, <1>11 DEF ShipFits
    <3> QED
      BY <1>3, <1>8, <2>1, <3>1
  <2> QED
    BY <1>3, <2>1, <2>2, <2>3, <2>4
<1> QED
  BY <1>10, <1>11, <1>12, <1>13, <1>14 DEF SalesInv

\* The receivable is refused when its number is taken.
LEMMA ShipCommitFails ==
  ASSUME SalesInv, NEW c \in Clients, job' = [job EXCEPT ![c] = NoJob],
         UNCHANGED <<so, line, shipment, receivables, announced, day, lateLines, reopened>>
  PROVE  SalesInv'
<1>1. so' \in SoStatus /\ line' \in [Lines -> SoLine]
      /\ \A k \in Lines : line'[k].shipped = line[k].shipped
  BY DEF SalesInv, SalesTypeOK
<1> QED
  BY <1>1, NoSalesJob, OrderRequestKeeps

LEMMA FitsOfJob ==
  ASSUME NEW d \in Clients, NEW i, job'[d] = i, ShipFits(i)' PROVE ShipFits(job[d])'
BY DEF ShipFits, CreditedLine, NumberTaken

LEMMA ShipCommitSucceeds ==
  ASSUME SalesInv, NEW c \in Clients, At(c, "ship", "receivable"),
         NEW s, s = job[c].shipment, NEW no, no = NextNo(job[c]),
         ~NumberTaken(day, no),
         job' = [job EXCEPT ![c] = NoJob],
         shipment' = [shipment EXCEPT ![s] = "SHIPPED"],
         receivables' = receivables \cup {[day |-> day, no |-> no, shipment |-> s]},
         UNCHANGED <<so, line, announced, day, lateLines, reopened>>
  PROVE  SalesInv'
<1> DEFINE r == [day |-> day, no |-> no, shipment |-> s]
<1>1. PICK k : k = job[c]
  OBVIOUS
<1>2. /\ k \in SalesJobs /\ k.op = "ship" /\ k.stage = "receivable" /\ ShipFits(k)
      /\ s = k.shipment /\ s \in Shipments /\ k.last \in [1..MaxDay -> Nat]
      /\ day \in 1..MaxDay /\ k.item \in Nat
  BY <1>1, JobsOfSales DEF At, SalesInv, SalesJobsFit, SalesTypeOK
<1>3. no = k.last[day] + 1 /\ no \in Nat
  <2>1. no = k.last[day] + 1
    BY <1>1, Zenon DEF NextNo
  <2>2. k.last[day] \in Nat
    BY <1>2
  <2> QED
    BY <2>1, <2>2
<1>4. /\ r \in Receivable /\ r.day = day /\ r.no = no /\ r.shipment = s
  BY <1>2, <1>3 DEF Receivable
<1>5. receivables' = receivables \cup {r}
  OBVIOUS
<1> HIDE DEF r
<1>6. /\ job' \in [Clients -> SalesJobs] /\ job'[c] = NoJob
      /\ \A d \in Clients \ {c} : job'[d] = job[d]
  BY NoSalesJob DEF SalesInv
<1>7. /\ Charged' = Charged \cup {s}
      /\ Shipped' = Shipped \cup {s}
      /\ shipment' \in [Shipments -> ShipmentStatus]
  <2>1. Charged' = Charged \cup {s}
    BY <1>4, <1>5 DEF Charged
  <2>2. Shipped' = Shipped \cup {s} /\ shipment' \in [Shipments -> ShipmentStatus]
    BY <1>2 DEF SalesInv, SalesTypeOK, Shipped, ShipmentStatus
  <2> QED
    BY <2>1, <2>2
<1>8. SalesTypeOK'
  BY <1>4, <1>5, <1>7 DEF SalesInv, SalesTypeOK

\* The number is the next one of the day.
<1>9. PICK m \in Nat : /\ \A x \in receivables : x.day = day => x.no \in 1..m
                       /\ \A n \in 1..m : NumberTaken(day, n)
  BY <1>2 DEF SalesInv, NumbersRun
<1>10. k.last[day] = m /\ no = m + 1
  <2>1. \A n \in 1..k.last[day] : NumberTaken(day, n)
    BY <1>2 DEF ShipFits
  <2>2. \A n : NumberTaken(day, n) => n \in 1..m
    BY <1>9 DEF NumberTaken
  <2>3. k.last[day] \in Nat
    BY <1>2
  <2>4. no \notin 1..m
    BY <1>9
  <2>5. ~(k.last[day] > m)
    <3>1. k.last[day] > m => k.last[day] \in 1..k.last[day]
      BY <2>3
    <3>2. k.last[day] > m => k.last[day] \in 1..m
      BY <2>1, <2>2, <3>1
    <3> QED
      BY <2>3, <3>2
  <2> QED
    BY <1>3, <2>3, <2>4, <2>5
<1>11. \A d, n : NumberTaken(d, n) => NumberTaken(d, n)'
  BY <1>5 DEF NumberTaken
<1>12. NumberTaken(day, no)'
  BY <1>4, <1>5 DEF NumberTaken
<1>13. NumbersRun'
  <2>1. ASSUME NEW d \in 1..MaxDay
        PROVE  \E i \in Nat : /\ \A x \in receivables' : x.day = d => x.no \in 1..i
                              /\ \A n \in 1..i : NumberTaken(d, n)'
    <3>1. CASE d = day
      <4>1. m + 1 \in Nat /\ \A n \in 1..(m + 1) : n \in 1..m \/ n = no
        BY <1>10
      <4>2. \A n \in 1..(m + 1) : NumberTaken(d, n)'
        BY <1>9, <1>11, <1>12, <3>1, <4>1
      <4>3. \A x \in receivables' : x.day = d => x.no \in 1..(m + 1)
        BY <1>4, <1>5, <1>9, <1>10, <3>1
      <4> QED
        BY <4>1, <4>2, <4>3
    <3>2. CASE d # day
      <4>1. PICK i \in Nat : /\ \A x \in receivables : x.day = d => x.no \in 1..i
                             /\ \A n \in 1..i : NumberTaken(d, n)
        BY DEF SalesInv, NumbersRun
      <4>2. \A x \in receivables' : x.day = d => x.no \in 1..i
        BY <1>4, <1>5, <3>2, <4>1
      <4> QED
        BY <1>11, <4>1, <4>2
    <3> QED
      BY <3>1, <3>2
  <2>2. \A x, y \in receivables' : x.day = y.day /\ x.no = y.no => x = y
    <3>1. \A x \in receivables : ~(x.day = day /\ x.no = no)
      BY DEF NumberTaken
    <3> QED
      BY <1>4, <1>5, <3>1 DEF SalesInv, NumbersRun
  <2> QED
    BY <2>1, <2>2 DEF NumbersRun
<1>14. ChargedOnceADay'
  <2>1. s \notin reopened => \A x \in receivables : ~(x.shipment = s /\ x.day = day)
    <3> SUFFICES ASSUME s \notin reopened,
                        NEW x \in receivables, x.shipment = s, x.day = day PROVE FALSE
      OBVIOUS
    <3>1. m < x.no
      BY <1>2, <1>10 DEF ShipFits
    <3>2. x.no \in 1..m
      BY <1>9
    <3> QED
      BY <3>1, <3>2
  <2> QED
    BY <1>4, <1>5, <2>1 DEF SalesInv, ChargedOnceADay
<1>15. ShippedIsCharged'
  <2>1. s \in announced
    BY <1>2 DEF ShipFits
  <2> QED
    BY <1>4, <1>5, <1>7, <2>1 DEF SalesInv, ShippedIsCharged
<1>16. SalesJobsFit'
  <2> SUFFICES ASSUME NEW d \in Clients
               PROVE  /\ job'[d].op = "ship" => ShipFits(job[d])'
                      /\ Found(job'[d]) => job'[d].shipment \in Charged'
    BY DEF SalesJobsFit, Found
  <2>1. CASE d = c
    BY <1>6, <2>1, NoSalesJob
  <2>2. CASE d # c
    <3>1. PICK i : i = job[d]
      OBVIOUS
    <3>2. /\ i \in SalesJobs /\ job'[d] = i
          /\ i.op = "ship" => ShipFits(i)
          /\ Found(i) => i.shipment \in Charged
      BY <1>6, <2>2, <3>1 DEF SalesInv, SalesJobsFit
    <3>3. i.op = "ship" => i.last[day] < no
      <4> SUFFICES ASSUME i.op = "ship" PROVE i.last[day] < no
        OBVIOUS
      <4>1. i.last[day] \in Nat
        BY <1>2, <3>2, JobsOfSales
      <4>2. \A n \in 1..i.last[day] : NumberTaken(day, n)
        BY <1>2, <3>2 DEF ShipFits
      <4>3. \A n : NumberTaken(day, n) => n \in 1..m
        BY <1>9 DEF NumberTaken
      <4>4. i.last[day] > 0 => i.last[day] \in 1..i.last[day]
        BY <4>1
      <4>5. i.last[day] > 0 => i.last[day] \in 1..m
        BY <4>2, <4>3, <4>4
      <4> QED
        BY <1>10, <4>1, <4>5
    <3>4. i.op = "ship" => ShipFits(i)'
      <4> SUFFICES ASSUME i.op = "ship" PROVE ShipFits(i)'
        OBVIOUS
      <4>1. \A e \in 1..MaxDay : \A n \in 1..i.last[e] : NumberTaken(e, n)'
        BY <1>11, <3>2 DEF ShipFits
      <4>2. i.shipment \notin reopened =>
              \A x \in receivables' : x.shipment = i.shipment => i.last[x.day] < x.no
        BY <1>4, <1>5, <3>2, <3>3 DEF ShipFits
      <4> QED
        BY <3>2, <4>1, <4>2 DEF ShipFits, CreditedLine
    <3>5. i.op = "ship" => ShipFits(job[d])'
      BY <3>2, <3>4, FitsOfJob
    <3> QED
      BY <1>7, <3>2, <3>5
  <2> QED
    BY <2>1, <2>2

\* The shipment is no longer under way: it is shipped.
<1>17. LinesCover'
  <2> SUFFICES ASSUME NEW l \in Lines \ lateLines
               PROVE  BroughtBy(Charged', l)
                        + SumFunction([d \in Clients |-> CreditedBy(job'[d], Charged', l)])
                        <= line[l].shipped
    BY DEF LinesCover, Underway, BroughtBy, CreditedBy
  <2>1. /\ BroughtBy(Charged, l) + Underway(l) <= line[l].shipped /\ line[l].shipped \in Nat
        /\ BroughtBy(Charged, l) \in Int
    BY BroughtByIsInt, ChargedIsShipments
       DEF SalesInv, LinesCover, SalesTypeOK, SoLine
  <2>2. /\ Underway(l) \in Int
        /\ SumFunction([d \in Clients |-> CreditedBy(job'[d], Charged, l)])
             = Underway(l) - CreditedBy(k, Charged, l) + CreditedBy(NoJob, Charged, l)
    BY <1>1, NoSalesJob, UnderwayMoves DEF SalesInv, Underway
  <2>3. CreditedBy(NoJob, Charged, l) = 0 /\ CreditedBy(k, Charged, l) \in Nat
    BY <1>2, NoSalesJob, CreditedByIsNat DEF CreditedBy
  <2>4. /\ SumFunction([d \in Clients |-> CreditedBy(job'[d], Charged', l)])
             <= SumFunction([d \in Clients |-> CreditedBy(job'[d], Charged, l)])
        /\ SumFunction([d \in Clients |-> CreditedBy(job'[d], Charged', l)]) \in Int
    <3>1. PICK jobs, shipped, more : jobs = job' /\ shipped = Charged /\ more = Charged'
      OBVIOUS
    <3>2. jobs \in [Clients -> SalesJobs] /\ shipped \subseteq more
      BY <1>6, <1>7, <3>1
    <3>3. /\ SumFunction([d \in Clients |-> CreditedBy(jobs[d], more, l)])
               <= SumFunction([d \in Clients |-> CreditedBy(jobs[d], shipped, l)])
          /\ SumFunction([d \in Clients |-> CreditedBy(jobs[d], more, l)]) \in Int
      BY <3>2, UnderwayShrinks, UnderwayIsInt
    <3> QED
      BY <3>1, <3>3
  <2>6. BroughtBy(Charged', l) <= BroughtBy(Charged, l) + CreditedBy(k, Charged, l)
    <3>1. CASE s \in Charged
      <4>1. Charged' = Charged
        BY <1>7, <3>1
      <4> QED
        BY <2>1, <2>3, <4>1
    <3>2. CASE s \notin Charged
      <4>1. CreditedBy(k, Charged, l) = BringsBefore(s, k.item, l)
        BY <1>2, <3>2 DEF CreditedBy
      <4>2. BringsBefore(s, k.item, l) = Brings(s, l)
        BY <1>2, BringsAll DEF ShipFits
      <4>3. BroughtBy(Charged \cup {s}, l) = Brings(s, l) + BroughtBy(Charged, l)
        BY <1>2, <3>2, BroughtByMore, ChargedIsShipments
      <4> QED
        BY <1>7, <2>1, <2>3, <4>1, <4>2, <4>3
    <3> QED
      BY <3>1, <3>2
  <2>7. BroughtBy(Charged', l) \in Int
    <3>1. Charged' \subseteq Shipments
      BY <1>2, <1>7, ChargedIsShipments
    <3> QED
      BY <3>1, BroughtByIsInt
  <2> QED
    BY <2>1, <2>2, <2>3, <2>4, <2>6, <2>7
<1> QED
  BY <1>6, <1>8, <1>13, <1>14, <1>15, <1>16, <1>17 DEF SalesInv

LEMMA ShipCommitKeeps == ASSUME SalesInv, NEW c \in Clients, ShipCommit(c) PROVE SalesInv'
<1>1. PICK s, no : s = job[c].shipment /\ no = NextNo(job[c])
  OBVIOUS
<1>2. /\ At(c, "ship", "receivable") /\ job' = [job EXCEPT ![c] = NoJob]
      /\ UNCHANGED <<so, line, announced, day, lateLines, reopened>>
      /\ IF NumberTaken(day, no)
         THEN UNCHANGED <<shipment, receivables>>
         ELSE /\ shipment' = [shipment EXCEPT ![s] = "SHIPPED"]
              /\ receivables' = receivables \cup {[day |-> day, no |-> no, shipment |-> s]}
  BY <1>1 DEF ShipCommit, Reply, Continue, NumberTaken
<1>3. CASE NumberTaken(day, no)
  BY <1>2, <1>3, ShipCommitFails
<1>4. CASE ~NumberTaken(day, no)
  BY <1>1, <1>2, <1>4, ShipCommitSucceeds
<1> QED
  BY <1>3, <1>4

LEMMA SalesNextInv == SalesInv /\ [SalesNext]_salesVars => SalesInv'
<1> SUFFICES ASSUME SalesInv, [SalesNext]_salesVars PROVE SalesInv'
  OBVIOUS
<1>1. ASSUME NEW c \in Clients,
             \/ ConfirmOrder(c) \/ ConfirmOrderWrite(c)
             \/ \E l \in Lines, q \in Ordered : ChangeOrder(c, l, q)
             \/ ChangeOrderWrite(c)
             \/ \E s \in Shipments :
                  ShipBegin(c, s) \/ ConfirmDelivery(c, s) \/ UpdateLogistics(c, s)
      PROVE  SalesInv'
  BY <1>1, ConfirmOrderKeeps, ChangeOrderKeeps, ChangeOrderWriteKeeps, ShipBeginKeeps,
     ConfirmDeliveryKeeps, UpdateLogisticsKeeps
<1>2. ASSUME NEW c \in Clients,
             \/ CreditRead(c) \/ CreditWrite(c) \/ ShipSave(c) \/ ShipCommit(c)
             \/ ConfirmDeliveryWrite(c) \/ UpdateLogisticsWrite(c) \/ SalesDie(c)
      PROVE  SalesInv'
  BY <1>2, CreditReadKeeps, CreditWriteKeeps, ShipSaveKeeps, ShipCommitKeeps,
     ConfirmDeliveryWriteKeeps, UpdateLogisticsWriteKeeps, SalesDieKeeps
<1>3. CASE UNCHANGED salesVars
  <2>1. UNCHANGED <<so, line, shipment, receivables, announced, day, lateLines, reopened, job>>
    BY <1>3 DEF salesVars, salesData, reqVars
  <2>2. SalesTypeOK' /\ Shipped' = Shipped
    BY <2>1 DEF SalesInv, SalesTypeOK, Shipped
  <2> QED
    BY <2>1, <2>2, SalesRests
<1> QED
  BY <1>1, <1>2, <1>3, CreateShipmentKeeps, MidnightKeeps DEF SalesNext

LEMMA SalesSpecInv == SalesSpec => []SalesInv
BY SalesInitInv, SalesNextInv, PTL DEF SalesSpec

\* The order, its lines, its shipments and its receivables are records of the
\* shapes the code stores, and the day is one of the days.
THEOREM SalesAreTyped == SalesSpec => []SalesTypeOK
BY SalesSpecInv, PTL DEF SalesInv

\* The quantity of a line covers the shipments that were charged of it, except
\* for lines credited by two requests at once; a shipped shipment was announced
\* and charged; and it is charged once a day, however many requests ship it
\* (ShipmentService.ship), unless updateLogistics had made it PENDING again: for
\* all orders, shipments, days and requests.
THEOREM ShippedIsBooked == SalesSpec => []ShipmentsAreBooked
<1>1. SalesInv => ShipmentsAreBooked
  <2> SUFFICES ASSUME SalesInv PROVE ShipmentsAreBooked
    OBVIOUS
  <2>1. ASSUME NEW l \in Lines \ lateLines
        PROVE  BroughtBy(Charged, l) <= line[l].shipped
    <3>1. BroughtBy(Charged, l) + Underway(l) <= line[l].shipped /\ line[l].shipped \in Nat
      BY DEF SalesInv, LinesCover, SalesTypeOK, SoLine
    <3>2. BroughtBy(Charged, l) \in Int
      BY BroughtByIsInt, ChargedIsShipments
    <3>3. Underway(l) \in Nat
      BY UnderwayIsNat DEF SalesInv, Underway
    <3> QED
      BY <3>1, <3>2, <3>3
  <2>2. ShippedIsCharged /\ ChargedOnceADay
    BY DEF SalesInv
  <2> QED
    BY <2>1, <2>2 DEF ShipmentsAreBooked, ShippedIsCharged, ChargedOnceADay, BroughtBy
<1> QED
  BY <1>1, SalesSpecInv, PTL

-----------------------------------------------------------------------------
(***************************************************************************)
(* The transfer of a closing is what the ledger says, once it is posted.   *)
(*                                                                         *)
(* The sum over the ledger is taken apart: the trade, which are the posted *)
(* vouchers of no closing, and the voucher of the closing. The invariant   *)
(* says that a period that was closed once has one closing, in flight or   *)
(* as a voucher (OneClosing), and that what it has read, or transfers, is  *)
(* the sum of the trade as long as nothing else moved the ledger           *)
(* (ClosingIsCurrent).                                                     *)
(***************************************************************************)

OnVoucherJobs == [op : {"voucher"}, stage : {"save"}, on : Nat, to : {"APPROVED", "POSTED"}]
ReverseJobs == [op : {"reverse"}, stage : {"commit"}, on : Nat]
ClosingJobs == [op : {"closing"}, stage : {"create"}, revenue : Int, expense : Int]
LockJobs == [op : {"lock"}, stage : {"post"}, todo : SUBSET Nat]
VoucherJobs == OnVoucherJobs \cup ReverseJobs \cup ClosingJobs \cup LockJobs \cup {NoJob}

\* A voucher that a request works on is there.
WorksOn(j) == (j.op = "voucher" \/ j.op = "reverse") => j.on \in DOMAIN vouchers
VouchersAreThere == \A c \in Clients : WorksOn(job[c])

\* The ledger without the vouchers of closings, of any list of vouchers
TradeOf(s) == {v \in DOMAIN s : s[v].status = "POSTED" /\ s[v].kind # "closing"}
Amounts(s, a) == [v \in DOMAIN s |-> s[v].adds[a]]
TradeSum(s, a) == SumFunctionOnSet(Amounts(s, a), TradeOf(s))
ClosingsOf(s) == {v \in DOMAIN s : s[v].kind = "closing"}

Closes(j) == j.op = "closing"

\* A closing that has been read is in flight, is a voucher, or has died.
OneClosing ==
  /\ closings = 0 => ClosingsOf(vouchers) = {} /\ \A c \in Clients : ~Closes(job[c])
  /\ closings = 1 =>
       /\ \A c, d \in Clients : Closes(job[c]) /\ Closes(job[d]) => c = d
       /\ \A v, w \in ClosingsOf(vouchers) : v = w
       /\ \A v \in ClosingsOf(vouchers) : \A c \in Clients : ~Closes(job[c])

\* What it has read is what the ledger says, as long as nothing else moves it.
ClosingIsCurrent ==
  closings = 1 /\ ~moved =>
    /\ \A c \in Clients : Closes(job[c]) =>
         /\ job[c].revenue = TradeSum(vouchers, "revenue")
         /\ job[c].expense = TradeSum(vouchers, "expense")
    /\ \A v \in ClosingsOf(vouchers) :
         vouchers[v].adds = Transfer(TradeSum(vouchers, "revenue"), TradeSum(vouchers, "expense"))

VoucherInv ==
  /\ VoucherTypeOK
  /\ job \in [Clients -> VoucherJobs]
  /\ VouchersAreThere /\ OneClosing /\ ClosingIsCurrent

-----------------------------------------------------------------------------
(* Lists of vouchers *)

LEMMA VouchersAreListed ==
  ASSUME NEW s \in Seq(Voucher)
  PROVE  /\ Len(s) \in Nat /\ DOMAIN s = 1..Len(s) /\ IsFiniteSet(DOMAIN s)
         /\ \A v \in DOMAIN s : s[v] \in Voucher
         /\ \A v \in DOMAIN s : \A a \in Accounts : s[v].adds[a] \in Int
<1>1. Len(s) \in Nat /\ DOMAIN s = 1..Len(s) /\ \A v \in 1..Len(s) : s[v] \in Voucher
  OBVIOUS
<1>2. IsFiniteSet(1..Len(s))
  BY <1>1, UpToIsFinite
<1> QED
  BY <1>1, <1>2 DEF Voucher

LEMMA StatusIsSet ==
  ASSUME NEW s \in Seq(Voucher), NEW v \in DOMAIN s, NEW status \in VoucherStatus,
         NEW t, t = [s EXCEPT ![v].status = status]
  PROVE  /\ t \in Seq(Voucher) /\ DOMAIN t = DOMAIN s /\ t[v].status = status
         /\ \A w \in DOMAIN s : /\ t[w].kind = s[w].kind /\ t[w].adds = s[w].adds
                                /\ w # v => t[w].status = s[w].status
<1>1. PICK row : row = s[v]
  OBVIOUS
<1>2. row \in Voucher /\ DOMAIN s = 1..Len(s) /\ Len(s) \in Nat
  BY <1>1, VouchersAreListed
<1>3. /\ [row EXCEPT !.status = status] \in Voucher
      /\ [row EXCEPT !.status = status].status = status
      /\ [row EXCEPT !.status = status].kind = row.kind
      /\ [row EXCEPT !.status = status].adds = row.adds
  BY <1>2 DEF Voucher
<1>4. PICK new : new = [row EXCEPT !.status = status]
  OBVIOUS
<1>5. t = [s EXCEPT ![v] = new]
  BY <1>1, <1>4
<1>6. t \in Seq(Voucher)
  <2>1. t \in [1..Len(s) -> Voucher]
    BY <1>2, <1>3, <1>4, <1>5, VouchersAreListed
  <2> QED
    BY <1>2, <2>1
<1> QED
  BY <1>1, <1>3, <1>4, <1>5, <1>6

LEMMA VoucherIsAppended ==
  ASSUME NEW s \in Seq(Voucher), NEW w \in Voucher, NEW t, t = Append(s, w)
  PROVE  /\ t \in Seq(Voucher) /\ DOMAIN t = DOMAIN s \cup {Len(s) + 1}
         /\ Len(s) + 1 \notin DOMAIN s /\ t[Len(s) + 1] = w
         /\ \A v \in DOMAIN s : t[v] = s[v]
<1>1. Len(s) \in Nat /\ DOMAIN s = 1..Len(s)
  BY VouchersAreListed
<1>2. t \in Seq(Voucher) /\ Len(t) = Len(s) + 1 /\ t[Len(s) + 1] = w
      /\ \A v \in 1..Len(s) : t[v] = s[v]
  OBVIOUS
<1>3. DOMAIN t = 1..(Len(s) + 1)
  BY <1>2, VouchersAreListed
<1> QED
  BY <1>1, <1>2, <1>3

\* Two lists with the same trade in the ledger
SameTrade(s, t) ==
  /\ s \in Seq(Voucher) /\ t \in Seq(Voucher) /\ TradeOf(t) = TradeOf(s)
  /\ \A v \in TradeOf(s) : t[v].adds = s[v].adds

LEMMA TradeSumIsSame ==
  ASSUME NEW s, NEW t, SameTrade(s, t), NEW a \in Accounts
  PROVE  TradeSum(t, a) = TradeSum(s, a)
<1> DEFINE S == TradeOf(s)
           f == Amounts(s, a)
           h == Amounts(t, a)
<1>1. s \in Seq(Voucher) /\ t \in Seq(Voucher) /\ TradeOf(t) = S
  BY DEF SameTrade
<1>2. S \subseteq DOMAIN s /\ S \subseteq DOMAIN t /\ IsFiniteSet(DOMAIN s)
  BY <1>1, VouchersAreListed DEF TradeOf
<1>3. IsFiniteSet(S)
  BY <1>2, FS_Subset
<1>4. \A v \in S : f[v] \in Int /\ h[v] = f[v]
  BY <1>1, <1>2, VouchersAreListed DEF SameTrade, Amounts
<1> HIDE DEF S, f, h
<1>5. SumFunctionOnSet(f, S) = SumFunctionOnSet(h, S)
  BY <1>3, <1>4, SumIsSame
<1> QED
  BY <1>1, <1>5 DEF TradeSum, S, f, h

LEMMA TradeSumIsInt ==
  ASSUME NEW s \in Seq(Voucher), NEW a \in Accounts
  PROVE  TradeSum(s, a) \in Int
<1> DEFINE S == TradeOf(s)
           f == Amounts(s, a)
<1>1. S \subseteq DOMAIN s /\ IsFiniteSet(S)
  BY VouchersAreListed, FS_Subset DEF TradeOf
<1>2. \A v \in S : f[v] \in Int
  BY <1>1, VouchersAreListed DEF Amounts
<1> HIDE DEF S, f
<1> QED
  BY <1>1, <1>2, SumIsInt DEF TradeSum, S, f

\* The balance of an account, before any closing and with the voucher of one
LEMMA BalanceOfTrade ==
  ASSUME VoucherTypeOK, ClosingsOf(vouchers) = {}, NEW a
  PROVE  Balance(a) = TradeSum(vouchers, a)
<1>1. InLedger = TradeOf(vouchers)
  BY DEF InLedger, TradeOf, ClosingsOf
<1> QED
  BY <1>1 DEF Balance, TradeSum, Amounts

LEMMA BalanceOfClosing ==
  ASSUME VoucherTypeOK, NEW a \in Accounts, NEW v \in InLedger,
         vouchers[v].kind = "closing", \A w \in ClosingsOf(vouchers) : w = v
  PROVE  Balance(a) = TradeSum(vouchers, a) + vouchers[v].adds[a]
<1>1. PICK s : s = vouchers
  OBVIOUS
<1>2. s \in Seq(Voucher) /\ v \in DOMAIN s
  BY <1>1 DEF VoucherTypeOK, InLedger
<1> DEFINE S == TradeOf(s)
           f == Amounts(s, a)
<1>3. InLedger = S \cup {v} /\ v \notin S
  BY <1>1 DEF InLedger, TradeOf, ClosingsOf
<1>4. S \subseteq DOMAIN s /\ IsFiniteSet(S)
  BY <1>2, VouchersAreListed, FS_Subset DEF TradeOf
<1>5. f[v] = s[v].adds[a] /\ f[v] \in Int /\ \A w \in S : f[w] \in Int
  BY <1>2, <1>4, VouchersAreListed DEF Amounts
<1>6. Balance(a) = SumFunctionOnSet(f, InLedger) /\ TradeSum(s, a) = SumFunctionOnSet(f, S)
  BY <1>1 DEF Balance, TradeSum, Amounts
<1> HIDE DEF S, f
<1>7. SumFunctionOnSet(f, S \cup {v}) = f[v] + SumFunctionOnSet(f, S)
  BY <1>3, <1>4, <1>5, SumOfMore
<1>8. SumFunctionOnSet(f, S) \in Int
  BY <1>4, <1>5, SumIsInt
<1> QED
  BY <1>1, <1>3, <1>5, <1>6, <1>7, <1>8

LEMMA EntriesAreTyped ==
  /\ \A p, q, r, s \in Int : Adds(p, q, r, s) \in [Accounts -> Int]
  /\ \A k \in {"sale", "cost"} : Entry(k) \in [Accounts -> Int]
  /\ \A r, e \in Int : Transfer(r, e) \in [Accounts -> Int]
<1>1. \A p, q, r, s \in Int : Adds(p, q, r, s) \in [Accounts -> Int]
  BY DEF Adds, Accounts
<1>2. \A k \in {"sale", "cost"} : Entry(k) \in [Accounts -> Int]
  BY <1>1 DEF Entry
<1>3. \A r, e \in Int : Transfer(r, e) \in [Accounts -> Int]
  BY SMTT(30), <1>1 DEF Transfer
<1> QED
  BY <1>1, <1>2, <1>3

\* Revenue in credit and expense in debit are taken away.
LEMMA TransferTakesAll ==
  ASSUME NEW r \in Int, NEW e \in Int
  PROVE  r + Transfer(r, e)["revenue"] >= 0 /\ e + Transfer(r, e)["expense"] <= 0
<1>1. \A p, q, u, w : Adds(p, q, u, w)["revenue"] = q /\ Adds(p, q, u, w)["expense"] = u
  BY DEF Adds, Accounts
<1> QED
  BY <1>1 DEF Transfer

LEMMA NewVoucherIsTyped ==
  ASSUME NEW k \in VoucherKinds, NEW status \in VoucherStatus, NEW adds \in [Accounts -> Int]
  PROVE  /\ NewVoucher(k, status, adds) \in Voucher
         /\ NewVoucher(k, status, adds).kind = k /\ NewVoucher(k, status, adds).status = status
         /\ NewVoucher(k, status, adds).adds = adds
BY DEF NewVoucher, Voucher

-----------------------------------------------------------------------------
LEMMA JobsOfVouchers ==
  ASSUME NEW j \in VoucherJobs
  PROVE  /\ j.op = "voucher" => j \in OnVoucherJobs
         /\ j.op = "reverse" => j \in ReverseJobs
         /\ j.op = "closing" => j \in ClosingJobs
         /\ j.op = "lock" => j \in LockJobs
BY DEF VoucherJobs, OnVoucherJobs, ReverseJobs, ClosingJobs, LockJobs, NoJob

LEMMA NoVoucherJob ==
  NoJob \in VoucherJobs /\ NoJob.op = "none" /\ ~Closes(NoJob) /\ WorksOn(NoJob)
BY DEF NoJob, VoucherJobs, Closes, WorksOn

LEMMA VoucherInitInv == ReqInit /\ VoucherInit => VoucherInv
<1> SUFFICES ASSUME ReqInit, VoucherInit PROVE VoucherInv
  OBVIOUS
<1>1. PICK n \in 0..MaxOpening :
        vouchers \in [1..n -> {NewVoucher(k, s, Entry(k)) :
                                 k \in {"sale", "cost"}, s \in {"DRAFT", "APPROVED", "POSTED"}}]
  BY DEF VoucherInit
<1>2. n \in Nat
  BY OpeningAssumption
<1>3. \A k \in {"sale", "cost"} : \A s \in {"DRAFT", "APPROVED", "POSTED"} :
        NewVoucher(k, s, Entry(k)) \in Voucher /\ NewVoucher(k, s, Entry(k)).kind = k
  BY EntriesAreTyped, NewVoucherIsTyped DEF VoucherKinds, VoucherStatus
<1>4. /\ DOMAIN vouchers = 1..n /\ \A v \in 1..n : vouchers[v] \in Voucher
      /\ \A v \in 1..n : vouchers[v].kind # "closing"
  BY <1>1, <1>3
<1>5. vouchers \in Seq(Voucher)
  <2>1. vouchers \in [1..n -> Voucher]
    BY <1>1, <1>4
  <2> QED
    BY <1>2, <2>1
<1>6. VoucherTypeOK
  <2>1. closings \in Nat
    BY DEF VoucherInit
  <2>2. moved \in BOOLEAN
    BY Zenon DEF VoucherInit
  <2> QED
    BY <1>5, <2>1, <2>2 DEF VoucherTypeOK
<1>7. /\ job \in [Clients -> VoucherJobs] /\ closings = 0
      /\ \A c \in Clients : ~Closes(job[c]) /\ WorksOn(job[c])
  BY NoVoucherJob DEF ReqInit, VoucherInit
<1>8. ClosingsOf(vouchers) = {}
  BY <1>4 DEF ClosingsOf
<1> QED
  BY <1>6, <1>7, <1>8 DEF VoucherInv, VouchersAreThere, OneClosing, ClosingIsCurrent

\* Steps that read and create no closing
LEMMA ClosingStays ==
  ASSUME VoucherInv, vouchers' \in Seq(Voucher), ClosingsOf(vouchers') = ClosingsOf(vouchers),
         closings' = closings, \A d \in Clients : Closes(job'[d]) => job'[d] = job[d],
         moved => moved',
         ~moved' => /\ SameTrade(vouchers, vouchers')
                    /\ \A v \in ClosingsOf(vouchers) : vouchers'[v].adds = vouchers[v].adds
  PROVE  OneClosing' /\ ClosingIsCurrent'
<1>1. OneClosing'
  <2>1. \A d \in Clients : Closes(job'[d]) => Closes(job[d])
    BY Zenon
  <2> QED
    BY <2>1 DEF VoucherInv, OneClosing
<1>2. ClosingIsCurrent'
  <2>1. SUFFICES ASSUME closings = 1, ~moved' PROVE ClosingIsCurrent'
    BY DEF ClosingIsCurrent
  <2>2. PICK s, t : s = vouchers /\ t = vouchers'
    OBVIOUS
  <2>3. /\ TradeSum(t, "revenue") = TradeSum(s, "revenue")
        /\ TradeSum(t, "expense") = TradeSum(s, "expense")
    BY <2>1, <2>2, TradeSumIsSame DEF Accounts
  <2>4. ~moved
    BY <2>1
  <2>5. /\ \A d \in Clients : Closes(job[d]) =>
             /\ job[d].revenue = TradeSum(s, "revenue")
             /\ job[d].expense = TradeSum(s, "expense")
        /\ \A v \in ClosingsOf(vouchers) :
             vouchers[v].adds = Transfer(TradeSum(s, "revenue"), TradeSum(s, "expense"))
    BY <2>1, <2>2, <2>4 DEF VoucherInv, ClosingIsCurrent
  <2>6. \A d \in Clients : Closes(job'[d]) =>
             /\ job'[d].revenue = TradeSum(t, "revenue")
             /\ job'[d].expense = TradeSum(t, "expense")
    BY <2>3, <2>5
  <2>7. \A v \in ClosingsOf(vouchers') :
             vouchers'[v].adds = Transfer(TradeSum(t, "revenue"), TradeSum(t, "expense"))
    BY <2>1, <2>3, <2>5
  <2> QED
    BY <2>2, <2>6, <2>7 DEF ClosingIsCurrent
<1> QED
  BY <1>1, <1>2

\* Client c goes on with j, which is no closing, over vouchers that remain.
LEMMA VoucherJobStays ==
  ASSUME VoucherInv, NEW c \in Clients, NEW j \in VoucherJobs, job' = [job EXCEPT ![c] = j],
         ~Closes(j), WorksOn(j), DOMAIN vouchers \subseteq DOMAIN vouchers'
  PROVE  /\ job' \in [Clients -> VoucherJobs] /\ VouchersAreThere'
         /\ \A d \in Clients : Closes(job'[d]) => job'[d] = job[d]
<1>1. /\ job' \in [Clients -> VoucherJobs] /\ job'[c] = j
      /\ \A d \in Clients \ {c} : job'[d] = job[d]
  BY DEF VoucherInv
<1> QED
  BY <1>1 DEF VoucherInv, VouchersAreThere, WorksOn

\* A step that changes no voucher
LEMMA VouchersStand ==
  ASSUME VoucherInv, NEW c \in Clients, NEW j \in VoucherJobs, job' = [job EXCEPT ![c] = j],
         ~Closes(j), WorksOn(j), UNCHANGED voucherData
  PROVE  VoucherInv'
<1>1. UNCHANGED <<vouchers, closings, moved>>
  BY DEF voucherData
<1>2. VoucherTypeOK'
  <2>1. moved' \in BOOLEAN
    BY <1>1, Zenon DEF VoucherInv, VoucherTypeOK
  <2> QED
    BY <1>1, <2>1 DEF VoucherInv, VoucherTypeOK
<1>3. SameTrade(vouchers, vouchers') /\ vouchers' \in Seq(Voucher)
  BY <1>1 DEF SameTrade, VoucherInv, VoucherTypeOK
<1>4. OneClosing' /\ ClosingIsCurrent'
  BY <1>1, <1>3, VoucherJobStays, ClosingStays
<1> QED
  BY <1>1, <1>2, <1>4, VoucherJobStays DEF VoucherInv

\* The status of a voucher is saved, whatever it has become since it was read.
LEMMA VoucherIsSet ==
  ASSUME VoucherInv, NEW c \in Clients, NEW j \in VoucherJobs, job' = [job EXCEPT ![c] = j],
         ~Closes(j), WorksOn(j), NEW v \in DOMAIN vouchers, NEW status \in {"APPROVED", "POSTED"},
         SetVoucher(v, status), closings' = closings
  PROVE  VoucherInv'
<1>1. /\ vouchers' = [vouchers EXCEPT ![v].status = status]
      /\ moved' = (moved \/ Moves(v, status))
  BY DEF SetVoucher
<1>2. PICK s, t : s = vouchers /\ t = vouchers'
  OBVIOUS
<1>3. s \in Seq(Voucher) /\ v \in DOMAIN s /\ status \in VoucherStatus
      /\ t = [s EXCEPT ![v].status = status]
  BY <1>1, <1>2 DEF VoucherInv, VoucherTypeOK, VoucherStatus
<1>4. /\ t \in Seq(Voucher) /\ DOMAIN t = DOMAIN s /\ t[v].status = status
      /\ \A w \in DOMAIN s : /\ t[w].kind = s[w].kind /\ t[w].adds = s[w].adds
                             /\ w # v => t[w].status = s[w].status
  BY <1>3, StatusIsSet
<1>5. moved' \in BOOLEAN /\ (moved => moved') /\ (~moved' => ~Moves(v, status))
  BY <1>1, Zenon DEF VoucherInv, VoucherTypeOK, Moves
<1>6. VoucherTypeOK'
  BY <1>2, <1>4, <1>5 DEF VoucherInv, VoucherTypeOK
<1>7. ClosingsOf(t) = ClosingsOf(s)
  BY <1>4 DEF ClosingsOf
<1>8. ~moved' => SameTrade(s, t)
  BY <1>2, <1>3, <1>4, <1>5 DEF Moves, SameTrade, TradeOf
<1>9. \A w \in ClosingsOf(s) : t[w].adds = s[w].adds
  BY <1>4 DEF ClosingsOf
<1>10. /\ job' \in [Clients -> VoucherJobs] /\ VouchersAreThere'
       /\ \A d \in Clients : Closes(job'[d]) => job'[d] = job[d]
  BY <1>2, <1>4, VoucherJobStays
<1>11. OneClosing' /\ ClosingIsCurrent'
  BY <1>2, <1>4, <1>5, <1>7, <1>8, <1>9, <1>10, ClosingStays
<1> QED
  BY <1>6, <1>10, <1>11 DEF VoucherInv

\* One more voucher, which is no closing
LEMMA VoucherIsAdded ==
  ASSUME NEW s \in Seq(Voucher), NEW w \in Voucher, w.kind # "closing",
         NEW t, t = Append(s, w)
  PROVE  /\ t \in Seq(Voucher) /\ DOMAIN s \subseteq DOMAIN t /\ ClosingsOf(t) = ClosingsOf(s)
         /\ w.status # "POSTED" => SameTrade(s, t)
         /\ \A v \in DOMAIN s : t[v] = s[v]
<1>1. /\ t \in Seq(Voucher) /\ DOMAIN t = DOMAIN s \cup {Len(s) + 1}
      /\ Len(s) + 1 \notin DOMAIN s /\ t[Len(s) + 1] = w
      /\ \A v \in DOMAIN s : t[v] = s[v]
  BY VoucherIsAppended
<1>2. ClosingsOf(t) = ClosingsOf(s)
  BY <1>1 DEF ClosingsOf
<1>3. ASSUME w.status # "POSTED" PROVE SameTrade(s, t)
  BY <1>1, <1>3 DEF SameTrade, TradeOf
<1> QED
  BY <1>1, <1>2, <1>3

-----------------------------------------------------------------------------
(* The steps *)

LEMMA VouchersOfInv ==
  ASSUME VoucherInv
  PROVE  /\ vouchers \in Seq(Voucher) /\ \A v \in DOMAIN vouchers : v \in Nat
         /\ moved \in BOOLEAN /\ closings \in Nat
<1>1. moved \in BOOLEAN
  BY Zenon DEF VoucherInv, VoucherTypeOK
<1> QED
  BY <1>1, VouchersAreListed DEF VoucherInv, VoucherTypeOK

LEMMA CreateVoucherKeeps ==
  ASSUME VoucherInv, NEW kind \in {"sale", "cost"}, CreateVoucher(kind) PROVE VoucherInv'
<1>1. PICK s, t, w : s = vouchers /\ t = vouchers' /\ w = NewVoucher(kind, "DRAFT", Entry(kind))
  OBVIOUS
<1>2. t = Append(s, w) /\ UNCHANGED <<job, closings, moved>> /\ s \in Seq(Voucher)
  BY <1>1, VouchersOfInv DEF CreateVoucher, Once
<1>3. w \in Voucher /\ w.kind # "closing" /\ w.status # "POSTED"
  <2>1. kind \in VoucherKinds /\ "DRAFT" \in VoucherStatus
    BY DEF VoucherKinds, VoucherStatus
  <2>2. PICK adds : adds = Entry(kind)
    OBVIOUS
  <2>3. adds \in [Accounts -> Int]
    BY <2>2, EntriesAreTyped
  <2>4. kind # "closing" /\ "DRAFT" # "POSTED"
    OBVIOUS
  <2> QED
    BY <1>1, <2>1, <2>2, <2>3, <2>4, NewVoucherIsTyped
<1>4. /\ t \in Seq(Voucher) /\ DOMAIN s \subseteq DOMAIN t /\ ClosingsOf(t) = ClosingsOf(s)
      /\ SameTrade(s, t) /\ \A v \in DOMAIN s : t[v] = s[v]
  BY <1>2, <1>3, VoucherIsAdded
<1>5. VoucherTypeOK'
  <2>1. moved' \in BOOLEAN
    BY <1>2, VouchersOfInv, Zenon
  <2> QED
    BY <1>1, <1>2, <1>4, <2>1, VouchersOfInv DEF VoucherTypeOK
<1>6. \A v \in ClosingsOf(s) : t[v].adds = s[v].adds
  BY <1>4 DEF ClosingsOf
<1>7. OneClosing' /\ ClosingIsCurrent'
  BY <1>1, <1>2, <1>4, <1>6, ClosingStays
<1>8. VouchersAreThere'
  BY <1>1, <1>2, <1>4 DEF VoucherInv, VouchersAreThere, WorksOn
<1> QED
  BY <1>2, <1>5, <1>7, <1>8 DEF VoucherInv

LEMMA ReadVoucherKeeps ==
  ASSUME VoucherInv, NEW c \in Clients, NEW v \in DOMAIN vouchers,
         ApproveVoucher(c, v) \/ PostVoucher(c, v) \/ ReverseVoucher(c, v)
  PROVE  VoucherInv'
<1>1. PICK j : /\ j \in VoucherJobs /\ ~Closes(j) /\ WorksOn(j)
               /\ job' = [job EXCEPT ![c] = j]
  <2>1. v \in Nat
    BY VouchersOfInv
  <2>2. \A to \in {"APPROVED", "POSTED"} :
          /\ [op |-> "voucher", stage |-> "save", on |-> v, to |-> to] \in VoucherJobs
          /\ ~Closes([op |-> "voucher", stage |-> "save", on |-> v, to |-> to])
          /\ WorksOn([op |-> "voucher", stage |-> "save", on |-> v, to |-> to])
    BY <2>1 DEF VoucherJobs, OnVoucherJobs, Closes, WorksOn
  <2>3. /\ [op |-> "reverse", stage |-> "commit", on |-> v] \in VoucherJobs
        /\ ~Closes([op |-> "reverse", stage |-> "commit", on |-> v])
        /\ WorksOn([op |-> "reverse", stage |-> "commit", on |-> v])
    BY <2>1 DEF VoucherJobs, ReverseJobs, Closes, WorksOn
  <2>4. CASE ApproveVoucher(c, v)
    BY <2>2, <2>4 DEF ApproveVoucher, ReadVoucher, Accept
  <2>5. CASE PostVoucher(c, v)
    BY <2>2, <2>5 DEF PostVoucher, ReadVoucher, Accept
  <2>6. CASE ReverseVoucher(c, v)
    BY <2>3, <2>6 DEF ReverseVoucher, Accept
  <2> QED
    BY <2>4, <2>5, <2>6
<1>2. UNCHANGED voucherData
  BY DEF ApproveVoucher, PostVoucher, ReadVoucher, ReverseVoucher
<1> QED
  BY <1>1, <1>2, VouchersStand

LEMMA SaveVoucherKeeps == ASSUME VoucherInv, NEW c \in Clients, SaveVoucher(c) PROVE VoucherInv'
<1>1. PICK v, to : v = job[c].on /\ to = job[c].to
  OBVIOUS
<1>2. /\ job[c].op = "voucher" /\ SetVoucher(v, to) /\ job' = [job EXCEPT ![c] = NoJob]
      /\ closings' = closings
  BY <1>1 DEF SaveVoucher, At, Reply, Continue
<1>3. v \in DOMAIN vouchers
  BY <1>1, <1>2 DEF VoucherInv, VouchersAreThere, WorksOn
<1>4. to \in {"APPROVED", "POSTED"}
  BY <1>1, <1>2, JobsOfVouchers DEF VoucherInv, OnVoucherJobs
<1> QED
  BY <1>2, <1>3, <1>4, NoVoucherJob, VoucherIsSet

LEMMA ReverseVoucherCommitKeeps ==
  ASSUME VoucherInv, NEW c \in Clients, ReverseVoucherCommit(c) PROVE VoucherInv'
<1>1. PICK v, s, r, t, w :
        /\ v = job[c].on /\ s = vouchers /\ r = [s EXCEPT ![v].status = "REVERSED"]
        /\ t = vouchers'
        /\ w = NewVoucher("reversal", "POSTED", [a \in Accounts |-> -s[v].adds[a]])
  OBVIOUS
<1>2. /\ job[c].op = "reverse" /\ job' = [job EXCEPT ![c] = NoJob]
      /\ t = Append(r, w) /\ moved' = TRUE /\ closings' = closings
  BY <1>1 DEF ReverseVoucherCommit, At, Reply, Continue
<1>3. s \in Seq(Voucher) /\ v \in DOMAIN s
  BY <1>1, <1>2, VouchersOfInv DEF VoucherInv, VouchersAreThere, WorksOn
<1>4. /\ r \in Seq(Voucher) /\ DOMAIN r = DOMAIN s
      /\ \A x \in DOMAIN s : r[x].kind = s[x].kind /\ r[x].adds = s[x].adds
  <2>1. "REVERSED" \in VoucherStatus
    BY DEF VoucherStatus
  <2> QED
    BY <1>1, <1>3, <2>1, StatusIsSet
<1>5. w \in Voucher /\ w.kind # "closing"
  <2>1. PICK adds : adds = [a \in Accounts |-> -s[v].adds[a]]
    OBVIOUS
  <2>2. adds \in [Accounts -> Int]
    BY <1>3, <2>1, VouchersAreListed
  <2>3. "reversal" \in VoucherKinds /\ "POSTED" \in VoucherStatus
    BY DEF VoucherKinds, VoucherStatus
  <2> QED
    BY <1>1, <2>1, <2>2, <2>3, NewVoucherIsTyped
<1>6. t \in Seq(Voucher) /\ DOMAIN r \subseteq DOMAIN t /\ ClosingsOf(t) = ClosingsOf(r)
  BY <1>2, <1>4, <1>5, VoucherIsAdded
<1>7. ClosingsOf(r) = ClosingsOf(s)
  BY <1>4 DEF ClosingsOf
<1>8. /\ job' \in [Clients -> VoucherJobs] /\ VouchersAreThere'
      /\ \A d \in Clients : Closes(job'[d]) => job'[d] = job[d]
  BY <1>1, <1>2, <1>4, <1>6, NoVoucherJob, VoucherJobStays
<1>9. OneClosing' /\ ClosingIsCurrent'
  BY <1>1, <1>2, <1>6, <1>7, <1>8, ClosingStays
<1>10. VoucherTypeOK'
  BY <1>1, <1>2, <1>6, VouchersOfInv DEF VoucherTypeOK
<1> QED
  BY <1>8, <1>9, <1>10 DEF VoucherInv

\* The first closing reads what the ledger says of the trade.
LEMMA ClosingReadKeeps ==
  ASSUME VoucherInv, NEW c \in Clients, ClosingRead(c) PROVE VoucherInv'
<1>1. PICK r, e : r = Balance("revenue") /\ e = Balance("expense")
  OBVIOUS
<1> DEFINE j == [op |-> "closing", stage |-> "create", revenue |-> r, expense |-> e]
<1>2. /\ job[c] = NoJob /\ job' = [job EXCEPT ![c] = j]
      /\ closings' = closings + 1 /\ moved' = FALSE /\ vouchers' = vouchers
  BY <1>1 DEF ClosingRead, Accept
<1>3. j.op = "closing" /\ j.revenue = r /\ j.expense = e
  OBVIOUS
<1>4. r \in Int /\ e \in Int
  <2>1. \A a \in Accounts : Balance(a) \in Int
    <3> SUFFICES ASSUME NEW a \in Accounts PROVE Balance(a) \in Int
      OBVIOUS
    <3>1. PICK s, S : s = vouchers /\ S = InLedger
      OBVIOUS
    <3>2. s \in Seq(Voucher) /\ S \subseteq DOMAIN s
      BY <3>1, VouchersOfInv DEF InLedger
    <3>3. IsFiniteSet(S) /\ \A v \in S : s[v].adds[a] \in Int
      BY <3>2, VouchersAreListed, FS_Subset
    <3> DEFINE f == [v \in DOMAIN s |-> s[v].adds[a]]
    <3>4. \A v \in S : f[v] \in Int
      BY <3>2, <3>3
    <3>5. Balance(a) = SumFunctionOnSet(f, S)
      BY <3>1 DEF Balance
    <3> HIDE DEF f
    <3> QED
      BY <3>3, <3>4, <3>5, SumIsInt
  <2> QED
    BY <1>1, <2>1 DEF Accounts
<1>5. j \in VoucherJobs
  BY <1>4 DEF VoucherJobs, ClosingJobs
<1> HIDE DEF j
<1>6. /\ job' \in [Clients -> VoucherJobs] /\ job'[c] = j
      /\ \A d \in Clients \ {c} : job'[d] = job[d]
  BY <1>2, <1>5 DEF VoucherInv
<1>7. VoucherTypeOK'
  <2>1. closings + 1 \in Nat /\ vouchers \in Seq(Voucher)
    BY VouchersOfInv
  <2>2. closings' \in Nat /\ vouchers' \in Seq(Voucher)
    BY <1>2, <2>1
  <2>3. moved' \in BOOLEAN
    BY <1>2
  <2> QED
    BY <2>2, <2>3, Zenon DEF VoucherTypeOK
<1>8. VouchersAreThere'
  BY <1>2, <1>3, <1>6 DEF VoucherInv, VouchersAreThere, WorksOn
<1>9. OneClosing' /\ ClosingIsCurrent'
  <2>1. CASE closings # 0
    <3>1. closings' # 0 /\ closings' # 1
      BY <1>2, <2>1, VouchersOfInv
    <3> QED
      BY <3>1 DEF OneClosing, ClosingIsCurrent
  <2>2. CASE closings = 0
    <3>1. /\ ClosingsOf(vouchers) = {} /\ \A d \in Clients : ~Closes(job[d])
          /\ closings' = 1
      BY <1>2, <2>2 DEF VoucherInv, OneClosing
    <3>2. \A d \in Clients : Closes(job'[d]) => d = c
      BY <1>6, <3>1
    <3>3. ClosingsOf(vouchers') = {}
      BY <1>2, <3>1
    <3>4. OneClosing'
      BY <3>1, <3>2, <3>3 DEF OneClosing
    <3>5. r = TradeSum(vouchers, "revenue") /\ e = TradeSum(vouchers, "expense")
      BY <1>1, <3>1, BalanceOfTrade DEF VoucherInv
    <3>6. PICK s : s = vouchers /\ s = vouchers'
      BY <1>2
    <3>7. \A d \in Clients : Closes(job'[d]) =>
            /\ job'[d].revenue = TradeSum(s, "revenue")
            /\ job'[d].expense = TradeSum(s, "expense")
      BY <1>3, <1>6, <3>2, <3>5, <3>6
    <3>8. ClosingIsCurrent'
      BY <3>3, <3>6, <3>7 DEF ClosingIsCurrent
    <3> QED
      BY <3>4, <3>8
  <2> QED
    BY <2>1, <2>2
<1> QED
  BY <1>6, <1>7, <1>8, <1>9 DEF VoucherInv

\* ... and its voucher transfers it.
LEMMA ClosingCreateKeeps ==
  ASSUME VoucherInv, NEW c \in Clients, ClosingCreate(c) PROVE VoucherInv'
<1>1. PICK r, e, s, t, w :
        /\ r = job[c].revenue /\ e = job[c].expense /\ s = vouchers /\ t = vouchers'
        /\ w = NewVoucher("closing", "DRAFT", Transfer(r, e))
  OBVIOUS
<1>2. /\ job[c].op = "closing" /\ job' = [job EXCEPT ![c] = NoJob] /\ t = Append(s, w)
      /\ UNCHANGED <<closings, moved>>
  BY <1>1 DEF ClosingCreate, At, Reply, Continue
<1>3. r \in Int /\ e \in Int /\ s \in Seq(Voucher)
  BY <1>1, <1>2, JobsOfVouchers, VouchersOfInv DEF VoucherInv, ClosingJobs
<1>4. /\ w \in Voucher /\ w.kind = "closing" /\ w.status = "DRAFT"
      /\ w.adds = Transfer(r, e)
  <2>1. "closing" \in VoucherKinds /\ "DRAFT" \in VoucherStatus
    BY DEF VoucherKinds, VoucherStatus
  <2>2. PICK adds : adds = Transfer(r, e)
    OBVIOUS
  <2>3. adds \in [Accounts -> Int]
    BY <1>3, <2>2, EntriesAreTyped
  <2> QED
    BY <1>1, <2>1, <2>2, <2>3, NewVoucherIsTyped
<1>5. /\ t \in Seq(Voucher) /\ DOMAIN t = DOMAIN s \cup {Len(s) + 1}
      /\ Len(s) + 1 \notin DOMAIN s /\ t[Len(s) + 1] = w
      /\ \A v \in DOMAIN s : t[v] = s[v]
  BY <1>2, <1>3, <1>4, VoucherIsAppended
<1>6. SameTrade(s, t) /\ ClosingsOf(t) = ClosingsOf(s) \cup {Len(s) + 1}
  BY <1>3, <1>4, <1>5 DEF SameTrade, TradeOf, ClosingsOf
<1>7. /\ job' \in [Clients -> VoucherJobs] /\ VouchersAreThere'
      /\ \A d \in Clients : Closes(job'[d]) => job'[d] = job[d]
  BY <1>1, <1>2, <1>5, NoVoucherJob, VoucherJobStays
<1>8. VoucherTypeOK'
  <2>1. moved' \in BOOLEAN
    BY <1>2, VouchersOfInv, Zenon
  <2> QED
    BY <1>1, <1>2, <1>5, <2>1, VouchersOfInv DEF VoucherTypeOK
<1>9. Closes(job[c]) /\ ~Closes(job'[c])
  BY <1>2, NoVoucherJob DEF Closes, VoucherInv
<1>10. closings # 0
  BY <1>9 DEF VoucherInv, OneClosing
<1>11. ASSUME closings = 1
       PROVE  ClosingsOf(s) = {} /\ \A d \in Clients : ~Closes(job'[d])
  <2>1. \A v \in ClosingsOf(vouchers) : FALSE
    BY <1>9, <1>11 DEF VoucherInv, OneClosing
  <2>2. \A d \in Clients : Closes(job'[d]) => d # c /\ Closes(job[d])
    BY <1>7, <1>9, Zenon
  <2>3. \A d \in Clients : Closes(job[d]) => d = c
    BY <1>9, <1>11 DEF VoucherInv, OneClosing
  <2> QED
    BY <1>1, <2>1, <2>2, <2>3
<1>12. OneClosing'
  BY <1>1, <1>2, <1>6, <1>10, <1>11 DEF OneClosing
<1>13. ClosingIsCurrent'
  <2>1. SUFFICES ASSUME closings = 1, ~moved PROVE ClosingIsCurrent'
    BY <1>2 DEF ClosingIsCurrent
  <2>2. r = TradeSum(s, "revenue") /\ e = TradeSum(s, "expense")
    BY <1>1, <1>9, <2>1 DEF VoucherInv, ClosingIsCurrent
  <2>3. r = TradeSum(t, "revenue") /\ e = TradeSum(t, "expense")
    BY <1>6, <2>2, TradeSumIsSame DEF Accounts
  <2>4. \A v \in ClosingsOf(t) :
          t[v].adds = Transfer(TradeSum(t, "revenue"), TradeSum(t, "expense"))
    BY <1>4, <1>5, <1>6, <1>11, <2>1, <2>3
  <2>5. \A d \in Clients : ~Closes(job'[d])
    BY <1>11, <2>1
  <2> QED
    BY <1>1, <2>4, <2>5 DEF ClosingIsCurrent
<1> QED
  BY <1>7, <1>8, <1>12, <1>13 DEF VoucherInv

LEMMA LockPeriodKeeps == ASSUME VoucherInv, NEW c \in Clients, LockPeriod(c) PROVE VoucherInv'
<1>1. PICK todo : todo = {v \in DOMAIN vouchers : vouchers[v].status = "APPROVED"}
  OBVIOUS
<1> DEFINE j == [op |-> "lock", stage |-> "post", todo |-> todo]
<1>2. job' = [job EXCEPT ![c] = j] /\ UNCHANGED voucherData
  BY <1>1 DEF LockPeriod, Accept
<1>3. j \in VoucherJobs /\ ~Closes(j) /\ WorksOn(j)
  BY <1>1, VouchersOfInv DEF VoucherJobs, LockJobs, Closes, WorksOn
<1> HIDE DEF j
<1> QED
  BY <1>2, <1>3, VouchersStand

LEMMA LockPostKeeps ==
  ASSUME VoucherInv, NEW c \in Clients, NEW v \in DOMAIN vouchers, LockPost(c, v)
  PROVE  VoucherInv'
<1>1. PICK old, todo, j : old = job[c] /\ todo = job[c].todo \ {v} /\ j = [old EXCEPT !.todo = todo]
  OBVIOUS
<1>2. /\ job[c].op = "lock" /\ job' = [job EXCEPT ![c] = j] /\ SetVoucher(v, "POSTED")
      /\ closings' = closings
  BY <1>1 DEF LockPost, At, Continue
<1>3. old \in LockJobs
  BY <1>1, <1>2, JobsOfVouchers DEF VoucherInv
<1>4. j \in LockJobs /\ j.op = "lock"
  BY <1>1, <1>3 DEF LockJobs
<1>5. j \in VoucherJobs /\ ~Closes(j) /\ WorksOn(j)
  BY <1>4 DEF VoucherJobs, Closes, WorksOn
<1> QED
  BY <1>2, <1>5, VoucherIsSet

LEMMA VoucherReplyKeeps ==
  ASSUME VoucherInv, NEW c \in Clients, LockDone(c) \/ VoucherDie(c) PROVE VoucherInv'
<1>1. job' = [job EXCEPT ![c] = NoJob] /\ UNCHANGED voucherData
  BY DEF LockDone, VoucherDie, Reply, Continue
<1> QED
  BY <1>1, NoVoucherJob, VouchersStand

LEMMA VouchersStutter == ASSUME VoucherInv, UNCHANGED voucherVars PROVE VoucherInv'
<1>1. UNCHANGED <<job, vouchers, closings, moved>>
  BY DEF voucherVars, voucherData, reqVars
<1>2. VoucherTypeOK'
  <2>1. moved' \in BOOLEAN
    BY <1>1, VouchersOfInv, Zenon
  <2> QED
    BY <1>1, <2>1, VouchersOfInv DEF VoucherTypeOK
<1>3. SameTrade(vouchers, vouchers') /\ vouchers' \in Seq(Voucher)
  BY <1>1, VouchersOfInv DEF SameTrade
<1>4. OneClosing' /\ ClosingIsCurrent'
  BY <1>1, <1>3, ClosingStays
<1> QED
  BY <1>1, <1>2, <1>4 DEF VoucherInv, VouchersAreThere, WorksOn

LEMMA VoucherNextInv == ASSUME VoucherInv, [VoucherNext]_voucherVars PROVE VoucherInv'
  BY CreateVoucherKeeps, ReadVoucherKeeps, SaveVoucherKeeps, ReverseVoucherCommitKeeps,
     ClosingReadKeeps, ClosingCreateKeeps, LockPeriodKeeps, LockPostKeeps, VoucherReplyKeeps,
     VouchersStutter DEF VoucherNext

LEMMA VoucherInvImplies == VoucherInv => ClosingLeavesNothing
<1> SUFFICES ASSUME VoucherInv, closings = 1, ~moved,
                    NEW v \in InLedger, vouchers[v].kind = "closing"
             PROVE  Balance("revenue") >= 0 /\ Balance("expense") <= 0
  BY DEF ClosingLeavesNothing
<1>1. v \in ClosingsOf(vouchers)
  BY DEF InLedger, ClosingsOf
<1>2. \A w \in ClosingsOf(vouchers) : w = v
  BY <1>1 DEF VoucherInv, OneClosing
<1>3. PICK r, e : r = TradeSum(vouchers, "revenue") /\ e = TradeSum(vouchers, "expense")
  OBVIOUS
<1>4. r \in Int /\ e \in Int
  BY <1>3, TradeSumIsInt, VouchersOfInv DEF Accounts
<1>5. vouchers[v].adds = Transfer(r, e)
  BY <1>1, <1>3 DEF VoucherInv, ClosingIsCurrent
<1>6. /\ Balance("revenue") = r + vouchers[v].adds["revenue"]
      /\ Balance("expense") = e + vouchers[v].adds["expense"]
  BY <1>2, <1>3, BalanceOfClosing DEF VoucherInv, Accounts
<1> QED
  BY <1>4, <1>5, <1>6, TransferTakesAll

(***************************************************************************)
(* Vouchers, and the history of the closings, have their types: whatever   *)
(* requests of VoucherService and PeriodEndService interleave, a request   *)
(* that saves or reverses a voucher does so to one that is there.          *)
(***************************************************************************)
THEOREM VouchersAreTyped == VoucherSpec => []VoucherTypeOK
<1>1. VoucherInv => VoucherTypeOK
  BY DEF VoucherInv
<1> QED
  BY <1>1, VoucherInitInv, VoucherNextInv, PTL DEF VoucherSpec

(***************************************************************************)
(* The transfer that PeriodEndService makes of the balances it has read    *)
(* empties revenue in credit and expense in debit once it is posted, for   *)
(* any number of vouchers, if nothing else moved the ledger since and the  *)
(* period was closed once.                                                 *)
(***************************************************************************)
THEOREM ClosingTransfersAll == VoucherSpec => []ClosingLeavesNothing
  BY VoucherInitInv, VoucherNextInv, VoucherInvImplies, PTL DEF VoucherSpec

-----------------------------------------------------------------------------
(***************************************************************************)
(* The accounts show what was paid, for any number of requests, payables   *)
(* and payments.                                                           *)
(*                                                                         *)
(* PaymentsAreKept speaks of the rows; what a request will write over them *)
(* it has computed before.  The invariant says of that what the property   *)
(* says of the rows (AccountsShow), how far a reconciliation has come when *)
(* only one request is at work on it (OneConfirmation), and that no two    *)
(* deliveries carry one event unless one was repeated (EventsDiffer).      *)
(***************************************************************************)

AccountStatus == {"PENDING", "PARTIAL", "PAID", "OVERDUE"}
AnAccount == [paid : Nat, status : AccountStatus]
Recon == [status : {"DRAFT", "CONFIRMED", "DISCREPANCY"},
          diff : Differences, created : BOOLEAN]
Payable == [event : 1..published, account : AnAccount]

ConfirmSaves == [op : {"confirmRecon"}, stage : {"save"},
                 row : [status : {"CONFIRMED", "DISCREPANCY"},
                        diff : Differences, created : BOOLEAN]]
ConfirmPublishes == [op : {"confirmRecon"}, stage : {"publish"}]
Pushes == [op : {"push"}, stage : {"publish", "read"}]
PushSaves == [op : {"push"}, stage : {"save"}, row : Recon]
Deliveries == [op : {"payable"}, stage : {"insert"}, event : Nat, no : Nat]
Pays == [op : {"pay"}, stage : {"save"}, on : Nat, sum : Nat, account : AnAccount]
PayJobs == ConfirmSaves \cup ConfirmPublishes \cup Pushes \cup PushSaves
           \cup Deliveries \cup Pays \cup {NoJob}

\* An account is settled just when it is covered.
Settled(account) == account.status = "PAID" <=> account.paid >= Amount

\* The rows, and what requests are about to write over them.
AccountsShow ==
  /\ \A a \in OpenAccounts :
       /\ Settled(Account(a))
       /\ a \notin mixed => Account(a).paid = received[a + 1]
  /\ \A c \in Clients : job[c].op = "pay" =>
       /\ job[c].on \in OpenAccounts /\ Settled(job[c].account)
       /\ job[c].on \notin mixed =>
            /\ job[c].account.paid = received[job[c].on + 1] + job[c].sum
            /\ \A d \in Clients \ {c} : ~(job[d].op = "pay" /\ job[d].on = job[c].on)

\* Of a reconciliation nobody has pushed.
OneConfirmation ==
  /\ ~twice => \A c, d \in Clients : OnRecon(c) /\ OnRecon(d) => c = d
  /\ ~twice /\ ~pushed =>
       /\ published <= 1
       /\ recon.status = "DRAFT" => published = 0
       /\ \A c \in Clients : OnRecon(c) =>
            /\ job[c].op # "push" /\ published = 0
            /\ job[c].stage = "publish" => recon.status # "DRAFT"

EventsDiffer ==
  /\ \A c \in Clients : job[c].op = "payable" => job[c].event \in 1..published
  /\ ~redelivered =>
       /\ \A i, j \in DOMAIN payable : payable[i].event = payable[j].event => i = j
       /\ \A c \in Clients : job[c].op = "payable" =>
            /\ \A i \in DOMAIN payable : payable[i].event # job[c].event
            /\ \A d \in Clients \ {c} :
                 ~(job[d].op = "payable" /\ job[d].event = job[c].event)

PayTypes ==
  /\ recon \in Recon
  /\ published \in Nat
  /\ payable \in Seq(Payable)
  /\ receivable \in AnAccount
  /\ received \in Seq(Nat) /\ Len(received) = Len(payable) + 1
  /\ mixed \subseteq Nat
  /\ job \in [Clients -> PayJobs]

PayInv == PayTypes /\ AccountsShow /\ OneConfirmation /\ EventsDiffer

LEMMA PayJobStays ==
  ASSUME NEW c \in Clients, NEW j \in PayJobs,
         job \in [Clients -> PayJobs], job' = [job EXCEPT ![c] = j]
  PROVE  /\ job' \in [Clients -> PayJobs]
         /\ job'[c] = j
         /\ \A d \in Clients \ {c} : job'[d] = job[d]
OBVIOUS

LEMMA NoJobPays ==
  /\ NoJob \in PayJobs
  /\ NoJob.op \notin {"pay", "payable", "confirmRecon", "push"}
BY DEF NoJob, PayJobs

LEMMA RowsAreListed ==
  ASSUME PayTypes
  PROVE  /\ Len(payable) \in Nat /\ DOMAIN payable = 1..Len(payable)
         /\ OpenAccounts = 0..Len(payable)
         /\ \A i \in 1..Len(payable) : payable[i] \in Payable
         /\ \A a \in OpenAccounts : received[a + 1] \in Nat
         /\ \A a \in OpenAccounts : Account(a) \in AnAccount
<1>1. /\ Len(payable) \in Nat /\ DOMAIN payable = 1..Len(payable)
      /\ \A i \in 1..Len(payable) : payable[i] \in Payable
  BY LenProperties, ElementOfSeq DEF PayTypes
<1>2. /\ DOMAIN received = 1..(Len(payable) + 1)
      /\ \A i \in 1..(Len(payable) + 1) : received[i] \in Nat
  BY LenProperties, ElementOfSeq DEF PayTypes
<1>3. OpenAccounts = 0..Len(payable)
  BY <1>1 DEF OpenAccounts
<1>4. \A a \in OpenAccounts : Account(a) \in AnAccount
  <2> SUFFICES ASSUME NEW a \in OpenAccounts PROVE Account(a) \in AnAccount
    OBVIOUS
  <2>1. CASE a = 0
    BY <2>1 DEF Account, PayTypes
  <2>2. CASE a # 0
    <3>1. a \in 1..Len(payable)
      BY <1>1, <1>3, <2>2
    <3> QED
      BY <1>1, <2>2, <3>1 DEF Account, Payable
  <2> QED
    BY <2>1, <2>2
<1> QED
  BY <1>1, <1>2, <1>3, <1>4

LEMMA PayIsOne ==
  ASSUME NEW c \in Clients, job \in [Clients -> PayJobs], job[c].op = "pay"
  PROVE  job[c] \in Pays
BY DEF PayJobs, ConfirmSaves, ConfirmPublishes, Pushes, PushSaves, Deliveries, NoJob

LEMMA DeliveryIsOne ==
  ASSUME NEW c \in Clients, job \in [Clients -> PayJobs], job[c].op = "payable"
  PROVE  job[c] \in Deliveries
BY DEF PayJobs, ConfirmSaves, ConfirmPublishes, Pushes, PushSaves, Pays, NoJob

LEMMA ConfirmationIsOne ==
  ASSUME NEW c \in Clients, job \in [Clients -> PayJobs], job[c].op = "confirmRecon"
  PROVE  job[c] \in ConfirmSaves \cup ConfirmPublishes
BY DEF PayJobs, Deliveries, Pushes, PushSaves, Pays, NoJob

LEMMA PushIsOne ==
  ASSUME NEW c \in Clients, job \in [Clients -> PayJobs], job[c].op = "push"
  PROVE  job[c] \in Pushes \cup PushSaves
BY DEF PayJobs, ConfirmSaves, ConfirmPublishes, Deliveries, Pays, NoJob

(***************************************************************************)
(* What a step of one kind of request leaves alone.                        *)
(***************************************************************************)
LEMMA AccountsStay ==
  ASSUME PayTypes, AccountsShow, NEW c \in Clients, NEW j \in PayJobs, j.op # "pay",
         job' = [job EXCEPT ![c] = j],
         UNCHANGED <<payable, receivable, received, mixed>>
  PROVE  AccountsShow'
<1>1. job'[c] = j /\ \A d \in Clients \ {c} : job'[d] = job[d]
  BY PayJobStays DEF PayTypes
<1>2. OpenAccounts' = OpenAccounts /\ \A a \in OpenAccounts : Account(a)' = Account(a)
  BY DEF OpenAccounts, Account
<1>3. \A d \in Clients : job'[d].op = "pay" => d # c /\ job'[d] = job[d]
  BY <1>1
<1> QED
  BY <1>1, <1>2, <1>3 DEF AccountsShow

LEMMA ConfirmationStays ==
  ASSUME PayTypes, OneConfirmation, NEW c \in Clients, NEW j \in PayJobs,
         j.op \notin {"confirmRecon", "push"},
         job' = [job EXCEPT ![c] = j],
         UNCHANGED <<recon, published, pushed, twice>>
  PROVE  OneConfirmation'
<1>1. job'[c] = j /\ \A d \in Clients \ {c} : job'[d] = job[d]
  BY PayJobStays DEF PayTypes
<1>2. \A d \in Clients : OnRecon(d)' => OnRecon(d) /\ job'[d] = job[d]
  BY <1>1 DEF OnRecon
<1> QED
  BY <1>2 DEF OneConfirmation

LEMMA EventsStay ==
  ASSUME PayTypes, EventsDiffer, NEW c \in Clients, NEW j \in PayJobs,
         j.op # "payable", job' = [job EXCEPT ![c] = j],
         DOMAIN payable' = DOMAIN payable,
         \A i \in DOMAIN payable : payable'[i].event = payable[i].event,
         published' \in {published, published + 1}, UNCHANGED redelivered
  PROVE  EventsDiffer'
<1>1. job'[c] = j /\ \A d \in Clients \ {c} : job'[d] = job[d]
  BY PayJobStays DEF PayTypes
<1>2. \A d \in Clients : job'[d].op = "payable" => d # c /\ job'[d] = job[d]
  BY <1>1
<1>3. 1..published \subseteq 1..published'
  BY DEF PayTypes
<1> QED
  BY <1>1, <1>2, <1>3 DEF EventsDiffer

\* The events of the payables stay within those published.
LEMMA PublishedGrows ==
  ASSUME PayTypes, published' \in {published, published + 1}, UNCHANGED payable
  PROVE  payable' \in Seq(Payable)'
<1>1. Payable \subseteq Payable'
  BY DEF Payable, PayTypes
<1> QED
  BY <1>1, SeqMonotonic DEF PayTypes

(***************************************************************************)
(* Requests on the reconciliation.                                         *)
(***************************************************************************)
LEMMA ReconStepKeeps ==
  ASSUME PayInv, NEW c \in Clients, NEW j \in PayJobs,
         j.op \notin {"pay", "payable"}, job' = [job EXCEPT ![c] = j],
         recon' \in Recon, published' \in {published, published + 1},
         UNCHANGED <<payable, receivable, received, mixed, redelivered>>,
         OneConfirmation'
  PROVE  PayInv'
<1>1. PayTypes'
  BY PayJobStays, PublishedGrows DEF PayInv, PayTypes
<1>2. AccountsShow'
  BY AccountsStay DEF PayInv
<1>3. EventsDiffer'
  BY EventsStay DEF PayInv
<1> QED
  BY <1>1, <1>2, <1>3 DEF PayInv

LEMMA ConfirmKeeps ==
  ASSUME PayInv, NEW c \in Clients, ConfirmRecon(c)
  PROVE  PayInv'
<1> DEFINE j == [op |-> "confirmRecon", stage |-> "save",
                 row |-> [recon EXCEPT !.status = ConfirmedAs(recon.diff)]]
<1>1. j \in PayJobs /\ j.op = "confirmRecon" /\ j.stage = "save"
  BY DEF PayInv, PayTypes, Recon, PayJobs, ConfirmSaves, ConfirmedAs
<1>2. /\ recon.status = "DRAFT" /\ job[c] = NoJob /\ job' = [job EXCEPT ![c] = j]
      /\ twice' = (twice \/ \E d \in Clients : OnRecon(d))
      /\ UNCHANGED <<recon, published, payable, receivable, received, mixed,
                     pushed, redelivered>>
  BY DEF ConfirmRecon, Accept, payDocs
<1> HIDE DEF j
<1>3. job'[c] = j /\ \A d \in Clients \ {c} : job'[d] = job[d]
  BY <1>1, <1>2, PayJobStays DEF PayInv, PayTypes
<1>4. ~twice' => ~twice /\ \A d \in Clients : OnRecon(d)' => d = c
  BY <1>2, <1>3 DEF OnRecon
<1>5. OneConfirmation'
  <2>1. ~twice' => \A d, e \in Clients : OnRecon(d)' /\ OnRecon(e)' => d = e
    BY <1>4
  <2>2. ASSUME ~twice', ~pushed'
        PROVE  /\ published' <= 1 /\ (recon'.status = "DRAFT" => published' = 0)
               /\ \A d \in Clients : OnRecon(d)' =>
                    /\ job'[d].op # "push" /\ published' = 0
                    /\ job'[d].stage = "publish" => recon'.status # "DRAFT"
    BY <1>1, <1>2, <1>3, <1>4, <2>2 DEF PayInv, OneConfirmation
  <2> QED
    BY <2>1, <2>2 DEF OneConfirmation, OnRecon
<1> QED
  BY <1>1, <1>2, <1>5, ReconStepKeeps DEF PayInv, PayTypes

LEMMA SaveConfirmedKeeps ==
  ASSUME PayInv, NEW c \in Clients, SaveConfirmed(c)
  PROVE  PayInv'
<1> DEFINE j == IF job[c].row.status = "CONFIRMED"
                THEN [op |-> "confirmRecon", stage |-> "publish"] ELSE NoJob
<1>1. job[c] \in ConfirmSaves /\ OnRecon(c)
  BY ConfirmationIsOne DEF SaveConfirmed, At, OnRecon, PayInv, PayTypes,
                           ConfirmPublishes
<1>2. job[c].row \in Recon /\ job[c].row.status # "DRAFT"
  BY <1>1 DEF ConfirmSaves, Recon
<1>3. j \in PayJobs /\ j.op \in {"confirmRecon", "none"}
  BY DEF PayJobs, ConfirmPublishes, NoJob
<1>4. /\ recon' = job[c].row /\ job' = [job EXCEPT ![c] = j]
      /\ UNCHANGED <<published, payable, receivable, received, mixed, pushed,
                     twice, redelivered>>
  BY DEF SaveConfirmed, Continue, Reply, payPast
<1> HIDE DEF j
<1>5. job'[c] = j /\ \A d \in Clients \ {c} : job'[d] = job[d]
  BY <1>3, <1>4, PayJobStays DEF PayInv, PayTypes
<1>6. \A d \in Clients : OnRecon(d)' => OnRecon(d)
  BY <1>1, <1>5 DEF OnRecon
<1>7. OneConfirmation'
  <2>1. ~twice' => \A d, e \in Clients : OnRecon(d)' /\ OnRecon(e)' => d = e
    BY <1>4, <1>6 DEF PayInv, OneConfirmation
  <2>2. ASSUME ~twice', ~pushed'
        PROVE  /\ published' <= 1 /\ (recon'.status = "DRAFT" => published' = 0)
               /\ \A d \in Clients : OnRecon(d)' =>
                    /\ job'[d].op # "push" /\ published' = 0
                    /\ job'[d].stage = "publish" => recon'.status # "DRAFT"
    BY <1>1, <1>2, <1>3, <1>4, <1>5, <1>6, <2>2 DEF PayInv, OneConfirmation
  <2> QED
    BY <2>1, <2>2 DEF OneConfirmation, OnRecon
<1> QED
  BY <1>2, <1>3, <1>4, <1>7, ReconStepKeeps

LEMMA PublishConfirmedKeeps ==
  ASSUME PayInv, NEW c \in Clients, PublishConfirmed(c)
  PROVE  PayInv'
<1>1. OnRecon(c) /\ job[c].stage = "publish"
  BY DEF PublishConfirmed, At, OnRecon
<1>2. /\ published' = published + 1 /\ job' = [job EXCEPT ![c] = NoJob]
      /\ UNCHANGED <<recon, payable, receivable, received, mixed, pushed, twice,
                     redelivered>>
  BY DEF PublishConfirmed, Reply, Continue, payPast
<1>3. job'[c] = NoJob /\ \A d \in Clients \ {c} : job'[d] = job[d]
  BY <1>2, PayJobStays, NoJobPays DEF PayInv, PayTypes
<1>4. \A d \in Clients : OnRecon(d)' => d # c /\ OnRecon(d)
  BY <1>3, NoJobPays DEF OnRecon
<1>5. OneConfirmation'
  <2>1. ~twice' => \A d \in Clients : ~OnRecon(d)'
    BY <1>1, <1>2, <1>4 DEF PayInv, OneConfirmation
  <2>2. ~twice' /\ ~pushed' => published' <= 1 /\ recon'.status # "DRAFT"
    BY <1>1, <1>2 DEF PayInv, OneConfirmation
  <2> QED
    BY <2>1, <2>2 DEF OneConfirmation, OnRecon
<1> QED
  BY <1>2, <1>5, NoJobPays, ReconStepKeeps DEF PayInv, PayTypes

LEMMA PushKeeps ==
  ASSUME PayInv, NEW c \in Clients, Push(c)
  PROVE  PayInv'
<1> DEFINE j == [op |-> "push", stage |-> "publish"]
<1>1. j \in PayJobs /\ j.op = "push"
  BY DEF PayJobs, Pushes
<1>2. /\ job' = [job EXCEPT ![c] = j] /\ pushed' = TRUE
      /\ twice' = (twice \/ \E d \in Clients : OnRecon(d))
      /\ UNCHANGED <<recon, published, payable, receivable, received, mixed,
                     redelivered>>
  BY DEF Push, Accept, payDocs
<1> HIDE DEF j
<1>3. job'[c] = j /\ \A d \in Clients \ {c} : job'[d] = job[d]
  BY <1>1, <1>2, PayJobStays DEF PayInv, PayTypes
<1>4. ~twice' => \A d \in Clients : OnRecon(d)' => d = c
  BY <1>2, <1>3 DEF OnRecon
<1>5. OneConfirmation'
  BY <1>2, <1>4 DEF OneConfirmation
<1> QED
  BY <1>1, <1>2, <1>5, ReconStepKeeps DEF PayInv, PayTypes

\* The steps of a push: once pushed, only the number of requests counts.
LEMMA PushStepKeeps ==
  ASSUME PayInv, NEW c \in Clients, NEW j \in PayJobs, job[c].op = "push",
         j.op \in {"push", "none"}, job' = [job EXCEPT ![c] = j],
         recon' \in Recon, published' \in {published, published + 1},
         UNCHANGED <<payable, receivable, received, mixed, pushed, twice, redelivered>>
  PROVE  PayInv'
<1>1. job'[c] = j /\ \A d \in Clients \ {c} : job'[d] = job[d]
  BY PayJobStays DEF PayInv, PayTypes
<1>2. OnRecon(c) /\ \A d \in Clients : OnRecon(d)' => OnRecon(d)
  BY <1>1 DEF OnRecon
<1>3. OneConfirmation'
  BY <1>2 DEF PayInv, OneConfirmation
<1> QED
  BY <1>3, ReconStepKeeps

(***************************************************************************)
(* Deliveries of PAYABLE_CREATED.                                          *)
(***************************************************************************)
LEMMA DeliverKeeps ==
  ASSUME PayInv, NEW c \in Clients, NEW e \in 1..published, Deliver(c, e)
  PROVE  PayInv'
<1> DEFINE j == [op |-> "payable", stage |-> "insert", event |-> e,
                 no |-> Len(payable) + 1]
<1>1. j \in PayJobs /\ j.op = "payable" /\ j.event = e
  BY RowsAreListed DEF PayInv, PayTypes, PayJobs, Deliveries
<1>2. /\ job[c] = NoJob /\ job' = [job EXCEPT ![c] = j]
      /\ redelivered' = (redelivered \/ Delivered(e))
      /\ UNCHANGED <<recon, published, payable, receivable, received, mixed,
                     pushed, twice>>
  BY DEF Deliver, Accept, payDocs
<1> HIDE DEF j
<1>3. job'[c] = j /\ \A d \in Clients \ {c} : job'[d] = job[d]
  BY <1>1, <1>2, PayJobStays DEF PayInv, PayTypes
<1>4. EventsDiffer'
  <2>1. \A d \in Clients : job'[d].op = "payable" => job'[d].event \in 1..published
    BY <1>1, <1>3 DEF PayInv, EventsDiffer
  <2>2. ASSUME ~redelivered'
        PROVE  /\ \A i, k \in DOMAIN payable :
                    payable[i].event = payable[k].event => i = k
               /\ \A i \in DOMAIN payable : payable[i].event # e
               /\ \A d \in Clients \ {c} : ~(job[d].op = "payable" /\ job[d].event = e)
    BY <1>2, <2>2 DEF PayInv, EventsDiffer, Delivered
  <2>3. ASSUME ~redelivered', NEW b \in Clients, job'[b].op = "payable"
        PROVE  /\ \A i \in DOMAIN payable : payable[i].event # job'[b].event
               /\ \A d \in Clients \ {b} :
                    ~(job'[d].op = "payable" /\ job'[d].event = job'[b].event)
    <3>1. CASE b = c
      BY <1>1, <1>3, <2>2, <2>3, <3>1
    <3>2. CASE b # c
      <4>1. job'[b] = job[b] /\ job[b].op = "payable" /\ job[b].event # e
        BY <1>3, <2>2, <2>3, <3>2
      <4>2. ~redelivered
        BY <1>2, <2>3
      <4>3. /\ \A i \in DOMAIN payable : payable[i].event # job[b].event
            /\ \A d \in Clients \ {b} :
                 ~(job[d].op = "payable" /\ job[d].event = job[b].event)
        BY <4>1, <4>2 DEF PayInv, EventsDiffer
      <4> QED
        BY <1>1, <1>3, <4>1, <4>3
    <3> QED
      BY <3>1, <3>2
  <2> QED
    BY <1>2, <2>1, <2>2, <2>3 DEF EventsDiffer
<1>5. PayTypes'
  BY <1>1, <1>2, PayJobStays, PublishedGrows DEF PayInv, PayTypes
<1> QED
  BY <1>1, <1>2, <1>4, <1>5, AccountsStay, ConfirmationStays DEF PayInv

LEMMA AppendedPayable ==
  ASSUME PayTypes, NEW e \in 1..published,
         payable' = Append(payable, [event |-> e, account |-> Unpaid]),
         received' = Append(received, 0), UNCHANGED published
  PROVE  /\ payable' \in Seq(Payable)'
         /\ Len(payable') = Len(payable) + 1 /\ DOMAIN payable' = 1..(Len(payable) + 1)
         /\ payable'[Len(payable) + 1] = [event |-> e, account |-> Unpaid]
         /\ \A i \in 1..Len(payable) : payable'[i] = payable[i]
         /\ received' \in Seq(Nat) /\ Len(received') = Len(payable') + 1
         /\ received'[Len(payable) + 2] = 0
         /\ \A a \in 0..Len(payable) : received'[a + 1] = received[a + 1]
<1>1. Unpaid \in AnAccount
  BY DEF Unpaid, AnAccount, AccountStatus
<1>2. [event |-> e, account |-> Unpaid] \in Payable
  BY <1>1 DEF Payable
<1>3. Len(payable) \in Nat
  BY RowsAreListed
<1>4. payable' \in Seq(Payable) /\ Payable' = Payable
  BY <1>2 DEF PayTypes, Payable
<1>5. /\ Len(payable') = Len(payable) + 1
      /\ payable'[Len(payable) + 1] = [event |-> e, account |-> Unpaid]
      /\ \A i \in 1..Len(payable) : payable'[i] = payable[i]
  BY <1>2, <1>3 DEF PayTypes
<1>6. DOMAIN payable' = 1..(Len(payable) + 1)
  BY <1>4, <1>5, LenProperties
<1>7. /\ received' \in Seq(Nat) /\ Len(received') = Len(payable) + 2
      /\ received'[Len(payable) + 2] = 0
      /\ \A a \in 0..Len(payable) : received'[a + 1] = received[a + 1]
  BY <1>3 DEF PayTypes
<1> QED
  BY <1>3, <1>4, <1>5, <1>6, <1>7

LEMMA InsertPayableKeeps ==
  ASSUME PayInv, NEW c \in Clients, InsertPayable(c)
  PROVE  PayInv'
<1>0. PICK e : e = job[c].event
  OBVIOUS
<1>1. /\ job[c].op = "payable" /\ e \in 1..published
      /\ job' = [job EXCEPT ![c] = NoJob]
      /\ UNCHANGED <<recon, published, receivable, mixed, pushed, twice, redelivered>>
  BY <1>0 DEF InsertPayable, At, Reply, Continue, PayInv, EventsDiffer
<1>2. job'[c] = NoJob /\ \A d \in Clients \ {c} : job'[d] = job[d]
  BY <1>1, PayJobStays, NoJobPays DEF PayInv, PayTypes
<1>3. OneConfirmation'
  BY <1>1, NoJobPays, ConfirmationStays DEF PayInv
<1>4. CASE ~NumberIsFree(job[c].no)
  <2>1. UNCHANGED <<payable, received>>
    BY <1>4 DEF InsertPayable
  <2>2. PayTypes'
    BY <1>1, <2>1, NoJobPays, PayJobStays, PublishedGrows DEF PayInv, PayTypes
  <2>3. AccountsShow' /\ EventsDiffer'
    BY <1>1, <2>1, NoJobPays, AccountsStay, EventsStay DEF PayInv
  <2> QED
    BY <1>3, <2>2, <2>3 DEF PayInv
<1>5. CASE NumberIsFree(job[c].no)
  <2>0. PICK n \in Nat : n = Len(payable) + 1
    BY RowsAreListed DEF PayInv
  <2>1. /\ payable' = Append(payable, [event |-> e, account |-> Unpaid])
        /\ received' = Append(received, 0)
    BY <1>0, <1>5 DEF InsertPayable
  <2>2. /\ payable' \in Seq(Payable)' /\ DOMAIN payable' = 1..n
        /\ payable'[n] = [event |-> e, account |-> Unpaid]
        /\ \A i \in 1..Len(payable) : payable'[i] = payable[i]
        /\ received' \in Seq(Nat) /\ Len(received') = Len(payable') + 1
        /\ received'[n + 1] = 0
        /\ \A a \in 0..Len(payable) : received'[a + 1] = received[a + 1]
    BY <1>1, <2>0, <2>1, AppendedPayable, RowsAreListed DEF PayInv
  <2>3. /\ Len(payable) = n - 1 /\ DOMAIN payable = 1..(n - 1) /\ n >= 1
        /\ OpenAccounts = 0..(n - 1)
    BY <2>0, RowsAreListed DEF PayInv
  <2>4. PayTypes'
    BY <1>1, <2>2, NoJobPays, PayJobStays DEF PayInv, PayTypes
  <2>5. OpenAccounts' = 0..n
    BY <2>2 DEF OpenAccounts
  <2>6. /\ \A a \in 0..Len(payable) : Account(a)' = Account(a)
        /\ Account(n)' = Unpaid
    <3>1. Account(n)' = Unpaid
      BY <2>2, <2>3 DEF Account
    <3>2. ASSUME NEW a \in 0..(n - 1) PROVE Account(a)' = Account(a)
      <4>1. receivable' = receivable
        BY <1>1
      <4>2. a # 0 => a \in 1..Len(payable)
        BY <2>3, <3>2
      <4>3. a # 0 => payable'[a] = payable[a]
        BY <2>2, <4>2
      <4> QED
        BY <4>1, <4>3 DEF Account
    <3> QED
      BY <2>3, <3>1, <3>2
  <2>7. Settled(Unpaid) /\ Unpaid.paid = 0
    BY AmountAssumption DEF Settled, Unpaid
  <2>8. AccountsShow'
    <3>1. ASSUME NEW a \in 0..n
          PROVE  /\ Settled(Account(a))'
                 /\ a \notin mixed' => Account(a)'.paid = received'[a + 1]
      <4>1. CASE a = n
        BY <2>2, <2>6, <2>7, <4>1 DEF Settled
      <4>2. CASE a # n
        <5>1. a \in OpenAccounts
          BY <2>3, <4>2
        <5> QED
          BY <1>1, <2>2, <2>3, <2>6, <4>2, <5>1 DEF PayInv, AccountsShow, Settled
      <4> QED
        BY <4>1, <4>2
    <3>2. ASSUME NEW d \in Clients, job'[d].op = "pay"
          PROVE  /\ job'[d].on \in OpenAccounts' /\ Settled(job'[d].account)
                 /\ job'[d].on \notin mixed' =>
                      /\ job'[d].account.paid = received'[job'[d].on + 1] + job'[d].sum
                      /\ \A b \in Clients \ {d} :
                           ~(job'[b].op = "pay" /\ job'[b].on = job'[d].on)
      <4>1. d # c /\ job'[d] = job[d]
        BY <1>2, <3>2, NoJobPays
      <4>2. job[d].on \in 0..Len(payable)
        BY <2>3, <3>2, <4>1 DEF PayInv, AccountsShow
      <4>3. \A b \in Clients : job'[b].op = "pay" => job'[b] = job[b]
        BY <1>2, NoJobPays
      <4>4. /\ job[d].on \in OpenAccounts /\ Settled(job[d].account)
            /\ job[d].on \notin mixed =>
                 /\ job[d].account.paid = received[job[d].on + 1] + job[d].sum
                 /\ \A b \in Clients \ {d} :
                      ~(job[b].op = "pay" /\ job[b].on = job[d].on)
        BY <3>2, <4>1 DEF PayInv, AccountsShow
      <4>5. job[d].on \in 0..n
        BY <2>3, <4>2
      <4>6. received'[job[d].on + 1] = received[job[d].on + 1]
        BY <2>2, <4>2
      <4> QED
        BY <1>1, <2>5, <4>1, <4>3, <4>4, <4>5, <4>6
    <3> QED
      BY <2>5, <3>1, <3>2 DEF AccountsShow, Settled
  <2>9. EventsDiffer'
    <3>1. \A d \in Clients : job'[d].op = "payable" => d # c /\ job'[d] = job[d]
      BY <1>2, NoJobPays
    <3>2. ASSUME ~redelivered
          PROVE  /\ \A i \in 1..(n - 1) : payable[i].event # e
                 /\ \A d \in Clients \ {c} : job[d].op = "payable" => job[d].event # e
      BY <1>0, <1>1, <2>3, <3>2 DEF PayInv, EventsDiffer
    <3>3. ASSUME ~redelivered, NEW i \in 1..n, NEW k \in 1..n,
                 payable'[i].event = payable'[k].event
          PROVE  i = k
      <4>1. \A m \in 1..(n - 1) : payable'[m] = payable[m] /\ payable[m].event # e
        BY <2>2, <2>3, <3>2, <3>3
      <4>2. payable'[n].event = e
        BY <2>2
      <4>3. \A l, m \in 1..(n - 1) : payable[l].event = payable[m].event => l = m
        BY <2>3, <3>3 DEF PayInv, EventsDiffer
      <4>4. i \in 1..(n - 1) \/ i = n
        OBVIOUS
      <4>5. k \in 1..(n - 1) \/ k = n
        OBVIOUS
      <4> QED
        BY <3>3, <4>1, <4>2, <4>3, <4>4, <4>5
    <3>4. ASSUME ~redelivered, NEW d \in Clients, job'[d].op = "payable"
          PROVE  /\ \A i \in 1..n : payable'[i].event # job'[d].event
                 /\ \A b \in Clients \ {d} :
                      ~(job'[b].op = "payable" /\ job'[b].event = job'[d].event)
      <4>1. d # c /\ job'[d] = job[d] /\ job[d].op = "payable" /\ job[d].event # e
        BY <3>1, <3>2, <3>4
      <4>2. \A i \in 1..(n - 1) : payable'[i].event # job[d].event
        <5>1. \A i \in 1..(n - 1) : payable[i].event # job[d].event
          BY <2>3, <3>4, <4>1 DEF PayInv, EventsDiffer
        <5> QED
          BY <2>2, <2>3, <5>1
      <4>3. payable'[n].event # job[d].event
        BY <2>2, <4>1
      <4>4. \A b \in Clients \ {d} : job'[b].op = "payable" => job[b].event # job[d].event
        BY <3>1, <3>4, <4>1 DEF PayInv, EventsDiffer
      <4> QED
        BY <3>1, <4>1, <4>2, <4>3, <4>4
    <3> QED
      BY <1>1, <2>2, <3>1, <3>3, <3>4 DEF PayInv, EventsDiffer
  <2> QED
    BY <1>3, <2>4, <2>8, <2>9 DEF PayInv
<1> QED
  BY <1>4, <1>5

(***************************************************************************)
(* Requests on an account.                                                 *)
(***************************************************************************)
\* A request that has read an account, and what it is going to save.
LEMMA ReadKeeps ==
  ASSUME PayInv, NEW c \in Clients, NEW a \in OpenAccounts, NEW sum \in Nat,
         NEW account \in AnAccount, Settled(account),
         account.paid = Account(a).paid + sum,
         Accept(c, [op |-> "pay", stage |-> "save", on |-> a, sum |-> sum,
                    account |-> account]),
         Mix(a), UNCHANGED <<payDocs, received, pushed, twice, redelivered>>
  PROVE  PayInv'
<1> DEFINE j == [op |-> "pay", stage |-> "save", on |-> a, sum |-> sum,
                 account |-> account]
<1>1. /\ a \in Nat /\ received[a + 1] \in Nat /\ Account(a) \in AnAccount
  BY RowsAreListed DEF PayInv
<1>2. /\ j \in PayJobs /\ j.op = "pay" /\ j.on = a /\ j.sum = sum
      /\ j.account = account
  BY <1>1 DEF PayJobs, Pays
<1>3. /\ job[c] = NoJob /\ job' = [job EXCEPT ![c] = j]
      /\ UNCHANGED <<recon, published, payable, receivable, received, pushed,
                     twice, redelivered>>
  BY DEF Accept, payDocs
<1> HIDE DEF j
<1>4. job'[c] = j /\ \A d \in Clients \ {c} : job'[d] = job[d]
  BY <1>2, <1>3, PayJobStays DEF PayInv, PayTypes
<1>5. /\ mixed \subseteq mixed' /\ mixed' \subseteq mixed \cup {a}
      /\ a \notin mixed' => \A d \in Clients : ~(job[d].op = "pay" /\ job[d].on = a)
  BY DEF Mix
<1>6. PayTypes'
  BY <1>1, <1>2, <1>3, <1>5, PayJobStays, PublishedGrows DEF PayInv, PayTypes
<1>7. AccountsShow'
  <2>1. OpenAccounts' = OpenAccounts /\ \A b \in OpenAccounts : Account(b)' = Account(b)
    BY <1>3 DEF OpenAccounts, Account
  <2>2. ASSUME NEW d \in Clients, job'[d].op = "pay"
        PROVE  /\ job'[d].on \in OpenAccounts /\ Settled(job'[d].account)
               /\ job'[d].on \notin mixed' =>
                    /\ job'[d].account.paid = received[job'[d].on + 1] + job'[d].sum
                    /\ \A b \in Clients \ {d} :
                         ~(job'[b].op = "pay" /\ job'[b].on = job'[d].on)
    <3>1. CASE d = c
      <4>1. job'[d] = j
        BY <1>4, <3>1
      <4>2. a \notin mixed' => Account(a).paid = received[a + 1]
        BY <1>5 DEF PayInv, AccountsShow
      <4> QED
        BY <1>2, <1>4, <1>5, <3>1, <4>1, <4>2
    <3>2. CASE d # c
      <4>1. job'[d] = job[d] /\ job[d].op = "pay"
        BY <1>4, <2>2, <3>2
      <4>2. /\ job[d].on \in OpenAccounts /\ Settled(job[d].account)
            /\ job[d].on \notin mixed =>
                 /\ job[d].account.paid = received[job[d].on + 1] + job[d].sum
                 /\ \A b \in Clients \ {d} :
                      ~(job[b].op = "pay" /\ job[b].on = job[d].on)
        BY <4>1 DEF PayInv, AccountsShow
      <4>3. job[d].on \notin mixed' => job[d].on # a
        BY <1>5, <4>1
      <4> QED
        BY <1>2, <1>4, <1>5, <4>1, <4>2, <4>3
    <3> QED
      BY <3>1, <3>2
  <2>3. ASSUME NEW b \in OpenAccounts
        PROVE  /\ Settled(Account(b))
               /\ b \notin mixed' => Account(b).paid = received[b + 1]
    BY <1>5 DEF PayInv, AccountsShow
  <2> QED
    BY <1>3, <2>1, <2>2, <2>3 DEF AccountsShow, Settled
<1>8. OneConfirmation' /\ EventsDiffer'
  BY <1>2, <1>3, ConfirmationStays, EventsStay DEF PayInv
<1> QED
  BY <1>6, <1>7, <1>8 DEF PayInv

LEMMA RecordPaymentKeeps ==
  ASSUME PayInv, NEW c \in Clients, NEW a \in OpenAccounts, NEW sum \in Payments,
         RecordPayment(c, a, sum)
  PROVE  PayInv'
<1>1. Account(a) \in AnAccount /\ sum \in Nat
  BY RowsAreListed, PaymentsAssumption DEF PayInv
<1>2. /\ After(Account(a), sum) \in AnAccount /\ Settled(After(Account(a), sum))
      /\ After(Account(a), sum).paid = Account(a).paid + sum
  BY <1>1, AmountAssumption DEF After, AnAccount, AccountStatus, Settled
<1> QED
  BY <1>1, <1>2, ReadKeeps DEF RecordPayment

LEMMA MarkPlanItemKeeps ==
  ASSUME PayInv, NEW c \in Clients, NEW a \in OpenAccounts, MarkPlanItem(c, a)
  PROVE  PayInv'
<1>1. Account(a) \in AnAccount /\ Settled(Account(a))
  BY RowsAreListed DEF PayInv, AccountsShow
<1>2. Account(a).paid = Account(a).paid + 0
  BY <1>1 DEF AnAccount
<1> QED
  BY <1>1, <1>2, ReadKeeps DEF MarkPlanItem

\* The rows and the sums after the job of client c was saved.
LEMMA SavedAccount ==
  ASSUME PayTypes, AccountsShow, NEW c \in Clients, SaveAccount(c)
  PROVE  /\ payable' \in Seq(Payable) /\ Len(payable') = Len(payable)
         /\ receivable' \in AnAccount
         /\ received' \in Seq(Nat) /\ Len(received') = Len(received)
         /\ \A i \in DOMAIN payable : payable'[i].event = payable[i].event
         /\ OpenAccounts' = OpenAccounts
         /\ \A a \in OpenAccounts :
              /\ Account(a)' = IF a = job[c].on THEN job[c].account ELSE Account(a)
              /\ received'[a + 1] = IF a = job[c].on THEN received[a + 1] + job[c].sum
                                    ELSE received[a + 1]
<1>1. /\ job[c].op = "pay" /\ job[c] \in Pays /\ job[c].on \in OpenAccounts
  BY PayIsOne DEF SaveAccount, At, PayTypes, AccountsShow
<1>2. PICK on \in OpenAccounts, sum \in Nat, account \in AnAccount :
         on = job[c].on /\ sum = job[c].sum /\ account = job[c].account
  BY <1>1 DEF Pays
<1>3. /\ Len(payable) \in Nat /\ DOMAIN payable = 1..Len(payable)
      /\ OpenAccounts = 0..Len(payable)
      /\ \A i \in 1..Len(payable) : payable[i] \in Payable
      /\ \A a \in OpenAccounts : received[a + 1] \in Nat
  BY RowsAreListed
<1>4. /\ received' = [received EXCEPT ![on + 1] = @ + sum]
      /\ IF on = 0 THEN receivable' = account /\ payable' = payable
         ELSE /\ payable' = [payable EXCEPT ![on].account = account]
              /\ receivable' = receivable
  BY <1>2 DEF SaveAccount
<1>5. /\ DOMAIN received = 1..(Len(payable) + 1) /\ on + 1 \in DOMAIN received
      /\ received[on + 1] + sum \in Nat
  <2>1. DOMAIN received = 1..(Len(payable) + 1)
    BY <1>3, LenProperties DEF PayTypes
  <2>2. on \in 0..Len(payable) /\ received[on + 1] \in Nat
    BY <1>2, <1>3
  <2> QED
    BY <1>2, <1>3, <2>1, <2>2
<1>6. /\ received' \in Seq(Nat) /\ Len(received') = Len(received)
      /\ \A a \in OpenAccounts :
           received'[a + 1] = IF a = on THEN received[a + 1] + sum ELSE received[a + 1]
  <2>1. received' \in Seq(Nat) /\ Len(received') = Len(received)
    BY <1>4, <1>5, ExceptSeq DEF PayTypes
  <2>2. ASSUME NEW a \in OpenAccounts
        PROVE  received'[a + 1] = IF a = on THEN received[a + 1] + sum ELSE received[a + 1]
    BY <1>2, <1>3, <1>4, <1>5
  <2> QED
    BY <2>1, <2>2
<1>7. CASE on = 0
  <2>1. payable' = payable /\ receivable' = account
    BY <1>4, <1>7
  <2>2. OpenAccounts' = OpenAccounts
    BY <2>1 DEF OpenAccounts
  <2>3. \A a \in OpenAccounts : Account(a)' = IF a = on THEN account ELSE Account(a)
    BY <1>7, <2>1 DEF Account
  <2> QED
    BY <1>2, <1>6, <2>1, <2>2, <2>3 DEF PayTypes
<1>8. CASE on # 0
  <2>1. on \in 1..Len(payable)
    BY <1>2, <1>3, <1>8
  <2>2. payable' = [payable EXCEPT ![on].account = account] /\ receivable' = receivable
    BY <1>4, <1>8
  <2>3. [payable[on] EXCEPT !.account = account] \in Payable
    BY <1>2, <1>3, <2>1 DEF Payable
  <2>4. payable' = [payable EXCEPT ![on] = [payable[on] EXCEPT !.account = account]]
    BY <2>2
  <2>5. payable' \in Seq(Payable) /\ Len(payable') = Len(payable)
    BY <1>3, <2>1, <2>3, <2>4, ExceptSeq DEF PayTypes
  <2>6. /\ DOMAIN payable' = DOMAIN payable
        /\ payable'[on] = [payable[on] EXCEPT !.account = account]
        /\ \A i \in 1..Len(payable) : i # on => payable'[i] = payable[i]
    BY <1>3, <2>1, <2>4
  <2>7. payable'[on].account = account /\ payable'[on].event = payable[on].event
    BY <1>3, <2>1, <2>6 DEF Payable
  <2>8. \A i \in DOMAIN payable : payable'[i].event = payable[i].event
    BY <1>3, <2>6, <2>7
  <2>9. OpenAccounts' = OpenAccounts
    BY <2>6 DEF OpenAccounts
  <2>10. ASSUME NEW a \in OpenAccounts
         PROVE  Account(a)' = IF a = on THEN account ELSE Account(a)
    <3>1. CASE a = 0
      BY <1>8, <2>2, <3>1 DEF Account
    <3>2. CASE a # 0
      <4>1. a \in 1..Len(payable)
        BY <1>3, <3>2
      <4> QED
        BY <2>6, <2>7, <3>2, <4>1 DEF Account
    <3> QED
      BY <3>1, <3>2
  <2> QED
    BY <1>2, <1>6, <2>2, <2>5, <2>8, <2>9, <2>10 DEF PayTypes
<1> QED
  BY <1>7, <1>8

LEMMA SaveAccountKeeps ==
  ASSUME PayInv, NEW c \in Clients, SaveAccount(c)
  PROVE  PayInv'
<1> DEFINE on == job[c].on
<1>1. /\ job[c].op = "pay" /\ job[c] \in Pays /\ on \in OpenAccounts
      /\ Settled(job[c].account)
      /\ on \notin mixed =>
           /\ job[c].account.paid = received[on + 1] + job[c].sum
           /\ \A d \in Clients \ {c} : ~(job[d].op = "pay" /\ job[d].on = on)
  BY PayIsOne DEF SaveAccount, At, PayInv, PayTypes, AccountsShow
<1>2. /\ job' = [job EXCEPT ![c] = NoJob]
      /\ UNCHANGED <<recon, published, mixed, pushed, twice, redelivered>>
  BY DEF SaveAccount, Reply, Continue
<1>3. job'[c] = NoJob /\ \A d \in Clients \ {c} : job'[d] = job[d]
  BY <1>2, PayJobStays, NoJobPays DEF PayInv, PayTypes
<1>4. PayTypes'
  BY <1>2, SavedAccount, PayJobStays, NoJobPays DEF PayInv, PayTypes, Payable
<1>5. AccountsShow'
  <2>1. ASSUME NEW a \in OpenAccounts
        PROVE  /\ Settled(Account(a))'
               /\ a \notin mixed => Account(a)'.paid = received'[a + 1]
    <3>1. Settled(Account(a)) /\ (a \notin mixed => Account(a).paid = received[a + 1])
      BY DEF PayInv, AccountsShow
    <3>2. /\ Account(a)' = IF a = on THEN job[c].account ELSE Account(a)
          /\ received'[a + 1] = IF a = on THEN received[a + 1] + job[c].sum
                                ELSE received[a + 1]
      BY SavedAccount DEF PayInv
    <3> QED
      BY <1>1, <3>1, <3>2 DEF Settled
  <2>2. ASSUME NEW d \in Clients, job'[d].op = "pay"
        PROVE  /\ job'[d].on \in OpenAccounts /\ Settled(job'[d].account)
               /\ job'[d].on \notin mixed =>
                    /\ job'[d].account.paid = received'[job'[d].on + 1] + job'[d].sum
                    /\ \A b \in Clients \ {d} :
                         ~(job'[b].op = "pay" /\ job'[b].on = job'[d].on)
    <3>1. d # c /\ job'[d] = job[d] /\ job[d].op = "pay"
      BY <1>3, <2>2, NoJobPays
    <3>2. /\ job[d].on \in OpenAccounts /\ Settled(job[d].account)
          /\ job[d].on \notin mixed =>
               /\ job[d].account.paid = received[job[d].on + 1] + job[d].sum
               /\ \A b \in Clients \ {d} :
                    ~(job[b].op = "pay" /\ job[b].on = job[d].on)
      BY <3>1 DEF PayInv, AccountsShow
    <3>3. job[d].on \notin mixed => on # job[d].on
      BY <1>1, <3>1, <3>2
    <3>4. job[d].on # on => received'[job[d].on + 1] = received[job[d].on + 1]
      BY <3>2, SavedAccount DEF PayInv
    <3>5. \A b \in Clients : job'[b].op = "pay" => job'[b] = job[b]
      BY <1>3, NoJobPays
    <3> QED
      BY <3>1, <3>2, <3>3, <3>4, <3>5
  <2>3. OpenAccounts' = OpenAccounts
    BY SavedAccount DEF PayInv
  <2> QED
    BY <1>2, <2>1, <2>2, <2>3 DEF AccountsShow, Settled
<1>6. OneConfirmation'
  BY <1>2, NoJobPays, ConfirmationStays DEF PayInv
<1>7. EventsDiffer'
  <2>1. DOMAIN payable' = DOMAIN payable
    BY SavedAccount, LenProperties DEF PayInv, PayTypes
  <2>2. \A i \in DOMAIN payable : payable'[i].event = payable[i].event
    BY SavedAccount DEF PayInv
  <2> QED
    BY <1>2, <2>1, <2>2, NoJobPays, EventsStay DEF PayInv
<1> QED
  BY <1>4, <1>5, <1>6, <1>7 DEF PayInv

\* A receivable that is overdue is not settled, and was not before.
LEMMA MarkOverdueKeeps ==
  ASSUME PayInv, MarkOverdue
  PROVE  PayInv'
<1>1. /\ receivable.status \in {"PENDING", "PARTIAL"}
      /\ receivable' = [receivable EXCEPT !.status = "OVERDUE"]
      /\ UNCHANGED <<recon, published, payable, received, mixed, pushed, twice,
                     redelivered, job>>
  BY DEF MarkOverdue, Once, payPast
<1>2. /\ receivable' \in AnAccount /\ receivable'.paid = receivable.paid
      /\ receivable'.status = "OVERDUE"
  BY <1>1 DEF PayInv, PayTypes, AnAccount, AccountStatus
<1>3. PayTypes'
  BY <1>1, <1>2, PublishedGrows DEF PayInv, PayTypes
<1>4. AccountsShow'
  <2>1. OpenAccounts' = OpenAccounts
    BY <1>1 DEF OpenAccounts
  <2>2. ASSUME NEW a \in OpenAccounts
        PROVE  /\ Settled(Account(a))'
               /\ a \notin mixed => Account(a)'.paid = received[a + 1]
    <3>1. Settled(Account(a)) /\ (a \notin mixed => Account(a).paid = received[a + 1])
      BY DEF PayInv, AccountsShow
    <3>2. CASE a = 0
      BY <1>1, <1>2, <3>1, <3>2 DEF Account, Settled
    <3>3. CASE a # 0
      BY <1>1, <3>1, <3>3 DEF Account, Settled
    <3> QED
      BY <3>2, <3>3
  <2> QED
    BY <1>1, <2>1, <2>2 DEF PayInv, AccountsShow, Settled
<1>5. OneConfirmation'
  BY <1>1 DEF PayInv, OneConfirmation, OnRecon
<1>6. EventsDiffer'
  BY <1>1 DEF PayInv, EventsDiffer
<1> QED
  BY <1>3, <1>4, <1>5, <1>6 DEF PayInv

LEMMA PayDieKeeps ==
  ASSUME PayInv, NEW c \in Clients, PayDie(c)
  PROVE  PayInv'
<1>1. /\ job' = [job EXCEPT ![c] = NoJob]
      /\ UNCHANGED <<recon, published, payable, receivable, received, mixed, pushed,
                     twice, redelivered>>
  BY DEF PayDie, Reply, Continue, payData, payDocs, payPast
<1>2. OneConfirmation'
  BY <1>1, NoJobPays, ConfirmationStays DEF PayInv
<1> QED
  BY <1>1, <1>2, NoJobPays, ReconStepKeeps DEF PayInv, PayTypes

(***************************************************************************)
(* The invariant.                                                          *)
(***************************************************************************)
LEMMA PayInitially == ReqInit /\ PayInit => PayInv
<1> SUFFICES ASSUME ReqInit, PayInit PROVE PayInv
  OBVIOUS
<1>1. /\ recon \in Recon /\ recon.status = "DRAFT" /\ published = 0 /\ payable = << >>
      /\ receivable = Unpaid /\ received = <<0>> /\ mixed = {}
      /\ \A c \in Clients : job[c] = NoJob
  BY DEF ReqInit, PayInit, Recon
<1>2. Unpaid \in AnAccount /\ Unpaid.paid = 0 /\ Settled(Unpaid)
  BY AmountAssumption DEF Unpaid, AnAccount, AccountStatus, Settled
<1>3. PayTypes
  <2>1. job \in [Clients -> PayJobs]
    BY NoJobPays DEF ReqInit
  <2>2. received \in Seq(Nat) /\ Len(received) = 1 /\ Len(payable) = 0
    BY <1>1
  <2>3. payable \in Seq(Payable)
    BY <1>1
  <2> QED
    BY <1>1, <1>2, <2>1, <2>2, <2>3 DEF PayTypes
<1>4. AccountsShow
  <2>1. OpenAccounts = {0}
    BY <1>1 DEF OpenAccounts
  <2>2. Account(0) = Unpaid /\ received[0 + 1] = 0
    BY <1>1 DEF Account
  <2> QED
    BY <1>1, <1>2, <2>1, <2>2, NoJobPays DEF AccountsShow
<1>5. OneConfirmation
  BY <1>1, NoJobPays DEF OneConfirmation, OnRecon
<1>6. EventsDiffer
  BY <1>1, NoJobPays DEF EventsDiffer
<1> QED
  BY <1>3, <1>4, <1>5, <1>6 DEF PayInv

LEMMA PayStepKeeps == PayInv /\ [PayNext]_payVars => PayInv'
<1> SUFFICES ASSUME PayInv, [PayNext]_payVars PROVE PayInv'
  OBVIOUS
<1>1. ASSUME NEW c \in Clients, PublishPushed(c) PROVE PayInv'
  <2>1. [op |-> "push", stage |-> "read"] \in PayJobs
    BY DEF PayJobs, Pushes
  <2> QED
    BY <1>1, <2>1, PushStepKeeps
       DEF PublishPushed, At, Continue, payPast, PayInv, PayTypes
<1>2. ASSUME NEW c \in Clients, ReadPushed(c) PROVE PayInv'
  <2>1. [op |-> "push", stage |-> "save",
         row |-> [recon EXCEPT !.created = TRUE]] \in PayJobs
    BY DEF PayJobs, PushSaves, Recon, PayInv, PayTypes
  <2> QED
    BY <1>2, <2>1, PushStepKeeps
       DEF ReadPushed, At, Continue, payData, payDocs, payPast, PayInv, PayTypes
<1>3. ASSUME NEW c \in Clients, SavePushed(c) PROVE PayInv'
  <2>1. job[c].op = "push" /\ job[c].stage = "save" /\ recon' = job[c].row
    BY <1>3 DEF SavePushed, At
  <2>2. job[c].row \in Recon
    BY <2>1, PushIsOne DEF PayInv, PayTypes, Pushes, PushSaves
  <2> QED
    BY <1>3, <2>1, <2>2, NoJobPays, PushStepKeeps
       DEF SavePushed, Reply, Continue, payPast, NoJob
<1>4. CASE UNCHANGED payVars
  <2>1. UNCHANGED <<recon, published, payable, receivable, received, mixed, pushed,
                    twice, redelivered, job>>
    BY <1>4 DEF payVars, payData, payDocs, payPast, reqVars
  <2>2. PayTypes'
    BY <2>1, PublishedGrows DEF PayInv, PayTypes
  <2>3. AccountsShow'
    BY <2>1 DEF PayInv, AccountsShow, OpenAccounts, Account
  <2>4. OneConfirmation' /\ EventsDiffer'
    BY <2>1 DEF PayInv, OneConfirmation, OnRecon, EventsDiffer
  <2> QED
    BY <2>2, <2>3, <2>4 DEF PayInv
<1> QED
  BY <1>1, <1>2, <1>3, <1>4, ConfirmKeeps, SaveConfirmedKeeps, PublishConfirmedKeeps,
     PushKeeps, DeliverKeeps, InsertPayableKeeps, RecordPaymentKeeps,
     MarkPlanItemKeeps, SaveAccountKeeps, PayDieKeeps, MarkOverdueKeeps
     DEF PayNext

LEMMA PayAlways == PaySpec => []PayInv
BY PayInitially, PayStepKeeps, PTL DEF PaySpec

(***************************************************************************)
(* The rows, and what requests have read of them, have their types:        *)
(* received holds one sum per account (PayableService, ReceivableService). *)
(***************************************************************************)
THEOREM PayablesAreTyped == PaySpec => []PayTypeOK
<1>1. PayInv => PayTypeOK
  BY DEF PayInv, PayTypes, PayTypeOK, Recon, Payable, AnAccount, AccountStatus
<1> QED
  BY <1>1, PayAlways, PTL

(***************************************************************************)
(* recordPayment of either service, updatePaymentPlanItem, markOverdue and *)
(* createFromEvent keep the status of an account with its sum, and its sum *)
(* with what was paid unless two requests worked on it at once; and a      *)
(* reconciliation confirmed once leads to one payable at most.             *)
(***************************************************************************)
THEOREM PaymentsStayKept == PaySpec => []PaymentsAreKept
<1>1. ASSUME PayInv PROVE PaymentsAreKept
  <2>1. \A a \in OpenAccounts :
          /\ Account(a).status = "PAID" <=> Account(a).paid >= Amount
          /\ a \notin mixed => Account(a).paid = received[a + 1]
    BY <1>1 DEF PayInv, AccountsShow, Settled
  <2>2. ASSUME ~pushed, ~twice, ~redelivered PROVE Len(payable) <= 1
    <3>1. published \in Nat /\ published <= 1
      BY <1>1, <2>2 DEF PayInv, PayTypes, OneConfirmation
    <3>2. /\ Len(payable) \in Nat /\ DOMAIN payable = 1..Len(payable)
          /\ \A i \in 1..Len(payable) : payable[i].event \in 1..published
      BY <1>1, RowsAreListed DEF PayInv, Payable
    <3>3. \A i, k \in 1..Len(payable) : payable[i].event = payable[k].event => i = k
      BY <1>1, <2>2, <3>2 DEF PayInv, EventsDiffer
    <3>4. \A i \in 1..Len(payable) : payable[i].event = 1
      BY <3>1, <3>2
    <3>5. ASSUME Len(payable) > 1 PROVE FALSE
      <4>1. 1 \in 1..Len(payable) /\ 2 \in 1..Len(payable)
        BY <3>2, <3>5
      <4> QED
        BY <3>3, <3>4, <4>1
    <3> QED
      BY <3>2, <3>5
  <2> QED
    BY <2>1, <2>2 DEF PaymentsAreKept
<1> QED
  BY <1>1, PayAlways, PTL

-----------------------------------------------------------------------------
(***************************************************************************)
(* The cost rollup of a bill of material: what a finished rollup saves is  *)
(* the cost of the bill, for any bills, lines, prices and requests.        *)
(*                                                                         *)
(* A rollup works off a list of bills with multiplicities and never looks  *)
(* at a bill twice. Its invariant (RollupsFit) relates three things while  *)
(* no line was changed under it: what it has counted, what the list is     *)
(* still worth, and the full cost of the bill. Counted and to be counted   *)
(* come to no more than the full cost, and to exactly that if no bill is   *)
(* named by two lines (CountsUp), because then each bill comes once        *)
(* (ComeOnce) and nothing is passed over.                                  *)
(*                                                                         *)
(* The full cost is defined by rounds over all bills, as many rounds as    *)
(* there are bills; a bill that is not made of itself has its cost after   *)
(* as many rounds as there are bills below it, by induction on that        *)
(* number, and so its cost is that of its lines (FullCostIsFixed).         *)
(***************************************************************************)

LEMMA Stays ==
  ASSUME bomLine' = bomLine
  PROVE  /\ \A b : FullCost(b)' = FullCost(b)
         /\ \A b : Loops(b)' = Loops(b)
         /\ \A b : Shares(b)' = Shares(b)
<1>0. \A b, C : CostOfLines(b, C)' = CostOfLines(b, C)
  BY DEF CostOfLines, FoldLeft, MapThenFoldSet
<1>1. \A b : FullCost(b)' = FullCost(b)
  BY <1>0 DEF FullCost
<1>2. \A b : MadeWith(b)' = MadeWith(b)
  BY DEF MadeWith, MadeOf, MadeLines
<1>3. \A b : MadeOf(b)' = MadeOf(b)
  BY DEF MadeOf, MadeLines
<1>4. \A b : MadeLines(b)' = MadeLines(b)
  BY DEF MadeLines
<1>5. \A b : Loops(b)' = Loops(b)
  BY <1>2, <1>3 DEF Loops
<1>6. \A b : Shares(b)' = Shares(b)
  BY <1>2, <1>4 DEF Shares
<1> QED
  BY <1>1, <1>5, <1>6

-----------------------------------------------------------------------------
(* What a bill is made of *)

LinesTyped == bomLine \in [Boms -> Seq(BomLines)]

LEMMA LineAt ==
  ASSUME LinesTyped, NEW b \in Boms, NEW i \in DOMAIN bomLine[b]
  PROVE  /\ bomLine[b] \in Seq(BomLines) /\ bomLine[b][i] \in BomLines
         /\ bomLine[b][i].part \in Parts
         /\ bomLine[b][i].quantity \in Nat /\ StdCost[bomLine[b][i].part] \in Nat
         /\ IsMade(bomLine[b][i]) =>
              BomOf[bomLine[b][i].part] \in Boms /\ StdCost[bomLine[b][i].part] = 0
         /\ ~IsMade(bomLine[b][i]) =>
              StdCost[bomLine[b][i].part] # 0 \/ BomOf[bomLine[b][i].part] = NoBom
<1>1. bomLine[b] \in Seq(BomLines)
  BY DEF LinesTyped
<1>2. bomLine[b][i] \in BomLines
  BY <1>1
<1>3. bomLine[b][i].part \in Parts /\ bomLine[b][i].quantity \in Nat
  BY <1>2, QuantitiesAssumption DEF BomLines
<1> QED
  BY <1>1, <1>2, <1>3, BomOfAssumption, StdCostAssumption DEF IsMade

LEMMA MadeOfBoms ==
  ASSUME LinesTyped, NEW b \in Boms
  PROVE  MadeOf(b) \subseteq Boms
BY LineAt DEF MadeOf, MadeLines

Closed(T) == \A a \in T : MadeOf(a) \subseteq T

MadeNext(T) == T \cup UNION {MadeOf(a) : a \in T}

\* The sets MadeWith goes through
Reaches(r, b) ==
  r = [n \in 0..Cardinality(Boms) |-> IF n = 0 THEN {b}
                                     ELSE r[n - 1] \cup UNION {MadeOf(a) : a \in r[n - 1]}]

LEMMA MadeWithIsReached ==
  ASSUME NEW b
  PROVE  MadeWith(b) = (CHOOSE r : Reaches(r, b))[Cardinality(Boms)]
BY DEF MadeWith, Reaches

LEMMA ReachExists ==
  ASSUME LinesTyped, NEW b \in Boms
  PROVE  \E r \in [0..Cardinality(Boms) -> SUBSET Boms] :
           /\ MadeWith(b) = r[Cardinality(Boms)] /\ r[0] = {b}
           /\ \A n \in 1..Cardinality(Boms) : r[n] = MadeNext(r[n - 1])
<1>1. PICK N : N = Cardinality(Boms)
  OBVIOUS
<1>2. N \in Nat
  BY <1>1, FS_CardinalityType, BomsAssumption
<1>3. PICK f : f = [x \in (1..N) \X SUBSET Boms |-> MadeNext(x[2])]
  OBVIOUS
<1>4. \A T \in SUBSET Boms : MadeNext(T) \in SUBSET Boms
  BY MadeOfBoms DEF MadeNext
<1>5. \A k \in 1..N, T \in SUBSET Boms : f[<<k, T>>] = MadeNext(T)
  BY <1>3
<1>6. CanRun(N, SUBSET Boms, f, {b})
  BY <1>2, <1>4, <1>5 DEF CanRun
<1>7. PICK g \in [0..N -> SUBSET Boms] :
        /\ g[0] = {b}
        /\ \A k \in 1..N : g[k - 1] \in SUBSET Boms /\ g[k] = f[<<k, g[k - 1]>>]
  BY <1>6, NatRecursion
<1>8. \A k \in 0..N : k # 0 => k \in 1..N
  BY <1>2
<1>9. Reaches(g, b)
  <2>1. \A n \in 0..N : g[n] = IF n = 0 THEN {b} ELSE MadeNext(g[n - 1])
    BY <1>5, <1>7, <1>8
  <2>2. g = [n \in 0..N |-> IF n = 0 THEN {b} ELSE MadeNext(g[n - 1])]
    BY <2>1
  <2> QED
    BY <1>1, <2>2 DEF Reaches, MadeNext
<1>10. PICK r : r = CHOOSE h : Reaches(h, b)
  OBVIOUS
<1>11. Reaches(r, b)
  BY <1>9, <1>10
<1>12. r = [n \in 0..N |-> IF n = 0 THEN {b} ELSE MadeNext(r[n - 1])]
  BY <1>1, <1>11 DEF Reaches, MadeNext
<1>13. r[0] = {b} /\ \A n \in 1..N : r[n] = MadeNext(r[n - 1])
  <2>1. 0 \in 0..N /\ \A n \in 1..N : n \in 0..N /\ n # 0
    BY <1>2
  <2> QED
    BY <1>12, <2>1
<1>14. \A n \in 0..N : r[n] \in SUBSET Boms
  <2> DEFINE P == {n \in Nat : n <= N => r[n] \in SUBSET Boms}
  <2>1. 0 \in P
    BY <1>13
  <2>2. ASSUME NEW n \in Nat, n \in P PROVE n + 1 \in P
    <3> SUFFICES ASSUME n + 1 <= N PROVE r[n + 1] \in SUBSET Boms
      OBVIOUS
    <3>1. r[n] \in SUBSET Boms /\ n + 1 \in 1..N /\ (n + 1) - 1 = n
      BY <1>2, <2>2
    <3>2. r[n + 1] = MadeNext(r[n])
      BY <1>13, <3>1
    <3> QED
      BY <1>4, <3>1, <3>2
  <2> HIDE DEF P
  <2>3. Nat \subseteq P
    BY <2>1, <2>2, NatSetInduction
  <2> QED
    BY <1>2, <2>3 DEF P
<1>15. r \in [0..N -> SUBSET Boms]
  BY <1>12, <1>14
<1> QED
  BY <1>1, <1>10, <1>13, <1>15, MadeWithIsReached

\* MadeWith(b) is the least set that holds b and what its bills are made of.
LEMMA MadeWithIsLeast ==
  ASSUME LinesTyped, NEW b \in Boms
  PROVE  /\ b \in MadeWith(b) /\ MadeWith(b) \subseteq Boms /\ Closed(MadeWith(b))
         /\ \A T \in SUBSET Boms : b \in T /\ Closed(T) => MadeWith(b) \subseteq T
<1>1. PICK N : N = Cardinality(Boms)
  OBVIOUS
<1>2. N \in Nat
  BY <1>1, FS_CardinalityType, BomsAssumption
<1>3. PICK r \in [0..N -> SUBSET Boms] :
        /\ MadeWith(b) = r[N] /\ r[0] = {b}
        /\ \A n \in 1..N : r[n] = MadeNext(r[n - 1])
  BY <1>1, ReachExists
<1>4. ASSUME NEW n \in Nat, n + 1 <= N
      PROVE  r[n] \in SUBSET Boms /\ r[n + 1] = MadeNext(r[n]) /\ r[n] \subseteq r[n + 1]
  <2>1. n + 1 \in 1..N /\ (n + 1) - 1 = n /\ n \in 0..N
    BY <1>2, <1>4
  <2>2. r[n + 1] = MadeNext(r[n])
    BY <1>3, <2>1
  <2> QED
    BY <1>3, <2>1, <2>2 DEF MadeNext
<1>5. ASSUME NEW T \in SUBSET Boms, b \in T, Closed(T) PROVE r[N] \subseteq T
  <2> DEFINE P == {n \in Nat : n <= N => r[n] \subseteq T}
  <2>1. 0 \in P
    BY <1>3, <1>5
  <2>2. ASSUME NEW n \in Nat, n \in P PROVE n + 1 \in P
    <3> SUFFICES ASSUME n + 1 <= N PROVE r[n + 1] \subseteq T
      OBVIOUS
    <3>1. r[n] \subseteq T /\ r[n + 1] = MadeNext(r[n])
      BY <1>2, <1>4, <2>2
    <3> QED
      BY <1>5, <3>1 DEF MadeNext, Closed
  <2> HIDE DEF P
  <2>3. Nat \subseteq P
    BY <2>1, <2>2, NatSetInduction
  <2> QED
    BY <1>2, <2>3 DEF P
<1> DEFINE Grown(n) == b \in r[n] /\ (Closed(r[n]) \/ Cardinality(r[n]) >= n + 1)
           Q == {n \in Nat : n <= N => Grown(n)}
<1>6. 0 \in Q
  <2>1. Cardinality({b}) = 1
    BY FS_Singleton
  <2>2. b \in r[0] /\ Cardinality(r[0]) >= 0 + 1
    BY <1>3, <2>1
  <2> QED
    BY <2>2
<1>7. ASSUME NEW n \in Nat, n \in Q PROVE n + 1 \in Q
  <2> SUFFICES ASSUME n + 1 <= N PROVE Grown(n + 1)
    OBVIOUS
  <2>1. Grown(n) /\ r[n + 1] = MadeNext(r[n]) /\ r[n] \in SUBSET Boms
        /\ r[n] \subseteq r[n + 1] /\ r[n + 1] \in SUBSET Boms
    BY <1>2, <1>3, <1>4, <1>7
  <2>2. CASE Closed(r[n])
    <3>1. r[n + 1] = r[n]
      BY <2>1, <2>2 DEF MadeNext, Closed
    <3> QED
      BY <2>1, <2>2, <3>1
  <2>3. CASE ~Closed(r[n])
    <3>1. Cardinality(r[n]) >= n + 1 /\ r[n] # r[n + 1]
      BY <2>1, <2>3 DEF MadeNext, Closed
    <3>2. IsFiniteSet(r[n + 1]) /\ IsFiniteSet(r[n])
      BY <2>1, FS_Subset, BomsAssumption
    <3>3. /\ Cardinality(r[n]) <= Cardinality(r[n + 1])
          /\ Cardinality(r[n]) # Cardinality(r[n + 1])
      BY <2>1, <3>1, <3>2, FS_Subset
    <3>4. Cardinality(r[n]) \in Nat /\ Cardinality(r[n + 1]) \in Nat
      BY <3>2, FS_CardinalityType
    <3>5. Cardinality(r[n + 1]) >= (n + 1) + 1
      BY <3>1, <3>3, <3>4
    <3> QED
      BY <2>1, <3>5
  <2> QED
    BY <2>2, <2>3
<1> HIDE DEF Q
<1>8. Nat \subseteq Q
  BY <1>6, <1>7, NatSetInduction
<1>9. Grown(N)
  BY <1>2, <1>8 DEF Q
<1>10. r[N] \in SUBSET Boms
  BY <1>2, <1>3
<1>11. Cardinality(r[N]) <= N /\ Cardinality(r[N]) \in Nat
  <2>1. IsFiniteSet(r[N])
    BY <1>10, FS_Subset, BomsAssumption
  <2>2. Cardinality(r[N]) <= Cardinality(Boms)
    BY <1>10, FS_Subset, BomsAssumption
  <2> QED
    BY <1>1, <2>1, <2>2, FS_CardinalityType
<1>12. Closed(r[N])
  BY <1>2, <1>9, <1>11
<1>13. b \in r[N]
  BY <1>9
<1> QED
  BY <1>3, <1>5, <1>10, <1>12, <1>13

-----------------------------------------------------------------------------
(* Folds over the lines of a bill *)

ToDo == [bom : Boms, times : Nat]

\* p is the fold that Priced, CostOfLines and Unpriced stand for.
PricedBy(g, b, n) ==
  g = [s \in SUBSET DOMAIN bomLine[b] |->
         IF s = {} THEN 0
         ELSE g[s \ {Max(s)}]
                + n * bomLine[b][Max(s)].quantity * StdCost[bomLine[b][Max(s)].part]]
LinePrice(l, C) == IF IsMade(l) THEN C[BomOf[l.part]] ELSE StdCost[l.part]
CostBy(g, b, C) ==
  g = [s \in SUBSET DOMAIN bomLine[b] |->
         IF s = {} THEN 0
         ELSE g[s \ {Max(s)}]
                + bomLine[b][Max(s)].quantity * LinePrice(bomLine[b][Max(s)], C)]
Listed(todo, l, n) ==
  IF IsMade(l) THEN Append(todo, [bom |-> BomOf[l.part], times |-> n * l.quantity])
               ELSE todo
UnpricedBy(g, b, n) ==
  g = [s \in SUBSET DOMAIN bomLine[b] |->
         IF s = {} THEN << >> ELSE Listed(g[s \ {Max(s)}], bomLine[b][Max(s)], n)]

LEMMA BillFolds ==
  /\ \A b, n : Priced(b, n) = (CHOOSE g : PricedBy(g, b, n))[DOMAIN bomLine[b]]
  /\ \A b, C : CostOfLines(b, C) = (CHOOSE g : CostBy(g, b, C))[DOMAIN bomLine[b]]
  /\ \A b, n : Unpriced(b, n) = (CHOOSE g : UnpricedBy(g, b, n))[DOMAIN bomLine[b]]
<1>1. \A b, n : Priced(b, n) = (CHOOSE g : PricedBy(g, b, n))[DOMAIN bomLine[b]]
  BY DEF Priced, PricedBy, FoldLeft, MapThenFoldSet
<1>2. \A b, C : CostOfLines(b, C) = (CHOOSE g : CostBy(g, b, C))[DOMAIN bomLine[b]]
  BY DEF CostOfLines, CostBy, LinePrice, FoldLeft, MapThenFoldSet
<1>3. \A b, n : Unpriced(b, n) = (CHOOSE g : UnpricedBy(g, b, n))[DOMAIN bomLine[b]]
  BY DEF Unpriced, UnpricedBy, Listed, FoldLeft, MapThenFoldSet
<1> QED
  BY <1>1, <1>2, <1>3

IsPriced(p, b, n, m) ==
  /\ p[1..0] = 0 /\ Priced(b, n) = p[1..m]
  /\ \A k \in 0..m : p[1..k] \in Nat
  /\ \A k \in 1..m : p[1..k] = p[1..(k - 1)]
                       + n * bomLine[b][k].quantity * StdCost[bomLine[b][k].part]

LEMMA PricedAdds ==
  ASSUME LinesTyped, NEW b \in Boms, NEW n \in Nat
  PROVE  \E p : IsPriced(p, b, n, Len(bomLine[b]))
<1>1. PICK q, m : q = bomLine[b] /\ m = Len(bomLine[b])
  OBVIOUS
<1>2. m \in Nat /\ DOMAIN q = 1..m
  BY <1>1 DEF LinesTyped
<1>3. PICK w : w = [k \in 1..m |-> n * q[k].quantity * StdCost[q[k].part]]
  OBVIOUS
<1>4. \A k \in 1..m : q[k].quantity \in Nat /\ StdCost[q[k].part] \in Nat
  BY <1>1, <1>2, LineAt
<1>5. \A k \in 1..m : w[k] \in Nat
  <2>1. \A x, y \in Nat : n * x * y \in Nat
    OBVIOUS
  <2> QED
    BY <1>3, <1>4, <2>1
<1>6. PICK f : f = [x \in (1..m) \X Nat |-> x[2] + w[x[1]]]
  OBVIOUS
<1>7. \A k \in 1..m, v \in Nat : f[<<k, v>>] = v + w[k]
  BY <1>6
<1>8. CanRun(m, Nat, f, 0)
  BY <1>2, <1>5, <1>7 DEF CanRun
<1>9. PICK g : RunsOver(g, m, Nat, f, 0)
  BY <1>8, RunExists
<1>10. PricedBy(g, b, n)
  <2>1. \A s \in SUBSET (1..m) : g[s] = IF s = {} THEN 0
               ELSE g[s \ {Max(s)}] + n * q[Max(s)].quantity * StdCost[q[Max(s)].part]
    BY <1>3, <1>7, <1>9 DEF RunsOver
  <2>2. g = [s \in SUBSET (1..m) |-> g[s]]
    BY <1>9 DEF RunsOver
  <2>3. g = [s \in SUBSET (1..m) |-> IF s = {} THEN 0
               ELSE g[s \ {Max(s)}] + n * q[Max(s)].quantity * StdCost[q[Max(s)].part]]
    BY <2>1, <2>2
  <2> QED
    BY <1>1, <1>2, <2>3 DEF PricedBy
<1>11. PICK p : p = CHOOSE h : PricedBy(h, b, n)
  OBVIOUS
<1>12. PricedBy(p, b, n)
  BY <1>10, <1>11
<1>13. \A s \in SUBSET (1..m) : p[s] = IF s = {} THEN 0
               ELSE p[s \ {Max(s)}] + n * q[Max(s)].quantity * StdCost[q[Max(s)].part]
  BY <1>1, <1>2, <1>12 DEF PricedBy
<1>14. p[1..0] = 0
  <2>1. 1..0 = {} /\ {} \in SUBSET (1..m)
    OBVIOUS
  <2> QED
    BY <1>13, <2>1
<1>15. ASSUME NEW k \in 1..m PROVE p[1..k] = p[1..(k - 1)] + w[k]
  <2>1. PICK t : t = 1..k
    OBVIOUS
  <2>2. t \in SUBSET (1..m) /\ t # {} /\ Max(t) = k /\ t \ {k} = 1..(k - 1)
    BY <1>2, <2>1, PrefixIsLess
  <2> QED
    BY <1>3, <1>13, <2>1, <2>2
<1>16. StepsLike(p, m, Nat, f, 0)
  BY <1>7, <1>14, <1>15 DEF StepsLike
<1>17. RunsUp(p, m, Nat, f, 0)
  BY <1>8, <1>16, RunFollows
<1>18. Priced(b, n) = p[1..m]
  BY <1>1, <1>2, <1>11, BillFolds
<1>19. \A k \in 1..m : p[1..k] = p[1..(k - 1)]
                       + n * bomLine[b][k].quantity * StdCost[bomLine[b][k].part]
  BY <1>1, <1>3, <1>15
<1>20. IsPriced(p, b, n, m)
  BY <1>14, <1>17, <1>18, <1>19 DEF RunsUp, IsPriced
<1> QED
  BY <1>1, <1>20

LEMMA CostAdds ==
  ASSUME LinesTyped, NEW b \in Boms, NEW C \in [Boms -> Nat]
  PROVE  \E p : /\ p[1..0] = 0 /\ CostOfLines(b, C) = p[1..Len(bomLine[b])]
                /\ \A k \in 0..Len(bomLine[b]) : p[1..k] \in Nat
                /\ \A k \in 1..Len(bomLine[b]) :
                     p[1..k] = p[1..(k - 1)]
                       + bomLine[b][k].quantity * LinePrice(bomLine[b][k], C)
<1>1. PICK q, m : q = bomLine[b] /\ m = Len(bomLine[b])
  OBVIOUS
<1>2. m \in Nat /\ DOMAIN q = 1..m
  BY <1>1 DEF LinesTyped
<1>3. PICK w : w = [k \in 1..m |-> q[k].quantity * LinePrice(q[k], C)]
  OBVIOUS
<1>4. \A k \in 1..m : q[k].quantity \in Nat /\ LinePrice(q[k], C) \in Nat
  BY <1>1, <1>2, LineAt DEF LinePrice
<1>5. \A k \in 1..m : w[k] \in Nat
  <2>1. \A x, y \in Nat : x * y \in Nat
    OBVIOUS
  <2> QED
    BY <1>3, <1>4, <2>1
<1>6. PICK f : f = [x \in (1..m) \X Nat |-> x[2] + w[x[1]]]
  OBVIOUS
<1>7. \A k \in 1..m, v \in Nat : f[<<k, v>>] = v + w[k]
  BY <1>6
<1>8. CanRun(m, Nat, f, 0)
  BY <1>2, <1>5, <1>7 DEF CanRun
<1>9. PICK g : RunsOver(g, m, Nat, f, 0)
  BY <1>8, RunExists
<1>10. CostBy(g, b, C)
  <2>1. \A s \in SUBSET (1..m) : g[s] = IF s = {} THEN 0
               ELSE g[s \ {Max(s)}] + q[Max(s)].quantity * LinePrice(q[Max(s)], C)
    BY <1>3, <1>7, <1>9 DEF RunsOver
  <2>2. g = [s \in SUBSET (1..m) |-> g[s]]
    BY <1>9 DEF RunsOver
  <2>3. g = [s \in SUBSET (1..m) |-> IF s = {} THEN 0
               ELSE g[s \ {Max(s)}] + q[Max(s)].quantity * LinePrice(q[Max(s)], C)]
    BY <2>1, <2>2
  <2> QED
    BY <1>1, <1>2, <2>3 DEF CostBy
<1>11. PICK p : p = CHOOSE h : CostBy(h, b, C)
  OBVIOUS
<1>12. CostBy(p, b, C)
  BY <1>10, <1>11
<1>13. \A s \in SUBSET (1..m) : p[s] = IF s = {} THEN 0
               ELSE p[s \ {Max(s)}] + q[Max(s)].quantity * LinePrice(q[Max(s)], C)
  BY <1>1, <1>2, <1>12 DEF CostBy
<1>14. p[1..0] = 0
  <2>1. 1..0 = {} /\ {} \in SUBSET (1..m)
    OBVIOUS
  <2> QED
    BY <1>13, <2>1
<1>15. ASSUME NEW k \in 1..m PROVE p[1..k] = p[1..(k - 1)] + w[k]
  <2>1. PICK t : t = 1..k
    OBVIOUS
  <2>2. t \in SUBSET (1..m) /\ t # {} /\ Max(t) = k /\ t \ {k} = 1..(k - 1)
    BY <1>2, <2>1, PrefixIsLess
  <2> QED
    BY <1>3, <1>13, <2>1, <2>2
<1>16. StepsLike(p, m, Nat, f, 0)
  BY <1>7, <1>14, <1>15 DEF StepsLike
<1>17. RunsUp(p, m, Nat, f, 0)
  BY <1>8, <1>16, RunFollows
<1>18. CostOfLines(b, C) = p[1..m]
  BY <1>1, <1>2, <1>11, BillFolds
<1> QED
  BY <1>1, <1>3, <1>14, <1>15, <1>17, <1>18 DEF RunsUp

LEMMA UnpricedAdds ==
  ASSUME LinesTyped, NEW b \in Boms, NEW n \in Nat
  PROVE  \E p : /\ p[1..0] = << >> /\ Unpriced(b, n) = p[1..Len(bomLine[b])]
                /\ \A k \in 0..Len(bomLine[b]) : p[1..k] \in Seq(ToDo)
                /\ \A k \in 1..Len(bomLine[b]) :
                     p[1..k] = Listed(p[1..(k - 1)], bomLine[b][k], n)
<1>1. PICK q, m : q = bomLine[b] /\ m = Len(bomLine[b])
  OBVIOUS
<1>2. m \in Nat /\ DOMAIN q = 1..m
  BY <1>1 DEF LinesTyped
<1>3. \A k \in 1..m, v \in Seq(ToDo) : Listed(v, q[k], n) \in Seq(ToDo)
  <2> SUFFICES ASSUME NEW k \in 1..m, NEW v \in Seq(ToDo), IsMade(q[k])
               PROVE  Append(v, [bom |-> BomOf[q[k].part], times |-> n * q[k].quantity])
                        \in Seq(ToDo)
    BY DEF Listed
  <2>1. q[k].quantity \in Nat /\ BomOf[q[k].part] \in Boms
    BY <1>1, <1>2, LineAt
  <2>2. n * q[k].quantity \in Nat
    BY <2>1
  <2>3. [bom |-> BomOf[q[k].part], times |-> n * q[k].quantity] \in ToDo
    BY <2>1, <2>2 DEF ToDo
  <2> QED
    BY <2>3
<1>6. PICK f : f = [x \in (1..m) \X Seq(ToDo) |-> Listed(x[2], q[x[1]], n)]
  OBVIOUS
<1>7. \A k \in 1..m, v \in Seq(ToDo) : f[<<k, v>>] = Listed(v, q[k], n)
  BY <1>6
<1>8. CanRun(m, Seq(ToDo), f, << >>)
  BY <1>2, <1>3, <1>7 DEF CanRun
<1>9. PICK g : RunsOver(g, m, Seq(ToDo), f, << >>)
  BY <1>8, RunExists
<1>10. UnpricedBy(g, b, n)
  <2>1. \A s \in SUBSET (1..m) :
          g[s] = IF s = {} THEN << >> ELSE Listed(g[s \ {Max(s)}], q[Max(s)], n)
    BY <1>7, <1>9 DEF RunsOver
  <2>2. g = [s \in SUBSET (1..m) |-> g[s]]
    BY <1>9 DEF RunsOver
  <2>3. g = [s \in SUBSET (1..m) |->
               IF s = {} THEN << >> ELSE Listed(g[s \ {Max(s)}], q[Max(s)], n)]
    BY <2>1, <2>2
  <2> QED
    BY <1>1, <1>2, <2>3 DEF UnpricedBy
<1>11. PICK p : p = CHOOSE h : UnpricedBy(h, b, n)
  OBVIOUS
<1>12. UnpricedBy(p, b, n)
  BY <1>10, <1>11
<1>13. \A s \in SUBSET (1..m) :
         p[s] = IF s = {} THEN << >> ELSE Listed(p[s \ {Max(s)}], q[Max(s)], n)
  BY <1>1, <1>2, <1>12 DEF UnpricedBy
<1>14. p[1..0] = << >>
  <2>1. 1..0 = {} /\ {} \in SUBSET (1..m)
    OBVIOUS
  <2> QED
    BY <1>13, <2>1
<1>15. \A k \in 1..m : p[1..k] = Listed(p[1..(k - 1)], q[k], n)
  BY <1>2, <1>13, PrefixIsLess
<1>16. StepsLike(p, m, Seq(ToDo), f, << >>)
  BY <1>7, <1>14, <1>15 DEF StepsLike
<1>17. RunsUp(p, m, Seq(ToDo), f, << >>)
  BY <1>8, <1>16, RunFollows
<1>18. Unpriced(b, n) = p[1..m]
  BY <1>1, <1>2, <1>11, BillFolds
<1> QED
  BY <1>1, <1>14, <1>15, <1>17, <1>18 DEF RunsUp

-----------------------------------------------------------------------------
(* What a list of bills to look at comes to, from each place to its end *)

IsSums(q, s, C) ==
  /\ s \in [0..Len(q) -> Nat] /\ s[Len(q)] = 0
  /\ \A k \in 1..Len(q) : s[k - 1] = s[k] + q[k].times * C[q[k].bom]

IsTotal(q, v, C) == v \in Nat /\ \E s : IsSums(q, s, C) /\ s[0] = v

LEMMA ProductIsNat == \A x, y \in Nat : x * y \in Nat
OBVIOUS

LEMMA TotalOfNone ==
  ASSUME NEW C
  PROVE  IsTotal(<< >>, 0, C) /\ \A v : IsTotal(<< >>, v, C) => v = 0
<1>1. PICK s : s = [k \in 0..0 |-> 0]
  OBVIOUS
<1>2. IsSums(<< >>, s, C) /\ s[0] = 0
  BY <1>1 DEF IsSums
<1> QED
  BY <1>2 DEF IsTotal, IsSums

LEMMA TotalOfAppend ==
  ASSUME NEW q \in Seq(ToDo), NEW e \in ToDo, NEW C \in [Boms -> Nat], NEW v,
         IsTotal(q, v, C)
  PROVE  IsTotal(Append(q, e), v + e.times * C[e.bom], C)
<1>1. PICK s : IsSums(q, s, C) /\ s[0] = v
  BY DEF IsTotal
<1>2. PICK w : w = e.times * C[e.bom]
  OBVIOUS
<1>3. w \in Nat
  BY <1>2, ProductIsNat DEF ToDo
<1>4. PICK n : n = Len(q)
  OBVIOUS
<1>5. n \in Nat /\ s \in [0..n -> Nat] /\ s[n] = 0 /\ v \in Nat
      /\ \A k \in 1..n : s[k - 1] = s[k] + q[k].times * C[q[k].bom]
  BY <1>1, <1>4 DEF IsSums
<1>6. PICK p : p = Append(q, e)
  OBVIOUS
<1>7. Len(p) = n + 1 /\ (\A k \in 1..n : p[k] = q[k]) /\ p[n + 1] = e
  BY <1>4, <1>6
<1>8. PICK t : t = [k \in 0..(n + 1) |-> IF k <= n THEN s[k] + w ELSE 0]
  OBVIOUS
<1>9. t \in [0..(n + 1) -> Nat] /\ t[n + 1] = 0 /\ t[0] = v + w /\ t[n] = w
      /\ \A k \in 0..n : t[k] = s[k] + w
  BY <1>1, <1>3, <1>5, <1>8
<1>10. ASSUME NEW k \in 1..(n + 1)
       PROVE  t[k - 1] = t[k] + p[k].times * C[p[k].bom]
  <2>1. CASE k = n + 1
    BY <1>2, <1>3, <1>5, <1>7, <1>9, <2>1
  <2>2. CASE k # n + 1
    <3>1. k \in 1..n /\ k \in 0..n /\ k - 1 \in 0..n
      BY <1>5, <2>2
    <3>2. p[k].times * C[p[k].bom] \in Nat
      <4>1. q[k] \in ToDo
        BY <1>4, <3>1
      <4> QED
        BY <1>7, <3>1, <4>1, ProductIsNat DEF ToDo
    <3>3. s[k - 1] = s[k] + p[k].times * C[p[k].bom] /\ s[k] \in Nat /\ s[k - 1] \in Nat
      BY <1>5, <1>7, <3>1
    <3>4. t[k] = s[k] + w /\ t[k - 1] = s[k - 1] + w
      BY <1>9, <3>1
    <3> QED
      BY <1>3, <3>2, <3>3, <3>4
  <2> QED
    BY <2>1, <2>2
<1>11. IsSums(p, t, C)
  BY <1>7, <1>9, <1>10 DEF IsSums
<1>12. v + w \in Nat
  BY <1>3, <1>5
<1> QED
  BY <1>2, <1>6, <1>9, <1>11, <1>12 DEF IsTotal

LEMMA TotalOfConcat ==
  ASSUME NEW q \in Seq(ToDo), NEW r \in Seq(ToDo), NEW C \in [Boms -> Nat],
         NEW v, NEW w, IsTotal(q, v, C), IsTotal(r, w, C)
  PROVE  IsTotal(q \o r, v + w, C)
<1>1. PICK s : IsSums(q, s, C) /\ s[0] = v
  BY DEF IsTotal
<1>2. PICK t : IsSums(r, t, C) /\ t[0] = w
  BY DEF IsTotal
<1>3. PICK n, m : n = Len(q) /\ m = Len(r)
  OBVIOUS
<1>4. /\ n \in Nat /\ s \in [0..n -> Nat] /\ s[n] = 0 /\ v \in Nat
      /\ \A k \in 1..n : s[k - 1] = s[k] + q[k].times * C[q[k].bom]
  BY <1>1, <1>3 DEF IsSums
<1>5. /\ m \in Nat /\ t \in [0..m -> Nat] /\ t[m] = 0 /\ w \in Nat
      /\ \A k \in 1..m : t[k - 1] = t[k] + r[k].times * C[r[k].bom]
  BY <1>2, <1>3 DEF IsSums
<1>6. PICK p : p = q \o r
  OBVIOUS
<1>7. /\ Len(p) = n + m /\ (\A k \in 1..n : p[k] = q[k])
      /\ \A k \in 1..m : p[n + k] = r[k]
  BY <1>3, <1>6
<1>8. PICK u : u = [k \in 0..(n + m) |-> IF k <= n THEN s[k] + w ELSE t[k - n]]
  OBVIOUS
<1>9. (\A k \in 0..n : u[k] = s[k] + w) /\ (\A k \in 0..m : u[n + k] = t[k])
  <2>1. \A k \in 0..n : u[k] = s[k] + w
    BY <1>4, <1>5, <1>8
  <2>2. ASSUME NEW k \in 0..m PROVE u[n + k] = t[k]
    <3>1. n + k \in 0..(n + m) /\ (n + k) - n = k
      BY <1>4, <1>5
    <3>2. CASE k = 0
      BY <1>2, <1>4, <1>5, <2>1, <3>2
    <3>3. CASE k # 0
      <4>1. ~(n + k <= n)
        BY <1>4, <1>5, <3>3
      <4> QED
        BY <1>8, <3>1, <4>1
    <3> QED
      BY <3>2, <3>3
  <2> QED
    BY <2>1, <2>2
<1>10. u \in [0..(n + m) -> Nat]
  <2> SUFFICES ASSUME NEW k \in 0..(n + m)
               PROVE  (IF k <= n THEN s[k] + w ELSE t[k - n]) \in Nat
    BY <1>8
  <2>1. k <= n => k \in 0..n
    OBVIOUS
  <2>2. ~(k <= n) => k - n \in 0..m
    BY <1>4, <1>5
  <2> QED
    BY <1>4, <1>5, <2>1, <2>2
<1>11. u[n + m] = 0 /\ u[0] = v + w
  BY <1>1, <1>4, <1>5, <1>9
<1>12. ASSUME NEW k \in 1..(n + m)
       PROVE  u[k - 1] = u[k] + p[k].times * C[p[k].bom]
  <2>1. CASE k <= n
    <3>1. k \in 1..n /\ k \in 0..n /\ k - 1 \in 0..n
      BY <1>4, <2>1
    <3>2. p[k].times * C[p[k].bom] \in Nat
      <4>1. q[k] \in ToDo
        BY <1>3, <3>1
      <4> QED
        BY <1>7, <3>1, <4>1, ProductIsNat DEF ToDo
    <3>3. s[k - 1] = s[k] + p[k].times * C[p[k].bom] /\ s[k] \in Nat /\ s[k - 1] \in Nat
      BY <1>4, <1>7, <3>1
    <3>4. u[k] = s[k] + w /\ u[k - 1] = s[k - 1] + w
      BY <1>9, <3>1
    <3> QED
      BY <1>5, <3>2, <3>3, <3>4
  <2>2. CASE ~(k <= n)
    <3>1. PICK i \in 1..m : k = n + i
      <4>1. k - n \in 1..m /\ k = n + (k - n)
        BY <1>4, <1>5, <2>2
      <4> QED
        BY <4>1
    <3>2. i \in 0..m /\ i - 1 \in 0..m /\ k - 1 = n + (i - 1)
      BY <1>4, <1>5, <3>1
    <3>3. u[k] = t[i] /\ u[k - 1] = t[i - 1] /\ p[k] = r[i]
      BY <1>7, <1>9, <3>1, <3>2
    <3> QED
      BY <1>5, <3>1, <3>3
  <2> QED
    BY <2>1, <2>2
<1>13. IsSums(p, u, C)
  BY <1>7, <1>10, <1>11, <1>12 DEF IsSums
<1>14. v + w \in Nat
  BY <1>4, <1>5
<1> QED
  BY <1>6, <1>11, <1>13, <1>14 DEF IsTotal

LEMMA TotalOfTail ==
  ASSUME NEW q \in Seq(ToDo), q # << >>, NEW C \in [Boms -> Nat], NEW v, IsTotal(q, v, C)
  PROVE  \E w \in Nat : /\ IsTotal(Tail(q), w, C)
                        /\ v = w + q[1].times * C[q[1].bom]
<1>1. PICK s : IsSums(q, s, C) /\ s[0] = v
  BY DEF IsTotal
<1>2. PICK n : n = Len(q)
  OBVIOUS
<1>3. /\ n \in Nat \ {0} /\ s \in [0..n -> Nat] /\ s[n] = 0
      /\ \A k \in 1..n : s[k - 1] = s[k] + q[k].times * C[q[k].bom]
  BY <1>1, <1>2 DEF IsSums
<1>4. PICK p : p = Tail(q)
  OBVIOUS
<1>5. Len(p) = n - 1 /\ \A k \in 1..(n - 1) : p[k] = q[k + 1]
  BY <1>2, <1>3, <1>4
<1>6. PICK t : t = [k \in 0..(n - 1) |-> s[k + 1]]
  OBVIOUS
<1>7. /\ \A k \in 0..(n - 1) : k + 1 \in 0..n /\ k + 1 \in 1..n
      /\ n - 1 \in 0..(n - 1) /\ (n - 1) + 1 = n /\ 0 \in 0..(n - 1) /\ 1 \in 1..n
  BY <1>3
<1>8. t \in [0..(n - 1) -> Nat] /\ t[n - 1] = 0 /\ t[0] = s[1]
  BY <1>3, <1>6, <1>7
<1>9. ASSUME NEW k \in 1..(n - 1)
      PROVE  t[k - 1] = t[k] + p[k].times * C[p[k].bom]
  <2>1. k \in 0..(n - 1) /\ k - 1 \in 0..(n - 1) /\ (k - 1) + 1 = k /\ (k + 1) - 1 = k
        /\ k + 1 \in 1..n
    BY <1>3
  <2>2. t[k - 1] = s[k] /\ t[k] = s[k + 1] /\ p[k] = q[k + 1]
    BY <1>5, <1>6, <2>1
  <2>3. s[k] = s[k + 1] + q[k + 1].times * C[q[k + 1].bom]
    BY <1>3, <2>1
  <2> QED
    BY <2>2, <2>3
<1>10. IsSums(p, t, C)
  BY <1>5, <1>8, <1>9 DEF IsSums
<1>11. s[0] = s[1] + q[1].times * C[q[1].bom] /\ s[1] \in Nat
  <2>1. 1 \in 1..n /\ 1 - 1 = 0 /\ 1 \in 0..n
    BY <1>3
  <2> QED
    BY <1>3, <2>1
<1> QED
  BY <1>1, <1>4, <1>8, <1>10, <1>11 DEF IsTotal

LEMMA Distributes ==
  /\ \A n, a, q, c \in Nat : n * (a + q * c) = n * a + (n * q) * c
  /\ \A n, q \in Nat : n * q * 0 = 0
OBVIOUS

\* n pieces of a bill cost what is priced at once and what is to be looked at.
LEMMA BillAddsUp ==
  ASSUME LinesTyped, NEW b \in Boms, NEW n \in Nat, NEW C \in [Boms -> Nat]
  PROVE  /\ Unpriced(b, n) \in Seq(ToDo) /\ Priced(b, n) \in Nat /\ CostOfLines(b, C) \in Nat
         /\ \E v \in Nat : /\ IsTotal(Unpriced(b, n), v, C)
                           /\ Priced(b, n) + v = n * CostOfLines(b, C)
<1>1. PICK m : m = Len(bomLine[b])
  OBVIOUS
<1>2. m \in Nat /\ DOMAIN bomLine[b] = 1..m
  BY <1>1 DEF LinesTyped
<1>3. PICK p : IsPriced(p, b, n, m)
  BY <1>1, PricedAdds
<1>4. PICK c : /\ c[1..0] = 0 /\ CostOfLines(b, C) = c[1..m]
               /\ \A k \in 0..m : c[1..k] \in Nat
               /\ \A k \in 1..m : c[1..k] = c[1..(k - 1)]
                       + bomLine[b][k].quantity * LinePrice(bomLine[b][k], C)
  BY <1>1, CostAdds
<1>5. PICK u : /\ u[1..0] = << >> /\ Unpriced(b, n) = u[1..m]
               /\ \A k \in 0..m : u[1..k] \in Seq(ToDo)
               /\ \A k \in 1..m : u[1..k] = Listed(u[1..(k - 1)], bomLine[b][k], n)
  BY <1>1, UnpricedAdds
<1> DEFINE P == {k \in Nat : k <= m =>
                   \E v \in Nat : IsTotal(u[1..k], v, C) /\ p[1..k] + v = n * c[1..k]}
<1>6. 0 \in P
  <2>1. n * 0 = 0
    OBVIOUS
  <2>2. IsTotal(u[1..0], 0, C)
    BY <1>5, TotalOfNone
  <2>3. 0 \in Nat /\ p[1..0] + 0 = n * c[1..0]
    BY <1>3, <1>4, <2>1 DEF IsPriced
  <2> QED
    BY <2>2, <2>3
<1>7. ASSUME NEW k \in Nat, k \in P PROVE k + 1 \in P
  <2> SUFFICES ASSUME k + 1 <= m
               PROVE  \E v \in Nat : /\ IsTotal(u[1..(k + 1)], v, C)
                                     /\ p[1..(k + 1)] + v = n * c[1..(k + 1)]
    OBVIOUS
  <2>1. k + 1 \in 1..m /\ (k + 1) - 1 = k /\ k \in 0..m /\ k + 1 \in 0..m
    BY <1>2
  <2>2. PICK v \in Nat : IsTotal(u[1..k], v, C) /\ p[1..k] + v = n * c[1..k]
    BY <1>2, <1>7
  <2>3. PICK l : l = bomLine[b][k + 1]
    OBVIOUS
  <2>4. PICK q, d : q = l.quantity /\ d = BomOf[l.part]
    OBVIOUS
  <2>5. PICK x, y, z : x = p[1..k] /\ y = c[1..k] /\ z = u[1..k]
    OBVIOUS
  <2>6. x \in Nat /\ y \in Nat /\ z \in Seq(ToDo)
    BY <1>3, <1>4, <1>5, <2>1, <2>5 DEF IsPriced
  <2>7. q \in Nat /\ StdCost[l.part] \in Nat /\ (IsMade(l) => d \in Boms /\ StdCost[l.part] = 0)
    BY <1>2, <2>1, <2>3, <2>4, LineAt
  <2>8. /\ p[1..(k + 1)] = x + n * q * StdCost[l.part]
        /\ c[1..(k + 1)] = y + q * LinePrice(l, C)
        /\ u[1..(k + 1)] = Listed(z, l, n)
    BY <1>3, <1>4, <1>5, <2>1, <2>3, <2>4, <2>5 DEF IsPriced
  <2>9. CASE IsMade(l)
    <3>1. PICK e : e = [bom |-> d, times |-> n * q]
      OBVIOUS
    <3>2. e \in ToDo /\ e.bom = d /\ e.times = n * q
      BY <2>7, <2>9, <3>1, ProductIsNat DEF ToDo
    <3>3. u[1..(k + 1)] = Append(z, e)
      BY <2>4, <2>8, <2>9, <3>1 DEF Listed
    <3>4. IsTotal(Append(z, e), v + (n * q) * C[d], C)
      <4>1. IsTotal(Append(z, e), v + e.times * C[e.bom], C)
        BY <2>2, <2>5, <2>6, <3>2, TotalOfAppend
      <4> QED
        BY <3>2, <4>1
    <3>5. PICK t : t = C[d]
      OBVIOUS
    <3>6. t \in Nat
      BY <2>7, <2>9, <3>5
    <3>7. n * q * StdCost[l.part] = 0
      BY <2>7, <2>9, Distributes, SMTT(30)
    <3>8. n * (y + q * t) = n * y + (n * q) * t
      BY <2>6, <2>7, <3>6, Distributes, SMTT(30)
    <3>9. PICK f, g : f = n * y /\ g = (n * q) * t
      OBVIOUS
    <3>10. f \in Nat /\ g \in Nat
      <4>1. n * q \in Nat
        BY <2>7, ProductIsNat
      <4> QED
        BY <2>6, <3>6, <3>9, <4>1, ProductIsNat
    <3>11. c[1..(k + 1)] = y + q * t
      BY <2>4, <2>8, <2>9, <3>5 DEF LinePrice
    <3>12. p[1..(k + 1)] = x
      BY <2>6, <2>8, <3>7
    <3>13. x + v = f
      BY <2>2, <2>5, <3>9
    <3>14. x + (v + g) = n * c[1..(k + 1)]
      <4>1. n * c[1..(k + 1)] = f + g
        BY <3>8, <3>9, <3>11
      <4>2. PICK h : h = n * c[1..(k + 1)]
        OBVIOUS
      <4>3. h = f + g
        BY <4>1, <4>2, Zenon
      <4>4. x + (v + g) = h
        BY <2>6, <3>10, <3>13, <4>3
      <4> QED
        BY <4>2, <4>4, Zenon
    <3>15. v + g \in Nat /\ IsTotal(u[1..(k + 1)], v + g, C)
      BY <3>3, <3>4, <3>5, <3>9, <3>10
    <3> QED
      BY <3>12, <3>14, <3>15
  <2>10. CASE ~IsMade(l)
    <3>1. PICK t : t = StdCost[l.part]
      OBVIOUS
    <3>2. u[1..(k + 1)] = z /\ c[1..(k + 1)] = y + q * t
      BY <2>8, <2>10, <3>1 DEF Listed, LinePrice
    <3>3. n * (y + q * t) = n * y + (n * q) * t /\ t \in Nat
      <4>1. t \in Nat
        BY <2>7, <3>1
      <4> QED
        BY <2>6, <2>7, <4>1, Distributes, SMTT(30)
    <3>4. PICK f, g : f = n * y /\ g = (n * q) * t
      OBVIOUS
    <3>5. f \in Nat /\ g \in Nat
      <4>1. n * q \in Nat
        BY <2>7, ProductIsNat
      <4> QED
        BY <2>6, <3>3, <3>4, <4>1, ProductIsNat
    <3>6. p[1..(k + 1)] = x + g
      BY <2>8, <3>1, <3>4
    <3>7. x + v = f
      BY <2>2, <2>5, <3>4
    <3>8. n * c[1..(k + 1)] = f + g
      BY <3>2, <3>3, <3>4
    <3>9. (x + g) + v = n * c[1..(k + 1)]
      BY <2>6, <3>5, <3>7, <3>8
    <3> QED
      BY <2>2, <2>5, <3>2, <3>6, <3>9
  <2> QED
    BY <2>9, <2>10
<1> HIDE DEF P
<1>8. Nat \subseteq P
  BY <1>6, <1>7, NatSetInduction
<1>9. m \in P
  BY <1>2, <1>8
<1>10. \E v \in Nat : IsTotal(u[1..m], v, C) /\ p[1..m] + v = n * c[1..m]
  BY <1>2, <1>9 DEF P
<1>11. m \in 0..m
  BY <1>2
<1>12. p[1..m] \in Nat /\ Priced(b, n) = p[1..m]
  BY <1>3, <1>11 DEF IsPriced
<1> QED
  BY <1>4, <1>5, <1>10, <1>11, <1>12

\* Each bill to look at is that of a line of its own.
LEMMA UnpricedNames ==
  ASSUME LinesTyped, NEW b \in Boms, NEW n \in Nat
  PROVE  \E h \in [DOMAIN Unpriced(b, n) -> MadeLines(b)] :
           /\ \A e, f \in DOMAIN Unpriced(b, n) : e # f => h[e] # h[f]
           /\ \A e \in DOMAIN Unpriced(b, n) :
                Unpriced(b, n)[e].bom = BomOf[bomLine[b][h[e]].part]
<1>1. PICK m : m = Len(bomLine[b])
  OBVIOUS
<1>2. m \in Nat /\ DOMAIN bomLine[b] = 1..m
  BY <1>1 DEF LinesTyped
<1>3. PICK u : /\ u[1..0] = << >> /\ Unpriced(b, n) = u[1..m]
               /\ \A k \in 0..m : u[1..k] \in Seq(ToDo)
               /\ \A k \in 1..m : u[1..k] = Listed(u[1..(k - 1)], bomLine[b][k], n)
  BY <1>1, UnpricedAdds
<1> DEFINE Names(h, q, k) ==
             /\ h \in [DOMAIN q -> {i \in MadeLines(b) : i <= k}]
             /\ \A e, f \in DOMAIN q : e # f => h[e] # h[f]
             /\ \A e \in DOMAIN q : q[e].bom = BomOf[bomLine[b][h[e]].part]
           P == {k \in Nat : k <= m => \E h : Names(h, u[1..k], k)}
<1>4. 0 \in P
  <2>1. PICK h : h = [e \in {} |-> 0]
    OBVIOUS
  <2>2. DOMAIN u[1..0] = {}
    BY <1>3
  <2>3. Names(h, u[1..0], 0)
    BY <2>1, <2>2
  <2> QED
    BY <2>3
<1>5. ASSUME NEW k \in Nat, k \in P PROVE k + 1 \in P
  <2> SUFFICES ASSUME k + 1 <= m PROVE \E h : Names(h, u[1..(k + 1)], k + 1)
    OBVIOUS
  <2>1. k + 1 \in 1..m /\ (k + 1) - 1 = k /\ k \in 0..m
    BY <1>2
  <2>2. PICK z : z = u[1..k]
    OBVIOUS
  <2>3. PICK h : Names(h, z, k)
    BY <1>2, <1>5, <2>2
  <2>4. PICK l : l = bomLine[b][k + 1]
    OBVIOUS
  <2>5. z \in Seq(ToDo) /\ u[1..(k + 1)] = Listed(z, l, n)
    BY <1>3, <2>1, <2>2, <2>4
  <2>6. MadeLines(b) \subseteq 1..m /\ (IsMade(l) => k + 1 \in MadeLines(b))
    BY <1>2, <2>1, <2>4 DEF MadeLines
  <2>7. CASE ~IsMade(l)
    <3>1. u[1..(k + 1)] = z
      BY <2>5, <2>7 DEF Listed
    <3>2. {i \in MadeLines(b) : i <= k} \subseteq {i \in MadeLines(b) : i <= k + 1}
      BY <1>2, <2>6
    <3>3. Names(h, z, k + 1)
      BY <2>3, <3>2
    <3> QED
      BY <3>1, <3>3
  <2>8. CASE IsMade(l)
    <3>1. PICK e : e = [bom |-> BomOf[l.part], times |-> n * l.quantity]
      OBVIOUS
    <3>2. PICK y : y = Append(z, e)
      OBVIOUS
    <3>3. u[1..(k + 1)] = y
      BY <2>5, <2>8, <3>1, <3>2 DEF Listed
    <3>4. PICK s : s = Len(z)
      OBVIOUS
    <3>5. /\ s \in Nat /\ DOMAIN z = 1..s /\ DOMAIN y = 1..(s + 1)
          /\ (\A i \in 1..s : y[i] = z[i]) /\ y[s + 1] = e
      BY <2>5, <3>2, <3>4
    <3>6. PICK g : g = [i \in 1..(s + 1) |-> IF i = s + 1 THEN k + 1 ELSE h[i]]
      OBVIOUS
    <3>7. \A i \in 1..s : /\ g[i] = h[i] /\ h[i] \in MadeLines(b) /\ h[i] <= k
                          /\ i \in 1..(s + 1) /\ h[i] \in Nat
      <4> SUFFICES ASSUME NEW i \in 1..s
                   PROVE  /\ g[i] = h[i] /\ h[i] \in MadeLines(b) /\ h[i] <= k
                          /\ i \in 1..(s + 1) /\ h[i] \in Nat
        OBVIOUS
      <4>1. i \in 1..(s + 1) /\ i # s + 1
        BY <3>5
      <4>2. h[i] \in MadeLines(b) /\ h[i] <= k
        BY <2>3, <3>5
      <4> QED
        BY <1>2, <2>6, <3>6, <4>1, <4>2
    <3>8. g[s + 1] = k + 1 /\ s + 1 \in 1..(s + 1)
      BY <3>5, <3>6
    <3>9. \A i \in 1..(s + 1) : i = s + 1 \/ i \in 1..s
      BY <3>5
    <3>10. g \in [1..(s + 1) -> {i \in MadeLines(b) : i <= k + 1}]
      <4> SUFFICES ASSUME NEW i \in 1..(s + 1)
                   PROVE  g[i] \in MadeLines(b) /\ g[i] <= k + 1
        BY <3>6
      <4> QED
        BY <2>6, <2>8, <3>7, <3>8, <3>9
    <3>11. \A i, j \in 1..(s + 1) : i # j => g[i] # g[j]
      <4>1. \A i, j \in 1..s : i # j => h[i] # h[j]
        BY <2>3, <3>5
      <4>2. \A i \in 1..s : g[i] # k + 1
        BY <3>7
      <4> QED
        BY <3>7, <3>8, <3>9, <4>1, <4>2
    <3>12. \A i \in 1..(s + 1) : y[i].bom = BomOf[bomLine[b][g[i]].part]
      <4>1. \A i \in 1..s : z[i].bom = BomOf[bomLine[b][h[i]].part]
        BY <2>3, <3>5
      <4> QED
        BY <2>4, <3>1, <3>5, <3>7, <3>8, <3>9, <4>1
    <3>13. Names(g, y, k + 1)
      BY <3>5, <3>10, <3>11, <3>12
    <3> HIDE DEF Names
    <3> QED
      BY <3>3, <3>13
  <2> QED
    BY <2>7, <2>8
<1> HIDE DEF P
<1>6. Nat \subseteq P
  BY <1>4, <1>5, NatSetInduction
<1>7. PICK h : Names(h, u[1..m], m)
  BY <1>2, <1>6 DEF P
<1>8. h \in [DOMAIN u[1..m] -> MadeLines(b)]
  BY <1>7
<1> QED
  BY <1>3, <1>7, <1>8

\* The cost of a bill depends on the costs of what it is made of.
LEMMA CostAgrees ==
  ASSUME LinesTyped, NEW b \in Boms, NEW C \in [Boms -> Nat], NEW D \in [Boms -> Nat],
         \A d \in MadeOf(b) : C[d] = D[d]
  PROVE  CostOfLines(b, C) = CostOfLines(b, D)
<1>1. PICK m : m = Len(bomLine[b])
  OBVIOUS
<1>2. m \in Nat /\ DOMAIN bomLine[b] = 1..m
  BY <1>1 DEF LinesTyped
<1>3. PICK p : /\ p[1..0] = 0 /\ CostOfLines(b, C) = p[1..m]
               /\ \A k \in 1..m : p[1..k] = p[1..(k - 1)]
                       + bomLine[b][k].quantity * LinePrice(bomLine[b][k], C)
  BY <1>1, CostAdds
<1>4. PICK q : /\ q[1..0] = 0 /\ CostOfLines(b, D) = q[1..m]
               /\ \A k \in 1..m : q[1..k] = q[1..(k - 1)]
                       + bomLine[b][k].quantity * LinePrice(bomLine[b][k], D)
  BY <1>1, CostAdds
<1>5. \A k \in 1..m : LinePrice(bomLine[b][k], C) = LinePrice(bomLine[b][k], D)
  BY <1>2 DEF LinePrice, MadeOf, MadeLines
<1> DEFINE P == {k \in Nat : k <= m => p[1..k] = q[1..k]}
<1>6. 0 \in P
  BY <1>3, <1>4
<1>7. ASSUME NEW k \in Nat, k \in P PROVE k + 1 \in P
  <2> SUFFICES ASSUME k + 1 <= m PROVE p[1..(k + 1)] = q[1..(k + 1)]
    OBVIOUS
  <2>1. k + 1 \in 1..m /\ (k + 1) - 1 = k /\ p[1..k] = q[1..k]
    BY <1>2, <1>7
  <2> QED
    BY <1>3, <1>4, <1>5, <2>1
<1> HIDE DEF P
<1>8. Nat \subseteq P
  BY <1>6, <1>7, NatSetInduction
<1>9. p[1..m] = q[1..m]
  BY <1>2, <1>8 DEF P
<1> QED
  BY <1>3, <1>4, <1>9

-----------------------------------------------------------------------------
(* The cost of a bill that is not made of itself is that of its lines. *)

CostsBy(r) ==
  r = [n \in 0..Cardinality(Boms) |->
         [a \in Boms |-> IF n = 0 THEN 0 ELSE CostOfLines(a, r[n - 1])]]

LEMMA FullCostIsReached ==
  \A b : FullCost(b) = (CHOOSE r : CostsBy(r))[Cardinality(Boms)][b]
BY DEF FullCost, CostsBy

LEMMA CostsExist ==
  ASSUME LinesTyped
  PROVE  \E r \in [0..Cardinality(Boms) -> [Boms -> Nat]] :
           /\ \A b \in Boms : FullCost(b) = r[Cardinality(Boms)][b]
           /\ \A n \in 1..Cardinality(Boms) : \A a \in Boms :
                r[n][a] = CostOfLines(a, r[n - 1])
<1>1. PICK N : N = Cardinality(Boms)
  OBVIOUS
<1>2. N \in Nat
  BY <1>1, FS_CardinalityType, BomsAssumption
<1>3. PICK V : V = [Boms -> Nat]
  OBVIOUS
<1>4. \A C \in V : [a \in Boms |-> CostOfLines(a, C)] \in V
  <2> SUFFICES ASSUME NEW C \in V, NEW a \in Boms PROVE CostOfLines(a, C) \in Nat
    BY <1>3
  <2> QED
    BY <1>3, BillAddsUp
<1>5. PICK f : f = [x \in (1..N) \X V |-> [a \in Boms |-> CostOfLines(a, x[2])]]
  OBVIOUS
<1>6. \A k \in 1..N, C \in V : f[<<k, C>>] = [a \in Boms |-> CostOfLines(a, C)]
  BY <1>5
<1>7. PICK base : base = [a \in Boms |-> 0]
  OBVIOUS
<1>8. CanRun(N, V, f, base)
  <2>1. base \in V
    BY <1>3, <1>7
  <2> QED
    BY <1>2, <1>4, <1>6, <2>1 DEF CanRun
<1>9. PICK g \in [0..N -> V] :
        /\ g[0] = base
        /\ \A k \in 1..N : g[k - 1] \in V /\ g[k] = f[<<k, g[k - 1]>>]
  BY <1>8, NatRecursion
<1>10. \A n \in 0..N : g[n] = [a \in Boms |-> IF n = 0 THEN 0 ELSE CostOfLines(a, g[n - 1])]
  <2> SUFFICES ASSUME NEW n \in 0..N
               PROVE  g[n] = [a \in Boms |-> IF n = 0 THEN 0 ELSE CostOfLines(a, g[n - 1])]
    OBVIOUS
  <2>1. CASE n = 0
    BY <1>7, <1>9, <2>1
  <2>2. CASE n # 0
    <3>1. n \in 1..N
      BY <1>2, <2>2
    <3>2. g[n] = [a \in Boms |-> CostOfLines(a, g[n - 1])]
      BY <1>6, <1>9, <3>1
    <3> QED
      BY <2>2, <3>2
  <2> QED
    BY <2>1, <2>2
<1>11. CostsBy(g)
  <2>1. g = [n \in 0..N |-> g[n]]
    BY <1>9
  <2>2. g = [n \in 0..N |-> [a \in Boms |-> IF n = 0 THEN 0 ELSE CostOfLines(a, g[n - 1])]]
    BY <1>10, <2>1
  <2> QED
    BY <1>1, <2>2 DEF CostsBy
<1>12. PICK r : r = CHOOSE h : CostsBy(h)
  OBVIOUS
<1>13. CostsBy(r)
  BY <1>11, <1>12
<1>14. r = [n \in 0..N |-> [a \in Boms |-> IF n = 0 THEN 0 ELSE CostOfLines(a, r[n - 1])]]
  BY <1>1, <1>13 DEF CostsBy
<1>15. \A n \in 1..N : \A a \in Boms : r[n][a] = CostOfLines(a, r[n - 1])
  <2> SUFFICES ASSUME NEW n \in 1..N, NEW a \in Boms
               PROVE  r[n][a] = CostOfLines(a, r[n - 1])
    OBVIOUS
  <2>1. n \in 0..N /\ n # 0
    BY <1>2
  <2>2. r[n] = [e \in Boms |-> IF n = 0 THEN 0 ELSE CostOfLines(e, r[n - 1])]
    BY <1>14, <2>1
  <2>3. r[n] = [e \in Boms |-> CostOfLines(e, r[n - 1])]
    BY <2>1, <2>2
  <2> QED
    BY <2>3
<1> DEFINE P == {n \in Nat : n <= N => r[n] \in V}
<1>16. 0 \in P
  <2>1. r[0] = [a \in Boms |-> 0]
    BY <1>2, <1>14
  <2> QED
    BY <1>3, <2>1
<1>17. ASSUME NEW n \in Nat, n \in P PROVE n + 1 \in P
  <2> SUFFICES ASSUME n + 1 <= N PROVE r[n + 1] \in V
    OBVIOUS
  <2>1. r[n] \in V /\ n + 1 \in 0..N /\ n + 1 # 0 /\ (n + 1) - 1 = n
    BY <1>2, <1>17
  <2>2. r[n + 1] = [a \in Boms |-> CostOfLines(a, r[n])]
    BY <1>14, <2>1
  <2> QED
    BY <1>4, <2>1, <2>2
<1> HIDE DEF P
<1>18. Nat \subseteq P
  BY <1>16, <1>17, NatSetInduction
<1>19. \A n \in 0..N : r[n] \in V
  BY <1>2, <1>18 DEF P
<1>20. r \in [0..N -> V]
  BY <1>14, <1>19
<1>21. \A b : FullCost(b) = r[N][b]
  BY <1>1, <1>12, FullCostIsReached
<1> QED
  BY <1>1, <1>3, <1>15, <1>20, <1>21

LEMMA MadeOfIsSmaller ==
  ASSUME LinesTyped, NEW b \in Boms, ~Loops(b), NEW a \in MadeWith(b), NEW d \in MadeOf(a)
  PROVE  /\ a \in Boms /\ d \in Boms /\ d \in MadeWith(b)
         /\ Cardinality(MadeWith(d)) \in Nat /\ Cardinality(MadeWith(a)) \in Nat
         /\ Cardinality(MadeWith(d)) < Cardinality(MadeWith(a))
         /\ Cardinality(MadeWith(a)) <= Cardinality(Boms)
<1>1. MadeWith(b) \subseteq Boms /\ Closed(MadeWith(b))
  BY MadeWithIsLeast
<1>2. a \in Boms /\ d \in MadeWith(b) /\ d \in Boms
  BY <1>1 DEF Closed
<1>3. /\ a \in MadeWith(a) /\ MadeWith(a) \subseteq Boms /\ Closed(MadeWith(a))
      /\ MadeWith(d) \subseteq Boms
  BY <1>2, MadeWithIsLeast
<1>4. d \in MadeWith(a)
  BY <1>3 DEF Closed
<1>5. MadeWith(a) \in SUBSET Boms
  BY <1>3
<1>6. MadeWith(d) \subseteq MadeWith(a)
  BY <1>2, <1>3, <1>4, <1>5, MadeWithIsLeast
<1>7. a \notin MadeWith(d)
  BY DEF Loops
<1>8. IsFiniteSet(MadeWith(a)) /\ IsFiniteSet(MadeWith(d))
      /\ Cardinality(MadeWith(a)) <= Cardinality(Boms)
  BY <1>3, FS_Subset, BomsAssumption
<1>9. Cardinality(MadeWith(d)) \in Nat /\ Cardinality(MadeWith(a)) \in Nat
  BY <1>8, FS_CardinalityType
<1>10. /\ Cardinality(MadeWith(d)) <= Cardinality(MadeWith(a))
       /\ Cardinality(MadeWith(d)) # Cardinality(MadeWith(a))
  <2>1. MadeWith(d) \in SUBSET MadeWith(a) /\ MadeWith(d) # MadeWith(a)
    BY <1>3, <1>6, <1>7
  <2> QED
    BY <1>8, <2>1, FS_Subset
<1> QED
  BY <1>2, <1>8, <1>9, <1>10

FullCosts == [d \in Boms |-> FullCost(d)]

LEMMA FullCostIsFixed ==
  ASSUME LinesTyped
  PROVE  /\ FullCosts \in [Boms -> Nat]
         /\ \A b \in Boms : ~Loops(b) =>
              \A a \in MadeWith(b) : a \in Boms /\ FullCost(a) = CostOfLines(a, FullCosts)
<1>1. PICK N : N = Cardinality(Boms)
  OBVIOUS
<1>2. N \in Nat
  BY <1>1, FS_CardinalityType, BomsAssumption
<1>3. PICK r \in [0..N -> [Boms -> Nat]] :
        /\ \A b \in Boms : FullCost(b) = r[N][b]
        /\ \A n \in 1..N : \A a \in Boms : r[n][a] = CostOfLines(a, r[n - 1])
  BY <1>1, CostsExist
<1>4. r[N] \in [Boms -> Nat]
  BY <1>2, <1>3
<1>5. FullCosts = r[N]
  BY <1>3, <1>4 DEF FullCosts
<1>6. ASSUME NEW b \in Boms, ~Loops(b), NEW a \in MadeWith(b)
      PROVE  a \in Boms /\ FullCost(a) = CostOfLines(a, FullCosts)
  <2> DEFINE Q == {n \in Nat : \A e \in MadeWith(b) :
                     Cardinality(MadeWith(e)) <= n => \A k \in n..N : r[k][e] = r[N][e]}
  <2>1. MadeWith(b) \subseteq Boms
    BY MadeWithIsLeast
  <2>2. \A e \in Boms : Cardinality(MadeWith(e)) \in Nat \ {0}
    <3> SUFFICES ASSUME NEW e \in Boms PROVE Cardinality(MadeWith(e)) \in Nat \ {0}
      OBVIOUS
    <3>1. MadeWith(e) \in SUBSET Boms /\ e \in MadeWith(e)
      BY MadeWithIsLeast
    <3>2. IsFiniteSet(MadeWith(e)) /\ MadeWith(e) # {}
      BY <3>1, FS_Subset, BomsAssumption
    <3> QED
      BY <3>2, FS_CardinalityType, FS_EmptySet
  <2>3. 0 \in Q
    <3>1. \A e \in MadeWith(b) : ~(Cardinality(MadeWith(e)) <= 0)
      BY <2>1, <2>2
    <3> QED
      BY <3>1
  <2>4. ASSUME NEW n \in Nat, n \in Q PROVE n + 1 \in Q
    <3> SUFFICES ASSUME NEW e \in MadeWith(b), Cardinality(MadeWith(e)) <= n + 1,
                        NEW k \in (n + 1)..N
                 PROVE  r[k][e] = r[N][e]
      OBVIOUS
    <3>1. k \in 1..N /\ N \in 1..N /\ k - 1 \in n..N /\ N - 1 \in n..N
          /\ k - 1 \in 0..N /\ N - 1 \in 0..N /\ e \in Boms
      BY <1>2, <2>1
    <3>2. r[k][e] = CostOfLines(e, r[k - 1]) /\ r[N][e] = CostOfLines(e, r[N - 1])
      BY <1>3, <3>1
    <3>3. \A d \in MadeOf(e) : r[k - 1][d] = r[N - 1][d]
      <4> SUFFICES ASSUME NEW d \in MadeOf(e) PROVE r[k - 1][d] = r[N - 1][d]
        OBVIOUS
      <4>1. /\ d \in MadeWith(b) /\ Cardinality(MadeWith(d)) \in Nat
            /\ Cardinality(MadeWith(e)) \in Nat
            /\ Cardinality(MadeWith(d)) < Cardinality(MadeWith(e))
        BY <1>6, MadeOfIsSmaller
      <4>2. Cardinality(MadeWith(d)) <= n
        BY <4>1
      <4> QED
        BY <2>4, <3>1, <4>1, <4>2
    <3>4. r[k - 1] \in [Boms -> Nat] /\ r[N - 1] \in [Boms -> Nat]
      BY <1>3, <3>1
    <3> QED
      BY <3>1, <3>2, <3>3, <3>4, CostAgrees
  <2> HIDE DEF Q
  <2>5. Nat \subseteq Q
    BY <2>3, <2>4, NatSetInduction
  <2>6. a \in Boms /\ N # 0
    <3>1. a \in Boms
      BY <2>1, <1>6
    <3>2. Boms # {}
      BY <3>1
    <3> QED
      BY <1>1, <3>1, <3>2, FS_EmptySet, BomsAssumption
  <2>7. N - 1 \in Nat /\ N - 1 \in 0..N /\ N \in 1..N /\ N - 1 \in (N - 1)..N
    BY <1>2, <2>6
  <2>8. N - 1 \in Q
    BY <2>5, <2>7
  <2>9. \A d \in MadeOf(a) : r[N - 1][d] = r[N][d]
    <3> SUFFICES ASSUME NEW d \in MadeOf(a) PROVE r[N - 1][d] = r[N][d]
      OBVIOUS
    <3>1. /\ d \in MadeWith(b) /\ Cardinality(MadeWith(d)) \in Nat
          /\ Cardinality(MadeWith(a)) \in Nat
          /\ Cardinality(MadeWith(d)) < Cardinality(MadeWith(a))
          /\ Cardinality(MadeWith(a)) <= N
      BY <1>1, <1>6, MadeOfIsSmaller
    <3>2. Cardinality(MadeWith(d)) <= N - 1
      BY <1>2, <3>1
    <3> QED
      BY <2>7, <2>8, <3>1, <3>2 DEF Q
  <2>10. r[N - 1] \in [Boms -> Nat]
    BY <1>3, <2>7
  <2>11. CostOfLines(a, r[N - 1]) = CostOfLines(a, r[N])
    BY <1>4, <2>6, <2>9, <2>10, CostAgrees
  <2> QED
    BY <1>3, <1>5, <2>6, <2>7, <2>11
<1> QED
  BY <1>4, <1>5, <1>6

-----------------------------------------------------------------------------
(* The invariant *)

Rollups == [op : {"rollup"}, stage : {"calc"}, on : Boms, total : Nat,
            visited : SUBSET Boms, todo : Seq(ToDo)]
Saveds == [op : {"rollup"}, stage : {"saved"}, on : Boms]
BomJobs == Rollups \cup Saveds \cup {NoJob}

\* All that is to be looked at and was looked at is below b.
Below(b, visited, todo) ==
  /\ \A k \in DOMAIN todo : todo[k].bom \in MadeWith(b)
  /\ visited \subseteq MadeWith(b)

\* What is counted and what is to be looked at cost no more than b.
CountsUp(b, total, todo) ==
  \E v \in Nat : /\ IsTotal(todo, v, FullCosts)
                 /\ total + v <= FullCost(b)
                 /\ ~Shares(b) => total + v = FullCost(b)

\* Bill d is b or that of a line of a bill looked at.
NamedBy(b, visited, d) == d = b \/ \E a \in visited : d \in MadeOf(a)

\* Each bill comes once.
ComeOnce(b, visited, todo) ==
  /\ \A k, l \in DOMAIN todo : k # l => todo[k].bom # todo[l].bom
  /\ \A k \in DOMAIN todo : /\ todo[k].bom \notin visited
                            /\ NamedBy(b, visited, todo[k].bom)
  /\ \A d \in visited : NamedBy(b, visited, d)

RollsUp(b, total, visited, todo) ==
  ~Loops(b) => /\ Below(b, visited, todo)
               /\ CountsUp(b, total, todo)
               /\ ~Shares(b) => ComeOnce(b, visited, todo)

SavedFits(b) ==
  ~Loops(b) => /\ bomCost[b] <= FullCost(b)
               /\ ~Shares(b) => bomCost[b] = FullCost(b)

RollupFits(j) ==
  /\ j \in Rollups => RollsUp(j.on, j.total, j.visited, j.todo)
  /\ j \in Saveds => SavedFits(j.on)

RollupsFit == \A c \in Clients : \A j \in BomJobs : job[c] = j => RollupFits(j)

BomTypes == BomTypeOK /\ job \in [Clients -> BomJobs]

BomInv == BomTypes /\ (~bomLate => RollupsFit)

LEMMA JobsOfBoms ==
  /\ \A j \in Rollups : /\ j.op = "rollup" /\ j.stage = "calc" /\ j.on \in Boms
                        /\ j.total \in Nat /\ j.visited \in SUBSET Boms
                        /\ j.todo \in Seq(ToDo) /\ j \notin Saveds /\ j # NoJob
  /\ \A j \in Saveds : /\ j.op = "rollup" /\ j.stage = "saved" /\ j.on \in Boms
                       /\ j \notin Rollups /\ j # NoJob
  /\ NoJob \notin Rollups /\ NoJob \notin Saveds /\ NoJob.op # "rollup"
<1>1. \A j \in Rollups : /\ j.op = "rollup" /\ j.stage = "calc" /\ j.on \in Boms
                         /\ j.total \in Nat /\ j.visited \in SUBSET Boms
                         /\ j.todo \in Seq(ToDo)
  BY DEF Rollups
<1>2. \A j \in Saveds : j.op = "rollup" /\ j.stage = "saved" /\ j.on \in Boms
  BY DEF Saveds
<1>3. NoJob.op = "none"
  BY DEF NoJob
<1> QED
  BY <1>1, <1>2, <1>3

\* While no line is written, a rollup under way fits as before.
LEMMA RollsUpStays ==
  ASSUME bomLine' = bomLine
  PROVE  \A b, t, v, q : RollsUp(b, t, v, q)' = RollsUp(b, t, v, q)
<1>1. /\ \A b : FullCost(b)' = FullCost(b)
      /\ \A b : Loops(b)' = Loops(b)
      /\ \A b : Shares(b)' = Shares(b)
  BY Stays
<1>2. \A b : MadeWith(b)' = MadeWith(b)
  BY DEF MadeWith, MadeOf, MadeLines
<1>3. \A b : MadeOf(b)' = MadeOf(b)
  BY DEF MadeOf, MadeLines
<1>4. FullCosts' = FullCosts
  BY <1>1 DEF FullCosts
<1>5. \A b, v, q : Below(b, v, q)' = Below(b, v, q)
  BY <1>2 DEF Below
<1>6. \A b, t, q : CountsUp(b, t, q)' = CountsUp(b, t, q)
  BY <1>1, <1>4 DEF CountsUp
<1>7. \A b, v, q : ComeOnce(b, v, q)' = ComeOnce(b, v, q)
  BY <1>3 DEF ComeOnce, NamedBy
<1> QED
  BY <1>1, <1>5, <1>6, <1>7 DEF RollsUp

\* What client c going on with j leaves true.
LEMMA BomGoesOn ==
  ASSUME BomInv, NEW c \in Clients, NEW j \in BomJobs, job' = [job EXCEPT ![c] = j],
         UNCHANGED <<bomLine, bomLate>>, BomTypeOK',
         ~bomLate => \A b \in Boms : bomCost'[b] = bomCost[b] \/ SavedFits(b)',
         ~bomLate => RollupFits(j)'
  PROVE  BomInv'
<1>1. /\ job' \in [Clients -> BomJobs]
      /\ job'[c] = j /\ \A d \in Clients \ {c} : job'[d] = job[d]
  BY DEF BomInv, BomTypes
<1>2. ASSUME ~bomLate, NEW d \in Clients, NEW k \in BomJobs, job'[d] = k
      PROVE  RollupFits(k)'
  <2>1. CASE d = c
    BY <1>1, <1>2, <2>1
  <2>2. CASE d # c
    <3>1. RollupFits(k)
      BY <1>1, <1>2, <2>2 DEF BomInv, RollupsFit
    <3>2. k \in Rollups => RollsUp(k.on, k.total, k.visited, k.todo)'
      <4>1. k \in Rollups => RollsUp(k.on, k.total, k.visited, k.todo)
        BY <3>1 DEF RollupFits
      <4> QED
        BY <4>1, RollsUpStays
    <3>3. k \in Saveds => SavedFits(k.on)'
      <4> SUFFICES ASSUME k \in Saveds PROVE SavedFits(k.on)'
        OBVIOUS
      <4>1. PICK b : b = k.on
        OBVIOUS
      <4>2. b \in Boms /\ SavedFits(b)
        BY <3>1, <4>1, JobsOfBoms DEF RollupFits
      <4>3. SavedFits(b)'
        BY <1>2, <4>2, Stays DEF SavedFits
      <4> QED
        BY <4>1, <4>3
    <3> QED
      BY <3>2, <3>3 DEF RollupFits, Rollups, Saveds
  <2> QED
    BY <2>1, <2>2
<1>3. ~bomLate' => RollupsFit'
  BY <1>2 DEF RollupsFit, BomJobs, Rollups, Saveds
<1> QED
  BY <1>1, <1>3 DEF BomInv, BomTypes

LEMMA BomInitInv == ReqInit /\ BomInit => BomInv
<1> SUFFICES ASSUME ReqInit, BomInit PROVE BomInv
  OBVIOUS
<1>1. BomTypeOK
  BY StructuresAssumption DEF BomInit, BomTypeOK, BomLines
<1>2. \A c \in Clients : job[c] = NoJob
  BY DEF ReqInit
<1>3. job \in [Clients -> BomJobs]
  BY DEF ReqInit, BomJobs
<1>4. RollupsFit
  BY <1>2, JobsOfBoms DEF RollupsFit, RollupFits
<1> QED
  BY <1>1, <1>3, <1>4 DEF BomInv, BomTypes

-----------------------------------------------------------------------------
(* The steps *)

\* A client at a stage of a rollup serves one.
LEMMA RollupAt ==
  ASSUME BomTypes, NEW c \in Clients
  PROVE  /\ At(c, "rollup", "calc") => job[c] \in Rollups
         /\ At(c, "rollup", "saved") => job[c] \in Saveds
         /\ job[c] \in BomJobs
<1>1. job[c] \in BomJobs
  BY DEF BomTypes
<1> QED
  BY <1>1, JobsOfBoms DEF BomJobs, At

LEMMA RollupFitsAt ==
  ASSUME BomInv, ~bomLate, NEW c \in Clients, NEW j, job[c] = j, j \in BomJobs
  PROVE  RollupFits(j)
BY DEF BomInv, RollupsFit

\* A rollup begins with its bill once.
LEMMA RollupBegins ==
  ASSUME LinesTyped, NEW b \in Boms, NEW e \in ToDo, e.bom = b, e.times = 1
  PROVE  RollsUp(b, 0, {}, <<e>>)
<1>1. FullCosts \in [Boms -> Nat] /\ FullCost(b) \in Nat /\ FullCosts[b] = FullCost(b)
  BY FullCostIsFixed DEF FullCosts
<1>2. b \in MadeWith(b)
  BY MadeWithIsLeast
<1>3. IsTotal(<< >>, 0, FullCosts) /\ << >> \in Seq(ToDo)
  BY TotalOfNone
<1>4. IsTotal(Append(<< >>, e), 0 + e.times * FullCosts[e.bom], FullCosts)
  BY <1>1, <1>3, TotalOfAppend
<1>5. Append(<< >>, e) = <<e>> /\ 0 + e.times * FullCosts[e.bom] = FullCost(b)
  BY <1>1
<1>6. CountsUp(b, 0, <<e>>)
  BY <1>1, <1>4, <1>5 DEF CountsUp
<1>7. DOMAIN <<e>> = {1} /\ <<e>>[1] = e
  OBVIOUS
<1>8. Below(b, {}, <<e>>) /\ ComeOnce(b, {}, <<e>>)
  BY <1>2, <1>7 DEF Below, ComeOnce, NamedBy
<1> QED
  BY <1>6, <1>8 DEF RollsUp

LEMMA RollupCostKeeps ==
  ASSUME BomInv, NEW c \in Clients, NEW b \in Boms, RollupCost(c, b)
  PROVE  BomInv'
<1>1. PICK e : e = [bom |-> b, times |-> 1]
  OBVIOUS
<1>2. PICK j : j = [op |-> "rollup", stage |-> "calc", on |-> b, total |-> 0,
                    visited |-> {}, todo |-> <<e>>]
  OBVIOUS
<1>3. /\ job' = [job EXCEPT ![c] = j] /\ bomLine' = bomLine /\ bomLate' = bomLate
      /\ bomCost' = bomCost
  BY <1>1, <1>2 DEF RollupCost, Accept, bomData
<1>4. e \in ToDo /\ <<e>> \in Seq(ToDo)
  BY <1>1 DEF ToDo
<1>5. j \in Rollups /\ j.on = b /\ j.total = 0 /\ j.visited = {} /\ j.todo = <<e>>
  BY <1>2, <1>4 DEF Rollups
<1>6. LinesTyped
  BY DEF BomInv, BomTypes, BomTypeOK, LinesTyped
<1>7. RollsUp(b, 0, {}, <<e>>)
  BY <1>1, <1>4, <1>6, RollupBegins
<1>8. RollsUp(b, 0, {}, <<e>>)'
  BY <1>3, <1>7, RollsUpStays
<1>9. RollupFits(j)'
  BY <1>5, <1>8, JobsOfBoms DEF RollupFits, Rollups, Saveds
<1>10. BomTypeOK'
  BY <1>3 DEF BomInv, BomTypes, BomTypeOK
<1>11. j \in BomJobs
  BY <1>5 DEF BomJobs
<1> QED
  BY <1>3, <1>9, <1>10, <1>11, BomGoesOn

\* The bills of made lines of one bill, and of two, where none is shared.
LEMMA SharedByTwo ==
  ASSUME NEW b, ~Shares(b), NEW a \in MadeWith(b), NEW d \in MadeWith(b),
         NEW i \in MadeLines(a), NEW k \in MadeLines(d),
         BomOf[bomLine[a][i].part] = BomOf[bomLine[d][k].part]
  PROVE  a = d /\ i = k
BY DEF Shares

LEMMA NamedOnce ==
  ASSUME NEW b, ~Shares(b), NEW a \in MadeWith(b), NEW d \in MadeWith(b),
         NEW x \in MadeOf(a), x \in MadeOf(d)
  PROVE  a = d
BY DEF Shares, MadeOf

\* What is to be looked at after bill x: the bills of its parts, then the rest.
LEMMA LookedAtComeOnce ==
  ASSUME LinesTyped, NEW b \in Boms, ~Loops(b), ~Shares(b),
         NEW visited \in SUBSET Boms, NEW todo \in Seq(ToDo), todo # << >>,
         Below(b, visited, todo), ComeOnce(b, visited, todo),
         NEW x, x = todo[1].bom, NEW n \in Nat, NEW new, new = Unpriced(x, n)
  PROVE  ComeOnce(b, visited \cup {x}, new \o Tail(todo))
<1>1. /\ b \in MadeWith(b) /\ MadeWith(b) \subseteq Boms
  BY MadeWithIsLeast
<1>2. PICK m : m = Len(todo)
  OBVIOUS
<1>3. m \in Nat \ {0} /\ DOMAIN todo = 1..m
  BY <1>2
<1>4. PICK rest : rest = Tail(todo)
  OBVIOUS
<1>5. /\ rest \in Seq(ToDo) /\ Len(rest) = m - 1
      /\ \A k \in 1..(m - 1) : rest[k] = todo[k + 1]
  BY <1>2, <1>3, <1>4
<1>6. x \in MadeWith(b) /\ x \in Boms /\ x \notin visited /\ visited \subseteq MadeWith(b)
  BY <1>1, <1>3 DEF Below, ComeOnce
<1>7. new \in Seq(ToDo)
  BY <1>6, BillAddsUp, [d \in Boms |-> 0] \in [Boms -> Nat]
<1>8. PICK h \in [DOMAIN new -> MadeLines(x)] :
        /\ \A e, f \in DOMAIN new : e # f => h[e] # h[f]
        /\ \A e \in DOMAIN new : new[e].bom = BomOf[bomLine[x][h[e]].part]
  BY <1>6, UnpricedNames
<1>9. PICK u : u = Len(new)
  OBVIOUS
<1>10. PICK q : q = new \o rest
  OBVIOUS
<1>11. /\ u \in Nat /\ DOMAIN new = 1..u /\ DOMAIN q = 1..(u + (m - 1))
       /\ (\A k \in 1..u : q[k] = new[k])
       /\ \A k \in 1..(m - 1) : q[u + k] = todo[k + 1]
  <2>1. u \in Nat /\ DOMAIN new = 1..u
    BY <1>7, <1>9
  <2>2. DOMAIN q = 1..(u + (m - 1)) /\ \A k \in 1..u : q[k] = new[k]
    BY <1>3, <1>5, <1>7, <1>9, <1>10
  <2>3. \A k \in 1..(m - 1) : q[u + k] = rest[k]
    BY <1>3, <1>5, <1>7, <1>9, <1>10
  <2> QED
    BY <1>5, <2>1, <2>2, <2>3
<1>12. \A k \in DOMAIN q : k \in 1..u \/ \E i \in 1..(m - 1) : k = u + i
  <2> SUFFICES ASSUME NEW k \in 1..(u + (m - 1)), k \notin 1..u
               PROVE  k - u \in 1..(m - 1) /\ k = u + (k - u)
    BY <1>11
  <2> QED
    BY <1>3, <1>11
<1>13. \A i \in 1..(m - 1) : i + 1 \in DOMAIN todo /\ i + 1 # 1 /\ 1 \in DOMAIN todo
  BY <1>3
<1>14. ASSUME NEW y \in MadeOf(x), NamedBy(b, visited, y)
       PROVE  FALSE
  <2>1. y # b
    BY <1>1, <1>6, <1>14 DEF Loops
  <2>2. PICK a \in visited : y \in MadeOf(a)
    BY <1>14, <2>1 DEF NamedBy
  <2>3. a = x
    BY <1>6, <1>14, <2>2, NamedOnce
  <2> QED
    BY <1>6, <2>2, <2>3
<1>15. x \notin MadeOf(x)
  <2>1. x \in MadeWith(x)
    BY <1>6, MadeWithIsLeast
  <2> QED
    BY <1>6, <2>1 DEF Loops
<1>16. \A k \in 1..u : new[k].bom \in MadeOf(x)
  BY <1>8, <1>11 DEF MadeOf
<1>17. \A i \in 1..(m - 1) : /\ todo[i + 1].bom \notin visited \cup {x}
                             /\ NamedBy(b, visited, todo[i + 1].bom)
  BY <1>13 DEF ComeOnce
<1>18. \A k \in 1..u : new[k].bom \notin visited \cup {x}
  BY <1>14, <1>15, <1>16 DEF ComeOnce
<1>19. \A k \in 1..u, i \in 1..(m - 1) : new[k].bom # todo[i + 1].bom
  <2> SUFFICES ASSUME NEW k \in 1..u, NEW i \in 1..(m - 1), new[k].bom = todo[i + 1].bom
               PROVE  FALSE
    OBVIOUS
  <2>1. NamedBy(b, visited, new[k].bom) /\ new[k].bom \in MadeOf(x)
    BY <1>16, <1>17
  <2> QED
    BY <1>14, <2>1
<1>20. \A k, l \in 1..u : k # l => new[k].bom # new[l].bom
  <2> SUFFICES ASSUME NEW k \in 1..u, NEW l \in 1..u, new[k].bom = new[l].bom
               PROVE  k = l
    OBVIOUS
  <2>1. /\ h[k] \in MadeLines(x) /\ h[l] \in MadeLines(x)
        /\ new[k].bom = BomOf[bomLine[x][h[k]].part]
        /\ new[l].bom = BomOf[bomLine[x][h[l]].part]
    BY <1>8, <1>11
  <2>2. h[k] = h[l]
    <3>1. PICK i \in MadeLines(x), o \in MadeLines(x) : i = h[k] /\ o = h[l]
      BY <2>1
    <3>2. BomOf[bomLine[x][i].part] = BomOf[bomLine[x][o].part]
      BY <2>1, <3>1
    <3>3. i = o
      BY <1>6, <3>2, SharedByTwo
    <3> QED
      BY <3>1, <3>3
  <2> QED
    BY <1>8, <1>11, <2>2
<1>21. \A i, l \in 1..(m - 1) : i # l => todo[i + 1].bom # todo[l + 1].bom
  <2> SUFFICES ASSUME NEW i \in 1..(m - 1), NEW l \in 1..(m - 1), i # l
               PROVE  todo[i + 1].bom # todo[l + 1].bom
    OBVIOUS
  <2>1. i + 1 # l + 1
    OBVIOUS
  <2> QED
    BY <1>13, <2>1 DEF ComeOnce
<1>22. \A k, l \in DOMAIN q : k # l => q[k].bom # q[l].bom
  <2> SUFFICES ASSUME NEW k \in DOMAIN q, NEW l \in DOMAIN q, k # l
               PROVE  q[k].bom # q[l].bom
    OBVIOUS
  <2>1. CASE k \in 1..u /\ l \in 1..u
    BY <1>11, <1>20, <2>1
  <2>2. CASE k \in 1..u /\ l \notin 1..u
    <3>1. PICK i \in 1..(m - 1) : l = u + i
      BY <1>12, <2>2
    <3> QED
      BY <1>11, <1>19, <2>2, <3>1
  <2>3. CASE k \notin 1..u /\ l \in 1..u
    <3>1. PICK i \in 1..(m - 1) : k = u + i
      BY <1>12, <2>3
    <3> QED
      BY <1>11, <1>19, <2>3, <3>1
  <2>4. CASE k \notin 1..u /\ l \notin 1..u
    <3>1. PICK i \in 1..(m - 1) : k = u + i
      BY <1>12, <2>4
    <3>2. PICK o \in 1..(m - 1) : l = u + o
      BY <1>12, <2>4
    <3>3. i # o
      BY <3>1, <3>2
    <3> QED
      BY <1>11, <1>21, <3>1, <3>2, <3>3
  <2> QED
    BY <2>1, <2>2, <2>3, <2>4
<1>23. \A d : NamedBy(b, visited, d) => NamedBy(b, visited \cup {x}, d)
  BY DEF NamedBy
<1>24. \A d \in MadeOf(x) : NamedBy(b, visited \cup {x}, d)
  BY DEF NamedBy
<1>25. \A k \in DOMAIN q : /\ q[k].bom \notin visited \cup {x}
                           /\ NamedBy(b, visited \cup {x}, q[k].bom)
  <2> SUFFICES ASSUME NEW k \in DOMAIN q
               PROVE  /\ q[k].bom \notin visited \cup {x}
                      /\ NamedBy(b, visited \cup {x}, q[k].bom)
    OBVIOUS
  <2>1. CASE k \in 1..u
    BY <1>11, <1>16, <1>18, <1>24, <2>1
  <2>2. CASE k \notin 1..u
    <3>1. PICK i \in 1..(m - 1) : k = u + i
      BY <1>12, <2>2
    <3> QED
      BY <1>11, <1>17, <1>23, <3>1
  <2> QED
    BY <2>1, <2>2
<1>26. \A d \in visited \cup {x} : NamedBy(b, visited \cup {x}, d)
  <2>1. NamedBy(b, visited, x) /\ \A d \in visited : NamedBy(b, visited, d)
    BY <1>3 DEF ComeOnce
  <2> QED
    BY <1>23, <2>1
<1>27. ComeOnce(b, visited \cup {x}, q)
  BY <1>22, <1>25, <1>26 DEF ComeOnce
<1> QED
  BY <1>4, <1>10, <1>27

LEMMA LookedAtIsBelow ==
  ASSUME LinesTyped, NEW b \in Boms, ~Loops(b),
         NEW visited \in SUBSET Boms, NEW todo \in Seq(ToDo), todo # << >>,
         Below(b, visited, todo),
         NEW x, x = todo[1].bom, NEW n \in Nat, NEW new, new = Unpriced(x, n)
  PROVE  /\ Below(b, visited, Tail(todo))
         /\ Below(b, visited \cup {x}, new \o Tail(todo))
<1>1. MadeWith(b) \subseteq Boms /\ Closed(MadeWith(b))
  BY MadeWithIsLeast
<1>2. PICK m : m = Len(todo)
  OBVIOUS
<1>3. m \in Nat \ {0} /\ DOMAIN todo = 1..m
  BY <1>2
<1>4. PICK rest : rest = Tail(todo)
  OBVIOUS
<1>5. /\ rest \in Seq(ToDo) /\ Len(rest) = m - 1 /\ DOMAIN rest = 1..(m - 1)
      /\ \A k \in 1..(m - 1) : rest[k] = todo[k + 1]
  BY <1>2, <1>3, <1>4
<1>6. x \in MadeWith(b) /\ x \in Boms
  BY <1>1, <1>3 DEF Below
<1>7. new \in Seq(ToDo)
  BY <1>6, BillAddsUp, [d \in Boms |-> 0] \in [Boms -> Nat]
<1>8. PICK h \in [DOMAIN new -> MadeLines(x)] :
         /\ \A e, f \in DOMAIN new : e # f => h[e] # h[f]
         /\ \A e \in DOMAIN new : new[e].bom = BomOf[bomLine[x][h[e]].part]
  BY <1>6, UnpricedNames
<1>9. \A k \in DOMAIN new : new[k].bom \in MadeWith(b)
  <2> SUFFICES ASSUME NEW k \in DOMAIN new PROVE new[k].bom \in MadeOf(x)
    BY <1>1, <1>6 DEF Closed
  <2> QED
    BY <1>8 DEF MadeOf
<1>10. \A k \in DOMAIN rest : rest[k].bom \in MadeWith(b)
  <2>1. \A k \in 1..(m - 1) : k + 1 \in DOMAIN todo
    BY <1>3
  <2> QED
    BY <1>5, <2>1 DEF Below
<1>11. Below(b, visited, rest)
  BY <1>10 DEF Below
<1>12. PICK q : q = new \o rest
  OBVIOUS
<1>13. PICK u : u = Len(new)
  OBVIOUS
<1>14. u \in Nat /\ DOMAIN new = 1..u /\ DOMAIN q = 1..(u + (m - 1))
       /\ \A k \in 1..(u + (m - 1)) : q[k] = IF k <= u THEN new[k] ELSE rest[k - u]
  BY <1>3, <1>5, <1>7, <1>12, <1>13
<1>15. ASSUME NEW k \in DOMAIN q PROVE q[k].bom \in MadeWith(b)
  <2>1. CASE k <= u
    BY <1>9, <1>14, <2>1
  <2>2. CASE ~(k <= u)
    <3>1. k - u \in DOMAIN rest /\ q[k] = rest[k - u]
      BY <1>3, <1>5, <1>14, <2>2
    <3> QED
      BY <1>10, <3>1
  <2> QED
    BY <2>1, <2>2
<1>16. Below(b, visited \cup {x}, q)
  BY <1>6, <1>15 DEF Below
<1> QED
  BY <1>4, <1>11, <1>12, <1>16

\* A bill that was looked at counts nothing, one that was not with its lines.
LEMMA LookedAtCounts ==
  ASSUME LinesTyped, NEW b \in Boms, ~Loops(b), NEW total \in Nat,
         NEW todo \in Seq(ToDo), todo # << >>, CountsUp(b, total, todo),
         NEW x, x = todo[1].bom, x \in MadeWith(b), NEW n, n = todo[1].times,
         NEW new, new = Unpriced(x, n)
  PROVE  /\ CountsUp(b, total + Priced(x, n), new \o Tail(todo))
         /\ Shares(b) => CountsUp(b, total, Tail(todo))
<1>1. PICK C : C = FullCosts
  OBVIOUS
<1>2. C \in [Boms -> Nat] /\ x \in Boms /\ C[x] = CostOfLines(x, C)
  BY <1>1, FullCostIsFixed DEF FullCosts
<1>3. n \in Nat
  <2>1. todo[1] \in ToDo
    OBVIOUS
  <2> QED
    BY <2>1 DEF ToDo
<1>4. PICK v \in Nat : /\ IsTotal(todo, v, C)
                       /\ total + v <= FullCost(b)
                       /\ ~Shares(b) => total + v = FullCost(b)
  BY <1>1 DEF CountsUp
<1>5. PICK w \in Nat : IsTotal(Tail(todo), w, C) /\ v = w + todo[1].times * C[todo[1].bom]
  BY <1>2, <1>4, TotalOfTail
<1>6. PICK p : p = Priced(x, n)
  OBVIOUS
<1>7. /\ new \in Seq(ToDo) /\ p \in Nat
      /\ \E u \in Nat : IsTotal(new, u, C) /\ p + u = n * CostOfLines(x, C)
  <2>1. Unpriced(x, n) \in Seq(ToDo) /\ Priced(x, n) \in Nat
    BY <1>2, <1>3, BillAddsUp
  <2>2. \E u \in Nat : /\ IsTotal(Unpriced(x, n), u, C)
                       /\ Priced(x, n) + u = n * CostOfLines(x, C)
    BY <1>2, <1>3, BillAddsUp
  <2>3. \E u \in Nat : IsTotal(new, u, C) /\ p + u = n * CostOfLines(x, C)
    BY <1>6, <2>2
  <2> QED
    BY <1>6, <2>1, <2>3
<1>8. PICK u \in Nat : IsTotal(new, u, C) /\ p + u = n * CostOfLines(x, C)
  BY <1>7
<1>9. PICK f : f = n * C[x]
  OBVIOUS
<1>10. v = w + f /\ p + u = f /\ f \in Nat
  <2>1. f \in Nat
    BY <1>7, <1>8, <1>9, <1>2
  <2> QED
    BY <1>2, <1>5, <1>8, <1>9, <2>1
<1>11. IsTotal(new \o Tail(todo), u + w, C)
  <2>1. Tail(todo) \in Seq(ToDo)
    OBVIOUS
  <2> QED
    BY <1>2, <1>5, <1>7, <1>8, <2>1, TotalOfConcat
<1>12. u + w \in Nat /\ (total + p) + (u + w) = total + v
  <2>1. total \in Nat /\ u \in Nat /\ w \in Nat /\ v \in Nat /\ p \in Nat
    BY <1>4, <1>5, <1>7, <1>8
  <2>2. v = w + f /\ p + u = f /\ f \in Nat
    BY <1>10
  <2> QED
    BY <2>1, <2>2
<1>13. CountsUp(b, total + p, new \o Tail(todo))
  BY <1>1, <1>4, <1>11, <1>12 DEF CountsUp
<1>14. FullCost(b) \in Nat
  BY FullCostIsFixed DEF FullCosts
<1>15. total + w <= FullCost(b)
  BY <1>4, <1>10, <1>14
<1>16. Shares(b) => CountsUp(b, total, Tail(todo))
  BY <1>1, <1>5, <1>15 DEF CountsUp
<1> QED
  BY <1>6, <1>13, <1>16

LEMMA RollsOn ==
  ASSUME LinesTyped, NEW b \in Boms, NEW total \in Nat, NEW visited \in SUBSET Boms,
         NEW todo \in Seq(ToDo), todo # << >>, RollsUp(b, total, visited, todo),
         NEW x, x = todo[1].bom, NEW n, n = todo[1].times
  PROVE  /\ x \in visited => RollsUp(b, total, visited, Tail(todo))
         /\ x \notin visited =>
              RollsUp(b, total + Priced(x, n), visited \cup {x}, Unpriced(x, n) \o Tail(todo))
<1> SUFFICES ASSUME ~Loops(b)
             PROVE  /\ x \in visited => RollsUp(b, total, visited, Tail(todo))
                    /\ x \notin visited =>
                         RollsUp(b, total + Priced(x, n), visited \cup {x},
                                 Unpriced(x, n) \o Tail(todo))
  BY DEF RollsUp
<1>1. /\ Below(b, visited, todo) /\ CountsUp(b, total, todo)
      /\ ~Shares(b) => ComeOnce(b, visited, todo)
  BY DEF RollsUp
<1>2. 1 \in DOMAIN todo /\ todo[1] \in ToDo
  OBVIOUS
<1>3. n \in Nat /\ x \in MadeWith(b)
  BY <1>1, <1>2 DEF ToDo, Below
<1>4. PICK new : new = Unpriced(x, n)
  OBVIOUS
<1>5. /\ Below(b, visited, Tail(todo))
      /\ Below(b, visited \cup {x}, new \o Tail(todo))
  BY <1>1, <1>3, <1>4, LookedAtIsBelow
<1>6. /\ CountsUp(b, total + Priced(x, n), new \o Tail(todo))
      /\ Shares(b) => CountsUp(b, total, Tail(todo))
  BY <1>1, <1>3, <1>4, LookedAtCounts
<1>7. ~Shares(b) => x \notin visited /\ ComeOnce(b, visited \cup {x}, new \o Tail(todo))
  <2>1. ~Shares(b) => x \notin visited
    BY <1>1, <1>2 DEF ComeOnce
  <2>2. ~Shares(b) => ComeOnce(b, visited \cup {x}, new \o Tail(todo))
    BY <1>1, <1>3, <1>4, LookedAtComeOnce
  <2> QED
    BY <2>1, <2>2
<1> QED
  BY <1>4, <1>5, <1>6, <1>7 DEF RollsUp

LEMMA CalcCostKeeps ==
  ASSUME BomInv, NEW c \in Clients, CalcCost(c)
  PROVE  BomInv'
<1>1. PICK j : j = job[c]
  OBVIOUS
<1>2. j \in Rollups /\ LinesTyped
  BY <1>1, RollupAt DEF CalcCost, BomInv, BomTypes, BomTypeOK, LinesTyped
<1>3. PICK b, total, visited, todo :
        b = j.on /\ total = j.total /\ visited = j.visited /\ todo = j.todo
  OBVIOUS
<1>4. /\ b \in Boms /\ total \in Nat /\ visited \in SUBSET Boms /\ todo \in Seq(ToDo)
      /\ todo # << >>
      /\ j = [op |-> "rollup", stage |-> "calc", on |-> b, total |-> total,
              visited |-> visited, todo |-> todo]
  BY <1>1, <1>2, <1>3 DEF CalcCost, Rollups
<1>5. PICK x, n : x = todo[1].bom /\ n = todo[1].times
  OBVIOUS
<1>6. x \in Boms /\ n \in Nat
  <2>1. todo[1] \in ToDo
    BY <1>4
  <2> QED
    BY <1>5, <2>1 DEF ToDo
<1>7. PICK k : k = IF x \in visited THEN [j EXCEPT !.todo = Tail(@)]
                   ELSE [j EXCEPT !.visited = @ \cup {x},
                                  !.total = @ + Priced(x, n),
                                  !.todo = Unpriced(x, n) \o Tail(@)]
  OBVIOUS
<1>8. job' = [job EXCEPT ![c] = k] /\ bomLine' = bomLine /\ bomLate' = bomLate
      /\ bomCost' = bomCost
  BY <1>1, <1>3, <1>4, <1>5, <1>7 DEF CalcCost, Continue, bomData
<1>9. Unpriced(x, n) \in Seq(ToDo) /\ Priced(x, n) \in Nat
  BY <1>2, <1>6, BillAddsUp, [d \in Boms |-> 0] \in [Boms -> Nat]
<1>10. PICK price, new : price = Priced(x, n) /\ new = Unpriced(x, n)
  OBVIOUS
<1>11. PICK t, s, q : /\ t = IF x \in visited THEN total ELSE total + price
                      /\ s = IF x \in visited THEN visited ELSE visited \cup {x}
                      /\ q = IF x \in visited THEN Tail(todo) ELSE new \o Tail(todo)
  OBVIOUS
<1>12. k = [op |-> "rollup", stage |-> "calc", on |-> b, total |-> t,
            visited |-> s, todo |-> q]
  <2>1. CASE x \in visited
    BY <1>4, <1>7, <1>11, <2>1
  <2>2. CASE x \notin visited
    BY <1>4, <1>7, <1>10, <1>11, <2>2
  <2> QED
    BY <2>1, <2>2
<1>13. t \in Nat /\ s \in SUBSET Boms /\ q \in Seq(ToDo)
  <2>1. Tail(todo) \in Seq(ToDo)
    BY <1>4
  <2>2. new \o Tail(todo) \in Seq(ToDo)
    BY <1>9, <1>10, <2>1
  <2>3. total + price \in Nat /\ visited \cup {x} \in SUBSET Boms
    BY <1>4, <1>6, <1>9, <1>10
  <2> QED
    BY <1>4, <1>11, <2>1, <2>2, <2>3
<1>14. k \in Rollups /\ k.on = b /\ k.total = t /\ k.visited = s /\ k.todo = q
  BY <1>4, <1>12, <1>13 DEF Rollups
<1>15. ASSUME ~bomLate PROVE RollupFits(k)'
  <2>1. RollsUp(b, total, visited, todo)
    <3>1. RollupFits(j)
      BY <1>1, <1>2, <1>15, RollupFitsAt DEF BomJobs
    <3> QED
      BY <1>2, <1>3, <3>1 DEF RollupFits
  <2>2. RollsUp(b, t, s, q)
    <3>1. /\ x \in visited => RollsUp(b, total, visited, Tail(todo))
          /\ x \notin visited =>
               RollsUp(b, total + price, visited \cup {x}, new \o Tail(todo))
      BY <1>2, <1>4, <1>5, <1>10, <2>1, RollsOn
    <3>2. CASE x \in visited
      <4>1. t = total /\ s = visited /\ q = Tail(todo)
        BY <1>11, <3>2
      <4> QED
        BY <3>1, <3>2, <4>1
    <3>3. CASE x \notin visited
      <4>1. t = total + price /\ s = visited \cup {x} /\ q = new \o Tail(todo)
        BY <1>11, <3>3
      <4> QED
        BY <3>1, <3>3, <4>1
    <3> QED
      BY <3>2, <3>3
  <2>3. RollsUp(b, t, s, q)'
    BY <1>8, <2>2, RollsUpStays
  <2> QED
    BY <1>14, <2>3, JobsOfBoms DEF RollupFits, Rollups, Saveds
<1>16. BomTypeOK'
  BY <1>8 DEF BomInv, BomTypes, BomTypeOK
<1>17. k \in BomJobs
  BY <1>14 DEF BomJobs
<1> QED
  BY <1>8, <1>15, <1>16, <1>17, BomGoesOn

LEMMA SaveCostKeeps ==
  ASSUME BomInv, NEW c \in Clients, SaveCost(c)
  PROVE  BomInv'
<1>1. PICK j : j = job[c]
  OBVIOUS
<1>2. j \in Rollups /\ LinesTyped /\ j.todo = << >>
  BY <1>1, RollupAt DEF SaveCost, BomInv, BomTypes, BomTypeOK, LinesTyped
<1>3. PICK b, total : b = j.on /\ total = j.total
  OBVIOUS
<1>4. b \in Boms /\ total \in Nat
  BY <1>2, <1>3 DEF Rollups
<1>5. PICK k : k = [op |-> "rollup", stage |-> "saved", on |-> b]
  OBVIOUS
<1>6. /\ job' = [job EXCEPT ![c] = k] /\ bomLine' = bomLine /\ bomLate' = bomLate
      /\ bomCost' = [bomCost EXCEPT ![b] = total]
  BY <1>1, <1>3, <1>5 DEF SaveCost, Continue
<1>7. bomCost \in [Boms -> Nat] /\ bomCost' \in [Boms -> Nat] /\ bomCost'[b] = total
      /\ \A d \in Boms \ {b} : bomCost'[d] = bomCost[d]
  BY <1>4, <1>6 DEF BomInv, BomTypes, BomTypeOK
<1>8. BomTypeOK'
  BY <1>6, <1>7 DEF BomInv, BomTypes, BomTypeOK
<1>9. k \in Saveds /\ k.on = b
  BY <1>4, <1>5 DEF Saveds
<1>10. ASSUME ~bomLate PROVE SavedFits(b)'
  <2>1. RollupFits(j)
    BY <1>1, <1>2, <1>10, RollupFitsAt DEF BomJobs
  <2>2. RollsUp(b, total, j.visited, << >>)
    BY <1>2, <1>3, <2>1 DEF RollupFits
  <2>3. ~Loops(b) => total <= FullCost(b) /\ (~Shares(b) => total = FullCost(b))
    <3> SUFFICES ASSUME ~Loops(b)
                 PROVE  total <= FullCost(b) /\ (~Shares(b) => total = FullCost(b))
      OBVIOUS
    <3>1. PICK v \in Nat : /\ IsTotal(<< >>, v, FullCosts)
                           /\ total + v <= FullCost(b)
                           /\ ~Shares(b) => total + v = FullCost(b)
      BY <2>2 DEF RollsUp, CountsUp
    <3>2. v = 0
      BY <3>1, TotalOfNone
    <3> QED
      BY <1>4, <3>1, <3>2
  <2>4. FullCost(b)' = FullCost(b) /\ Loops(b)' = Loops(b) /\ Shares(b)' = Shares(b)
    BY <1>6, Stays
  <2> QED
    BY <1>7, <2>3, <2>4 DEF SavedFits
<1>11. ~bomLate => RollupFits(k)'
  <2>1. k \notin Rollups
    BY <1>9, JobsOfBoms
  <2> QED
    BY <1>9, <1>10, <2>1 DEF RollupFits, Rollups, Saveds
<1>12. ~bomLate => \A d \in Boms : bomCost'[d] = bomCost[d] \/ SavedFits(d)'
  <2> SUFFICES ASSUME ~bomLate, NEW d \in Boms
               PROVE  bomCost'[d] = bomCost[d] \/ SavedFits(d)'
    OBVIOUS
  <2>1. CASE d = b
    BY <1>10, <2>1
  <2>2. CASE d # b
    BY <1>7, <2>2
  <2> QED
    BY <2>1, <2>2
<1>13. k \in BomJobs
  BY <1>9 DEF BomJobs
<1> QED
  BY <1>6, <1>8, <1>11, <1>12, <1>13, BomGoesOn

LEMMA RolledUpKeeps ==
  ASSUME BomInv, NEW c \in Clients, RolledUp(c)
  PROVE  BomInv'
<1>1. job' = [job EXCEPT ![c] = NoJob] /\ bomLine' = bomLine /\ bomLate' = bomLate
      /\ bomCost' = bomCost
  BY DEF RolledUp, Reply, Continue, bomData
<1>2. RollupFits(NoJob)'
  BY JobsOfBoms DEF RollupFits, Rollups, Saveds, NoJob
<1>3. BomTypeOK'
  BY <1>1 DEF BomInv, BomTypes, BomTypeOK
<1>4. NoJob \in BomJobs
  BY DEF BomJobs
<1> QED
  BY <1>1, <1>2, <1>3, <1>4, BomGoesOn

\* Lines are written while no rollup is under way, or bomLate tells.
LEMMA WriteLinesKeeps ==
  ASSUME BomInv, NEW b \in Boms, NEW lines, lines \in Seq(BomLines), Len(lines) <= MaxLines,
         WriteLines(b, lines)
  PROVE  BomInv'
<1>1. job' = job /\ bomCost' = bomCost /\ bomLine' = [bomLine EXCEPT ![b] = lines]
      /\ bomLate' = (bomLate \/ \E c \in Clients : job[c] # NoJob)
  BY DEF WriteLines, Once
<1>2. BomTypeOK'
  BY <1>1 DEF BomInv, BomTypes, BomTypeOK
<1>3. ASSUME ~bomLate' PROVE RollupsFit'
  <2>1. \A c \in Clients : job[c] = NoJob
    BY <1>1, <1>3
  <2>2. RollupFits(NoJob)'
    BY JobsOfBoms DEF RollupFits, Rollups, Saveds, NoJob
  <2> QED
    BY <1>1, <2>1, <2>2 DEF RollupsFit, BomJobs, Rollups, Saveds
<1> QED
  BY <1>1, <1>2, <1>3 DEF BomInv, BomTypes

LEMMA AddBomLineKeeps ==
  ASSUME BomInv, NEW b \in Boms, NEW l \in BomLines, AddBomLine(b, l)
  PROVE  BomInv'
<1>1. bomLine[b] \in Seq(BomLines)
  BY DEF BomInv, BomTypes, BomTypeOK
<1>2. /\ Append(bomLine[b], l) \in Seq(BomLines)
      /\ Len(Append(bomLine[b], l)) = Len(bomLine[b]) + 1
      /\ Len(bomLine[b]) \in Nat
  BY <1>1
<1>3. Len(bomLine[b]) < MaxLines /\ WriteLines(b, Append(bomLine[b], l))
  BY DEF AddBomLine
<1>4. PICK lines : lines = Append(bomLine[b], l)
  OBVIOUS
<1>5. lines \in Seq(BomLines) /\ Len(lines) <= MaxLines /\ WriteLines(b, lines)
  BY <1>2, <1>3, <1>4, MaxLinesAssumption
<1> QED
  BY <1>5, WriteLinesKeeps

LEMMA UpdateBomLineKeeps ==
  ASSUME BomInv, NEW b \in Boms, NEW i \in DOMAIN bomLine[b], NEW q \in Quantities,
         UpdateBomLine(b, i, q)
  PROVE  BomInv'
<1>1. PICK lines : lines = bomLine[b]
  OBVIOUS
<1>2. lines \in Seq(BomLines) /\ Len(lines) <= MaxLines /\ i \in 1..Len(lines)
  BY <1>1 DEF BomInv, BomTypes, BomTypeOK
<1>3. PICK new : new = [lines EXCEPT ![i].quantity = q]
  OBVIOUS
<1>4. [lines[i] EXCEPT !.quantity = q] \in BomLines
  <2>1. lines[i] \in BomLines
    BY <1>2
  <2> QED
    BY <2>1 DEF BomLines
<1>5. new = [lines EXCEPT ![i] = [lines[i] EXCEPT !.quantity = q]]
  BY <1>3
<1>6. new \in Seq(BomLines) /\ Len(new) = Len(lines)
  BY <1>2, <1>4, <1>5
<1>7. WriteLines(b, new)
  BY <1>1, <1>3 DEF UpdateBomLine
<1> QED
  BY <1>2, <1>6, <1>7, WriteLinesKeeps

LEMMA RemoveBomLineKeeps ==
  ASSUME BomInv, NEW b \in Boms, NEW i \in DOMAIN bomLine[b], RemoveBomLine(b, i)
  PROVE  BomInv'
<1>1. PICK lines : lines = bomLine[b]
  OBVIOUS
<1>2. PICK m : m = Len(lines)
  OBVIOUS
<1>3. /\ lines \in Seq(BomLines) /\ m <= MaxLines /\ m \in Nat /\ i \in 1..m
  BY <1>1, <1>2 DEF BomInv, BomTypes, BomTypeOK
<1>4. PICK new : new = RemoveAt(lines, i)
  OBVIOUS
<1>5. PICK before, after : before = SubSeq(lines, 1, i - 1) /\ after = SubSeq(lines, i + 1, m)
  OBVIOUS
<1>6. new = before \o after
  BY <1>2, <1>4, <1>5 DEF RemoveAt
<1>7. before \in Seq(BomLines) /\ Len(before) = i - 1
  BY <1>2, <1>3, <1>5
<1>8. after \in Seq(BomLines) /\ Len(after) = m - i
  BY <1>2, <1>3, <1>5
<1>9. new \in Seq(BomLines) /\ Len(new) = m - 1
  <2>1. Len(before \o after) = Len(before) + Len(after)
    <3>1. before \in Seq(BomLines) /\ after \in Seq(BomLines)
      BY <1>7, <1>8
    <3> QED
      BY <3>1
  <2>2. new \in Seq(BomLines)
    BY <1>6, <1>7, <1>8
  <2> QED
    BY <1>3, <1>6, <1>7, <1>8, <2>1, <2>2
<1>10. WriteLines(b, new)
  BY <1>1, <1>4 DEF RemoveBomLine
<1> QED
  BY <1>3, <1>9, <1>10, WriteLinesKeeps, MaxLinesAssumption

LEMMA BomNextInv == BomInv /\ [BomNext]_bomVars => BomInv'
<1> SUFFICES ASSUME BomInv, [BomNext]_bomVars PROVE BomInv'
  OBVIOUS
<1>1. CASE UNCHANGED bomVars
  <2>1. bomLine' = bomLine /\ bomCost' = bomCost /\ bomLate' = bomLate /\ job' = job
    BY <1>1 DEF bomVars, bomData, reqVars
  <2>2. BomTypes'
    BY <2>1 DEF BomInv, BomTypes, BomTypeOK
  <2>3. ASSUME ~bomLate, NEW c \in Clients, NEW j \in BomJobs, job[c] = j
        PROVE  RollupFits(j)'
    <3>1. RollupFits(j)
      BY <2>3 DEF BomInv, RollupsFit
    <3>2. j \in Rollups => RollsUp(j.on, j.total, j.visited, j.todo)'
      <4>1. j \in Rollups => RollsUp(j.on, j.total, j.visited, j.todo)
        BY <3>1 DEF RollupFits
      <4> QED
        BY <2>1, <4>1, RollsUpStays
    <3>3. j \in Saveds => SavedFits(j.on)'
      <4>1. j \in Saveds => SavedFits(j.on)
        BY <3>1 DEF RollupFits
      <4> QED
        BY <2>1, <4>1, Stays DEF SavedFits
    <3> QED
      BY <3>2, <3>3 DEF RollupFits, Rollups, Saveds
  <2>4. ~bomLate' => RollupsFit'
    BY <2>1, <2>3 DEF RollupsFit, BomJobs, Rollups, Saveds
  <2> QED
    BY <2>2, <2>4 DEF BomInv
<1>2. CASE BomNext
  BY <1>2, AddBomLineKeeps, RemoveBomLineKeeps, UpdateBomLineKeeps, RollupCostKeeps,
     CalcCostKeeps, SaveCostKeeps, RolledUpKeeps
  DEF BomNext
<1> QED
  BY <1>1, <1>2

(***************************************************************************)
(* The lines of a bill name parts with quantities and are no more than the *)
(* bound, and each bill has a cost, whatever is written while it is rolled *)
(* up.                                                                     *)
(***************************************************************************)
THEOREM BillsAreTyped == BomSpec => []BomTypeOK
<1>1. BomInv => BomTypeOK
  BY DEF BomInv, BomTypes
<1> QED
  BY <1>1, BomInitInv, BomNextInv, PTL DEF BomSpec

(***************************************************************************)
(* For any bills, parts and requests: a rollup during which no line was    *)
(* written saves the cost of the bill where no two lines below it name     *)
(* parts with one bill, and no more in every other that is not made of     *)
(* itself.                                                                 *)
(***************************************************************************)
THEOREM RollupSavesCost == BomSpec => []RollupIsCost
<1>1. BomInv => RollupIsCost
  <2> SUFFICES ASSUME BomInv, NEW c \in Clients, At(c, "rollup", "saved"), ~bomLate,
                      ~Loops(job[c].on)
               PROVE  /\ bomCost[job[c].on] <= FullCost(job[c].on)
                      /\ ~Shares(job[c].on) => bomCost[job[c].on] = FullCost(job[c].on)
    BY DEF RollupIsCost
  <2>1. PICK j : j = job[c]
    OBVIOUS
  <2>2. j \in Saveds
    BY <2>1, RollupAt DEF BomInv
  <2>3. RollupFits(j)
    BY <2>1, <2>2, RollupFitsAt DEF BomJobs
  <2> QED
    BY <2>1, <2>2, <2>3 DEF RollupFits, SavedFits
<1> QED
  BY <1>1, BomInitInv, BomNextInv, PTL DEF BomSpec
=============================================================================
