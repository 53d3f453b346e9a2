--------------------------- MODULE BillOfMaterial ---------------------------
(***************************************************************************)
(* The lines of the bills of material in force, and the rollup of the cost *)
(* of one over those of its parts (BomService).  The rollup reads the      *)
(* lines of one bill after the other, deepest first; a part with a         *)
(* standard cost counts with it, one without with the rollup of its own    *)
(* bill, which is looked at once in a rollup and counts nothing after.     *)
(*                                                                         *)
(* The standard costs and the bill in force of each part stay as they are, *)
(* quantities include the loss, and whole numbers need no rounding.        *)
(*                                                                         *)
(* bomLate is history: whether a line was written during a rollup.         *)
(***************************************************************************)
EXTENDS Requests, SequencesExt

CONSTANTS Boms,        \* bills of material in force
          Parts,       \* materials that lines name
          BomOf,       \* the bill of each part, or NoBom
          NoBom,
          StdCost,     \* of each part, 0 where there is none
          Structures,  \* what the bills hold at first
          Quantities,  \* what a line may be entered with
          MaxLines     \* bound: lines of a bill

ASSUME BomsAssumption == IsFiniteSet(Boms) /\ NoBom \notin Boms
ASSUME BomOfAssumption == BomOf \in [Parts -> Boms \cup {NoBom}]
ASSUME StdCostAssumption == StdCost \in [Parts -> Nat]
ASSUME QuantitiesAssumption == Quantities \subseteq Nat
ASSUME MaxLinesAssumption == MaxLines \in Nat
ASSUME StructuresAssumption ==
  \A d \in Structures :
    /\ d \in [Boms -> Seq([part : Parts, quantity : Quantities])]
    /\ \A b \in Boms : Len(d[b]) <= MaxLines

VARIABLES bomLine,  \* [Boms -> sequence of lines]
          bomCost,  \* materialCost, 0 before the first rollup
          bomLate

bomData == <<bomLine, bomCost, bomLate>>
bomVars == <<bomData, reqVars>>

BomLines == [part : Parts, quantity : Quantities]

BomInit ==
  /\ bomLine \in Structures
  /\ bomCost = [b \in Boms |-> 0]
  /\ bomLate = FALSE

-----------------------------------------------------------------------------
(* Lines, with no look at what the part is made of *)

WriteLines(b, lines) ==
  /\ Once
  /\ bomLine' = [bomLine EXCEPT ![b] = lines]
  /\ bomLate' = (bomLate \/ \E c \in Clients : job[c] # NoJob)
  /\ UNCHANGED bomCost

AddBomLine(b, l) ==
  /\ Len(bomLine[b]) < MaxLines
  /\ WriteLines(b, Append(bomLine[b], l))

UpdateBomLine(b, i, q) ==
  /\ bomLine[b][i].quantity # q
  /\ WriteLines(b, [bomLine[b] EXCEPT ![i].quantity = q])

RemoveBomLine(b, i) == WriteLines(b, RemoveAt(bomLine[b], i))

-----------------------------------------------------------------------------
(* rollupCost *)

RollupCost(c, b) ==
  /\ Accept(c, [op |-> "rollup", stage |-> "calc", on |-> b, total |-> 0,
                visited |-> {}, todo |-> <<[bom |-> b, times |-> 1]>>])
  /\ UNCHANGED bomData

\* What n pieces of bill b cost without the parts to be looked at.
Priced(b, n) ==
  FoldLeft(LAMBDA sum, l : sum + n * l.quantity * StdCost[l.part], 0, bomLine[b])

\* A line whose part has no standard cost and a bill in force.
IsMade(l) == StdCost[l.part] = 0 /\ BomOf[l.part] # NoBom

\* Variant: the pieces of the bill above do not multiply those of a part
UnpricedOnce(b, n) ==
  FoldLeft(LAMBDA todo, l :
             IF IsMade(l)
             THEN Append(todo, [bom |-> BomOf[l.part], times |-> l.quantity])
             ELSE todo,
           << >>, bomLine[b])

\* The bills of the parts of n pieces of bill b that are made.
Unpriced(b, n) ==
  FoldLeft(LAMBDA todo, l :
             IF IsMade(l)
             THEN Append(todo, [bom |-> BomOf[l.part], times |-> n * l.quantity])
             ELSE todo,
           << >>, bomLine[b])

\* calcCost, from one reading of lines to the next
CalcCost(c) ==
  /\ At(c, "rollup", "calc")
  /\ job[c].todo # << >>
  /\ LET j == job[c]  next == Head(j.todo)
     IN Continue(c,
          IF next.bom \in j.visited THEN [j EXCEPT !.todo = Tail(@)]
          ELSE [j EXCEPT !.visited = @ \cup {next.bom},
                         !.total = @ + Priced(next.bom, next.times),
                         !.todo = Unpriced(next.bom, next.times) \o Tail(@)])
  /\ UNCHANGED bomData

SaveCost(c) ==
  /\ At(c, "rollup", "calc")
  /\ job[c].todo = << >>
  /\ bomCost' = [bomCost EXCEPT ![job[c].on] = job[c].total]
  /\ Continue(c, [op |-> "rollup", stage |-> "saved", on |-> job[c].on])
  /\ UNCHANGED <<bomLine, bomLate>>

RolledUp(c) ==
  /\ At(c, "rollup", "saved")
  /\ Reply(c)
  /\ UNCHANGED bomData

BomNext ==
  \/ \E b \in Boms :
       \/ \E l \in BomLines : AddBomLine(b, l)
       \/ \E i \in DOMAIN bomLine[b] :
            RemoveBomLine(b, i) \/ \E q \in Quantities : UpdateBomLine(b, i, q)
       \/ \E c \in Clients : RollupCost(c, b)
  \/ \E c \in Clients : CalcCost(c) \/ SaveCost(c) \/ RolledUp(c)

BomSpec == ReqInit /\ BomInit /\ [][BomNext]_bomVars

-----------------------------------------------------------------------------
BomTypeOK ==
  /\ bomLine \in [Boms -> Seq(BomLines)]
  /\ \A b \in Boms : Len(bomLine[b]) <= MaxLines
  /\ bomCost \in [Boms -> Nat]
  /\ bomLate \in BOOLEAN

\* The lines of bill b whose parts are rolled up.
MadeLines(b) == {i \in DOMAIN bomLine[b] : IsMade(bomLine[b][i])}

MadeOf(b) == {BomOf[bomLine[b][i].part] : i \in MadeLines(b)}

\* The bills at or below b, and whether one of them is made of itself.
MadeWith(b) ==
  LET reach[n \in 0..Cardinality(Boms)] ==
        IF n = 0 THEN {b} ELSE reach[n - 1] \cup UNION {MadeOf(a) : a \in reach[n - 1]}
  IN reach[Cardinality(Boms)]
Loops(b) == \E a \in MadeWith(b) : \E d \in MadeOf(a) : a \in MadeWith(d)

\* Two lines below b name parts with one bill.
Shares(b) ==
  \E a, d \in MadeWith(b) : \E i \in MadeLines(a), k \in MadeLines(d) :
    <<a, i>> # <<d, k>> /\ BomOf[bomLine[a][i].part] = BomOf[bomLine[d][k].part]

\* The cost of the lines of bill b, where made parts cost what cost says.
CostOfLines(b, cost) ==
  FoldLeft(LAMBDA sum, l :
             sum + l.quantity * (IF IsMade(l) THEN cost[BomOf[l.part]]
                                              ELSE StdCost[l.part]),
           0, bomLine[b])

\* The cost of a bill, by as many levels as there are bills.
FullCost(b) ==
  LET costs[n \in 0..Cardinality(Boms)] ==
        [a \in Boms |-> IF n = 0 THEN 0 ELSE CostOfLines(a, costs[n - 1])]
  IN costs[Cardinality(Boms)][b]

(***************************************************************************)
(* A rollup during which no line was written saves the cost of the bill    *)
(* where no two lines below it name parts with one bill, and no more than  *)
(* that cost in every other bill that is not made of itself: of a bill     *)
(* that comes twice, rollupCost counts the first.                          *)
(***************************************************************************)
RollupIsCost ==
  \A c \in Clients :
    At(c, "rollup", "saved") /\ ~bomLate /\ ~Loops(job[c].on) =>
      LET b == job[c].on
      IN /\ bomCost[b] <= FullCost(b)
         /\ ~Shares(b) => bomCost[b] = FullCost(b)
=============================================================================
