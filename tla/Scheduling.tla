----------------------------- MODULE Scheduling -----------------------------
(***************************************************************************)
(* Slots of the resources (SchedulerService, UrgentOrderService,           *)
(* ReplanService and ApsEventService of APS).                              *)
(*                                                                         *)
(* A slot is searched in the rows of a resource and saved in a statement   *)
(* of its own; later on it is moved, put off, extended, confirmed,         *)
(* completed or cancelled by saving the row as it was read, so that a save *)
(* brings back whatever another request has changed in between.  Times are *)
(* hours.  The status that EAM sends of a machine is the one of Equipment: *)
(* FAULT replans the rows of its resource, and MAINTENANCE those of every  *)
(* resource, because the second subscriber looks for a resource the        *)
(* payload does not name.  Simulated schedules, which are inserted and     *)
(* deleted by one request, are left out.                                   *)
(*                                                                         *)
(* loose is history: the rows placed without a search, saved while another *)
(* request was at work, or left half moved by a request that died.         *)
(***************************************************************************)
EXTENDS Requests, SequencesExt

CONSTANTS Rows,       \* rows of aps_schedule
          OrderOf,    \* [Rows -> work orders]
          Hours,      \* [Rows -> hours the operation takes]
          Resources,
          Alternative,\* [Resources -> Resources \cup {"none"}], the first one
          FirstResource, \* the one with the first row of aps_resource
          Starts,     \* bound: moments a schedule is asked to start at
          Moments,    \* bound: moments other requests name, or arrive at
          NewHours    \* bound: hours an order is changed to, or delayed by

ASSUME RowsAssumption == IsFiniteSet(Rows)
ASSUME HoursAssumption == Hours \in [Rows -> Nat \ {0}]
ASSUME MomentsAssumption == Starts \cup Moments \subseteq Nat
ASSUME NewHoursAssumption == NewHours \subseteq Nat \ {0}
ASSUME FirstResourceAssumption == FirstResource \in Resources
ASSUME AlternativeAssumption == Alternative \in [Resources -> Resources \cup {"none"}]

VARIABLES slot, loose

slotData == <<slot, loose>>
slotVars == <<slotData, reqVars>>

-----------------------------------------------------------------------------
SlotStatus == {"none", "SCHEDULED", "CONFIRMED", "COMPLETED", "CANCELLED"}
NoSlot == [status |-> "none", on |-> "none", start |-> 0, end |-> 0]
Live == {"SCHEDULED", "CONFIRMED"}

SlotInit ==
  /\ slot = [s \in Rows |-> NoSlot]
  /\ loose = {}

\* Rows by the time they start, in any order where that is the same.
ByStart(S) ==
  CHOOSE rows \in SetToSeqs(S) :
    \A i, j \in DOMAIN rows : i < j => slot[rows[i]].start <= slot[rows[j]].start

\* Rows as a request reads them.
Snapshot(S) == [i \in 1..Cardinality(S) |-> [id |-> ByStart(S)[i],
                                             row |-> slot[ByStart(S)[i]]]]

-----------------------------------------------------------------------------
(* findNextAvailableSlot *)

\* Variant: only rows not yet confirmed are looked at
InTheWayPlanned(r, from) ==
  {s \in Rows : /\ slot[s].status = "SCHEDULED"
                /\ slot[s].on = r
                /\ slot[s].end > from}

InTheWay(r, from) ==
  {s \in Rows : /\ slot[s].status \notin {"none", "CANCELLED"}
                /\ slot[s].on = r
                /\ slot[s].end > from}

\* Variant: the cursor goes to the end of the last row, not of the latest
CursorAfterLast(cursor, s) == slot[s].end

CursorAfter(cursor, s) == IF slot[s].end > cursor THEN slot[s].end ELSE cursor

\* From gap to gap; at is where the operation fits, or the last end.
NextSlot(r, hours, from) ==
  LET Pass(gap, s) ==
        IF gap.fits THEN gap
        ELSE IF slot[s].start - gap.at >= hours THEN [gap EXCEPT !.fits = TRUE]
        ELSE [gap EXCEPT !.at = CursorAfter(gap.at, s)]
  IN FoldLeft(Pass, [at |-> from, fits |-> FALSE], ByStart(InTheWay(r, from))).at

-----------------------------------------------------------------------------
(* Requests that save rows.  Each works on a list of rows it has read. *)

Alone(c) == \A d \in Clients \ {c} : job[d] = NoJob

\* Client c saves row s; placed tells how its slot was chosen.
SaveSlot(c, s, row, placed) ==
  /\ slot' = [slot EXCEPT ![s] = row]
  /\ loose' = IF placed = "unsearched" \/ ~Alone(c) THEN loose \cup {s}
              ELSE IF placed = "searched" THEN loose \ {s} ELSE loose

\* Move the rows of a list, one after the other, to the next slots on the
\* resource to, or on their own.
Moving(list, to, cursor) ==
  [op |-> "move", stage |-> "search", list |-> list, to |-> to, cursor |-> cursor]

MoveSearch(c) ==
  /\ At(c, "move", "search")
  /\ job[c].list # << >>
  /\ LET row == Head(job[c].list).row
         r == IF job[c].to = "own" THEN row.on ELSE job[c].to
         from == NextSlot(r, row.end - row.start, job[c].cursor)
     IN Continue(c, [job[c] EXCEPT !.stage = "save",
          !.list[1].row = [row EXCEPT !.on = r, !.start = from,
                                      !.end = from + (row.end - row.start)]])
  /\ UNCHANGED slotData

MoveSave(c) ==
  /\ At(c, "move", "save")
  /\ LET next == Head(job[c].list)
     IN /\ SaveSlot(c, next.id, next.row, "searched")
        /\ Continue(c, [job[c] EXCEPT !.stage = "search", !.cursor = next.row.end,
                                      !.list = Tail(job[c].list)])

MoveDone(c) ==
  /\ At(c, "move", "search")
  /\ job[c].list = << >>
  /\ Reply(c)
  /\ UNCHANGED slotData

-----------------------------------------------------------------------------
(* scheduleForward: search and save for each order, then releaseWorkOrders *)

\* The rows that requests are going to insert.
Claimed == UNION {CASE job[d].op = "forward" -> job[d].todo
                    [] job[d].op = "urgent" -> {job[d].id}
                    [] OTHER -> {} : d \in Clients}

Forward(c, S, from) ==
  /\ \A s \in S : slot[s] = NoSlot
  /\ S \cap Claimed = {}
  /\ Accept(c, [op |-> "forward", stage |-> "search", todo |-> S, placed |-> {},
                from |-> from])
  /\ UNCHANGED slotData

\* The inputs come in the order of a priority rule, each with its resource.
ForwardSearch(c) ==
  /\ At(c, "forward", "search")
  /\ \E s \in job[c].todo, r \in Resources :
       LET from == NextSlot(r, Hours[s], job[c].from)
       IN Continue(c, [op |-> "forward", stage |-> "save", todo |-> job[c].todo,
                       placed |-> job[c].placed \cup {s}, from |-> job[c].from,
                       id |-> s,
                       row |-> [status |-> "SCHEDULED", on |-> r,
                                start |-> from, end |-> from + Hours[s]]])
  /\ UNCHANGED slotData

ForwardSave(c) ==
  /\ At(c, "forward", "save")
  /\ SaveSlot(c, job[c].id, job[c].row, "searched")
  /\ Continue(c, [op |-> "forward", stage |-> "search", placed |-> job[c].placed,
                  todo |-> job[c].todo \ {job[c].id}, from |-> job[c].from])

ReleaseRead(c) ==
  /\ At(c, "forward", "search")
  /\ job[c].todo = {}
  /\ Continue(c, [op |-> "row", stage |-> "save", status |-> "CONFIRMED",
                  list |-> Snapshot({s \in job[c].placed : slot[s].status = "SCHEDULED"})])
  /\ UNCHANGED slotData

-----------------------------------------------------------------------------
(* cancelSchedule, PRODUCTION_COMPLETED: read the row, save it with another *)
(* status, whatever it was.                                                 *)

CancelSlot(c, s) ==
  /\ slot[s] # NoSlot
  /\ Accept(c, [op |-> "row", stage |-> "save", status |-> "CANCELLED",
                list |-> Snapshot({s})])
  /\ UNCHANGED slotData

\* The row of the order that ends last.
CompleteSlot(c, s) ==
  /\ slot[s] # NoSlot
  /\ \A t \in Rows : OrderOf[t] = OrderOf[s] => slot[t].end <= slot[s].end
  /\ Accept(c, [op |-> "row", stage |-> "save", status |-> "COMPLETED",
                list |-> Snapshot({s})])
  /\ UNCHANGED slotData

\* save(schedules) saves the rows of the list in one transaction.
RowSave(c) ==
  /\ At(c, "row", "save")
  /\ LET ids == {job[c].list[i].id : i \in DOMAIN job[c].list}
         RowOf(s) == (CHOOSE i \in DOMAIN job[c].list : job[c].list[i].id = s)
     IN slot' = [s \in Rows |->
                   IF s \in ids
                   THEN [job[c].list[RowOf(s)].row EXCEPT !.status = job[c].status]
                   ELSE slot[s]]
  /\ loose' = IF Alone(c) THEN loose
              ELSE loose \cup {job[c].list[i].id : i \in DOMAIN job[c].list}
  /\ Reply(c)

-----------------------------------------------------------------------------
(* insertUrgentOrder *)

\* The rows from that moment on are read, the order is put in their place ...
Urgent(c, s, r, from) ==
  /\ slot[s] = NoSlot
  /\ s \notin Claimed
  /\ Accept(c, [op |-> "urgent", stage |-> "insert", id |-> s, on |-> r, from |-> from,
                list |-> Snapshot({t \in Rows : /\ slot[t].status \notin {"none", "CANCELLED"}
                                                /\ slot[t].on = r
                                                /\ slot[t].start >= from})])
  /\ UNCHANGED slotData

\* ... and they are moved behind it.
UrgentInsert(c) ==
  /\ At(c, "urgent", "insert")
  /\ LET end == job[c].from + Hours[job[c].id]
     IN /\ SaveSlot(c, job[c].id, [status |-> "SCHEDULED", on |-> job[c].on,
                                   start |-> job[c].from, end |-> end], "unsearched")
        /\ Continue(c, Moving(job[c].list, "own", end))

-----------------------------------------------------------------------------
(* ReplanService *)

OfOrder(w) == {s \in Rows : OrderOf[s] = w /\ slot[s] # NoSlot}

\* Client c saves the rows of a list by hours later, or with other hours, and
\* moves them afterwards if they then end after the date wanted.
Shifting(list, by, hours, late, placed) ==
  [op |-> "shift", stage |-> "save", list |-> list, done |-> << >>,
   by |-> by, hours |-> hours, late |-> late, placed |-> placed]

\* replanByOrderChange: other hours, and perhaps another date ...
ReplanChange(c, w, hours, late) ==
  /\ OfOrder(w) # {}
  /\ Accept(c, Shifting(Snapshot(OfOrder(w)), 0, hours, late, "unsearched"))
  /\ UNCHANGED slotData

\* ... or only another date, which the rows are too late for.
ReplanDate(c, w, now) ==
  /\ OfOrder(w) # {}
  /\ Accept(c, Moving(Snapshot(OfOrder(w)), "own", now))
  /\ UNCHANGED slotData

\* replanByMaterialDelay
ReplanDelay(c, w, hours) ==
  /\ OfOrder(w) # {}
  /\ Accept(c, Shifting(Snapshot(OfOrder(w)), hours, 0, FALSE, "unsearched"))
  /\ UNCHANGED slotData

\* replanByEquipmentFailure: rows put off together keep their distance.
FailureDelay == 8

Replan(c, S, alternative, now) ==
  LET affected == {s \in S : slot[s].status \in Live /\ slot[s].start > now}
  IN /\ affected # {}
     /\ Accept(c, IF alternative = "none"
                  THEN Shifting(Snapshot(affected), FailureDelay, 0, FALSE, "kept")
                  ELSE Moving(Snapshot(affected), alternative, now))
     /\ UNCHANGED slotData

\* EAM tells of a machine out of order (ApsEamService) ...
ReplanFault(c, r, now) ==
  Replan(c, {s \in Rows : slot[s].on = r}, Alternative[r], now)

\* ... or in maintenance: a condition that is undefined matches every row.
ReplanMaintenance(c, now) == Replan(c, Rows, Alternative[FirstResource], now)

ShiftSave(c) ==
  /\ At(c, "shift", "save")
  /\ job[c].list # << >>
  /\ LET next == Head(job[c].list)
         from == next.row.start + job[c].by
         end == IF job[c].hours = 0 THEN next.row.end + job[c].by
                                    ELSE from + job[c].hours
         row == [next.row EXCEPT !.start = from, !.end = end]
     IN /\ SaveSlot(c, next.id, row, job[c].placed)
        /\ Continue(c, [job[c] EXCEPT
             !.list = Tail(job[c].list),
             !.done = Append(job[c].done, [id |-> next.id, row |-> row])])

ShiftDone(c) ==
  /\ At(c, "shift", "save")
  /\ job[c].list = << >>
  /\ IF job[c].late
     THEN \E now \in Moments : Continue(c, Moving(job[c].done, "own", now))
     ELSE Reply(c)
  /\ UNCHANGED slotData

-----------------------------------------------------------------------------
SlotDie(c) ==
  /\ job[c] # NoJob
  /\ loose' = IF job[c].op = "shift"
              THEN loose \cup {job[c].done[i].id : i \in DOMAIN job[c].done}
              ELSE loose
  /\ Reply(c)
  /\ UNCHANGED slot

SlotNext ==
  \E c \in Clients :
    \/ \E S \in SUBSET Rows \ {{}}, from \in Starts : Forward(c, S, from)
    \/ \E now \in Moments :
         \/ \E r \in Resources :
              \/ \E s \in Rows : Urgent(c, s, r, now)
              \/ ReplanFault(c, r, now)
         \/ ReplanMaintenance(c, now)
         \/ \E w \in {OrderOf[s] : s \in Rows} : ReplanDate(c, w, now)
    \/ \E s \in Rows : CancelSlot(c, s) \/ CompleteSlot(c, s)
    \/ \E w \in {OrderOf[s] : s \in Rows}, hours \in NewHours :
         \/ ReplanDelay(c, w, hours)
         \/ \E late \in BOOLEAN : ReplanChange(c, w, hours, late)
    \/ ForwardSearch(c) \/ ForwardSave(c) \/ ReleaseRead(c) \/ RowSave(c)
    \/ UrgentInsert(c) \/ MoveSearch(c) \/ MoveSave(c) \/ MoveDone(c)
    \/ ShiftSave(c) \/ ShiftDone(c) \/ SlotDie(c)

SlotSpec == ReqInit /\ SlotInit /\ [][SlotNext]_slotVars

-----------------------------------------------------------------------------
SlotTypeOK ==
  /\ slot \in [Rows -> [status : SlotStatus, on : Resources \cup {"none"},
                        start : Nat, end : Nat]]
  /\ \A s \in Rows : slot[s] # NoSlot => slot[s].start < slot[s].end
  /\ loose \subseteq Rows

\* The search finds the first gap that is long enough.
GapIsFirst ==
  \A r \in Resources, from \in Starts \cup Moments :
    LET way == InTheWay(r, from)
    IN \A hours \in {Hours[s] : s \in Rows} :
         LET Free(t) == \A s \in way : t + hours <= slot[s].start \/ slot[s].end <= t
             found == NextSlot(r, hours, from)
         IN found >= from /\ Free(found) /\ \A t \in from..(found - 1) : ~Free(t)

(***************************************************************************)
(* No two rows that are to be worked off take the same hours of a          *)
(* resource: searches, replans and cancellations keep them apart, and      *)
(* leave no earlier gap in which the operation fits, also when an urgent   *)
(* order or a delay has made rows overlap.  Excepted are rows an urgent    *)
(* order, an extension or a delay of one order put where nothing was       *)
(* searched, and rows saved while another request was at work.             *)
(***************************************************************************)
SlotsAreApart ==
  /\ GapIsFirst
  /\ (\A c \in Clients : job[c].op # "shift") =>
       \A s, t \in {u \in Rows \ loose : slot[u].status \in Live} :
         s # t /\ slot[s].on = slot[t].on
           => slot[s].end <= slot[t].start \/ slot[t].end <= slot[s].start
=============================================================================
