----------------------------- MODULE WorkHours -----------------------------
(***************************************************************************)
(* The hours an employee worked: records made from OPERATION_REPORTED, the *)
(* summary of each day, and the nightly run that sums the day up again and *)
(* on Sundays the week (WorkHourService, HrEventService and ShiftService   *)
(* of HR).                                                                 *)
(*                                                                         *)
(* The bus may deliver a report more than once (see EventBus).  A delivery *)
(* looks for the record, inserts it, sums up the day and writes the sum,   *)
(* in a statement each, and its errors are swallowed.  The overtime of a   *)
(* day follows the shift as it was when the sum was taken.  The summary of *)
(* a month, made as that of a week is, is left out.                        *)
(*                                                                         *)
(* unsettled and weekOpen are history: the days on which two requests were *)
(* at work, or one died, since a sum was last taken by one alone; and      *)
(* whether a day was written since the week was summed up.                 *)
(***************************************************************************)
EXTENDS Requests

CONSTANTS Reports,  \* reports of one employee
          Days,     \* days of one week
          Sunday,   \* the last of them
          DayOf,    \* [Reports -> Days]
          HoursOf,  \* [Reports -> hours, not positive if the times are swapped]
          Shift     \* hours of the shift the employee may be planned for

ASSUME WorkedAssumption == IsFiniteSet(Reports) /\ IsFiniteSet(Days)
ASSUME SundayAssumption == Sunday \in Days
ASSUME DayOfAssumption == DayOf \in [Reports -> Days]
ASSUME HoursOfAssumption == HoursOf \in [Reports -> Int]
ASSUME ShiftAssumption == Shift \in Nat

VARIABLES record, planned, daySum, weekSum, unsettled, weekOpen

hourDocs == <<record, planned, daySum, weekSum>>
hourData == <<hourDocs, unsettled, weekOpen>>
hourVars == <<hourData, reqVars>>

-----------------------------------------------------------------------------
Summary == [total : Nat, overtime : Nat]
NoHours == [total |-> 0, overtime |-> 0]

HourInit ==
  /\ record = {}
  /\ planned = {}
  /\ daySum = [d \in Days |-> NoHours]
  /\ weekSum = NoHours
  /\ unsettled = {} /\ weekOpen = FALSE

\* Client c is at work on the summary of day d.
OnDay(c, d) == job[c].op \in {"report", "nightly"} /\ job[c].day = d

\* A request joins those at work on day d.
Join(d) ==
  unsettled' = IF \E c \in Clients : OnDay(c, d) THEN unsettled \cup {d} ELSE unsettled

-----------------------------------------------------------------------------
(* ShiftService: one shift for a day, the second one is refused *)

PlanShift(d) ==
  /\ d \notin planned
  /\ Once
  /\ planned' = planned \cup {d}
  /\ UNCHANGED <<record, daySum, weekSum, unsettled, weekOpen>>

RemoveShift(d) ==
  /\ d \in planned
  /\ Once
  /\ planned' = planned \ {d}
  /\ UNCHANGED <<record, daySum, weekSum, unsettled, weekOpen>>

-----------------------------------------------------------------------------
(* processReport *)

DeliverReport(c, r) ==
  /\ r \notin record
  /\ HoursOf[r] > 0
  /\ Accept(c, [op |-> "report", stage |-> "insert", report |-> r, day |-> DayOf[r]])
  /\ Join(DayOf[r])
  /\ UNCHANGED <<hourDocs, weekOpen>>

\* The number of a report is unique: the second insert fails, and with it the
\* delivery.
InsertRecord(c) ==
  /\ At(c, "report", "insert")
  /\ record' = record \cup {job[c].report}
  /\ IF job[c].report \in record THEN Reply(c)
     ELSE Continue(c, [op |-> "report", stage |-> "sum", day |-> job[c].day])
  /\ UNCHANGED <<planned, daySum, weekSum, unsettled, weekOpen>>

-----------------------------------------------------------------------------
(* updateDailySummary *)

SumOf(d) == SumFunctionOnSet(HoursOf, {r \in record : DayOf[r] = d})

\* The records are summed up ...
SumDay(c) ==
  /\ job[c].op # "none" /\ job[c].stage = "sum"
  /\ Continue(c, [op |-> job[c].op, stage |-> "split", day |-> job[c].day,
                  total |-> SumOf(job[c].day)])
  /\ unsettled' = IF \E e \in Clients \ {c} : OnDay(e, job[c].day) THEN unsettled
                  ELSE unsettled \ {job[c].day}
  /\ UNCHANGED <<hourDocs, weekOpen>>

\* Variant: hours beyond the shift are not in the total
SplitApart(total, d) ==
  IF d \in planned /\ total > Shift THEN [total |-> Shift, overtime |-> total - Shift]
  ELSE [total |-> total, overtime |-> 0]

Split(total, d) ==
  [total |-> total,
   overtime |-> IF d \in planned /\ total > Shift THEN total - Shift ELSE 0]

\* ... split by the shift of the day ...
SplitDay(c) ==
  /\ job[c].op # "none" /\ job[c].stage = "split"
  /\ Continue(c, [op |-> job[c].op, stage |-> "write", day |-> job[c].day,
                  sum |-> Split(job[c].total, job[c].day)])
  /\ UNCHANGED hourData

\* The nightly run of a Sunday goes on to the week.
AfterDay(c) ==
  IF job[c].op = "nightly" /\ job[c].day = Sunday
  THEN Continue(c, [op |-> "week", stage |-> "read"]) ELSE Reply(c)

\* ... and written over the summary there is.
WriteDay(c) ==
  /\ job[c].op # "none" /\ job[c].op # "week" /\ job[c].stage = "write"
  /\ daySum' = [daySum EXCEPT ![job[c].day] = job[c].sum]
  /\ weekOpen' = TRUE
  /\ AfterDay(c)
  /\ UNCHANGED <<record, planned, weekSum, unsettled>>

-----------------------------------------------------------------------------
(* dailySummary, started by a cron *)

Nightly(c, d) ==
  /\ \A e \in Clients : job[e].op \notin {"nightly", "week"}
  /\ Accept(c, IF \E r \in record : DayOf[r] = d
               THEN [op |-> "nightly", stage |-> "sum", day |-> d]
               ELSE [op |-> "nightly", stage |-> "none", day |-> d])
  /\ Join(d)
  /\ UNCHANGED <<hourDocs, weekOpen>>

\* Nobody worked on that day, or its summary failed: the run goes on.
NightlySkips(c) ==
  /\ job[c].op = "nightly"
  /\ AfterDay(c)
  /\ unsettled' = unsettled \cup (IF job[c].stage = "none" THEN {} ELSE {job[c].day})
  /\ UNCHANGED <<hourDocs, weekOpen>>

Total(f) == [total |-> SumFunction([d \in Days |-> f[d].total]),
             overtime |-> SumFunction([d \in Days |-> f[d].overtime])]

SumWeek(c) ==
  /\ At(c, "week", "read")
  /\ Continue(c, [op |-> "week", stage |-> "write", sum |-> Total(daySum)])
  /\ weekOpen' = FALSE
  /\ UNCHANGED <<hourDocs, unsettled>>

WriteWeek(c) ==
  /\ At(c, "week", "write")
  /\ weekSum' = job[c].sum
  /\ Reply(c)
  /\ UNCHANGED <<record, planned, daySum, unsettled, weekOpen>>

\* The process dies, or the handler swallows an error.
HourDie(c) ==
  /\ job[c] # NoJob
  /\ unsettled' = IF job[c].op = "week" THEN unsettled ELSE unsettled \cup {job[c].day}
  /\ weekOpen' = (weekOpen \/ job[c].op = "week")
  /\ Reply(c)
  /\ UNCHANGED hourDocs

HourNext ==
  \/ \E c \in Clients :
       \/ \E r \in Reports : DeliverReport(c, r)
       \/ InsertRecord(c) \/ SumDay(c) \/ SplitDay(c) \/ WriteDay(c)
       \/ \E d \in Days : Nightly(c, d)
       \/ NightlySkips(c) \/ SumWeek(c) \/ WriteWeek(c) \/ HourDie(c)
  \/ \E d \in Days : PlanShift(d) \/ RemoveShift(d)

HourSpec == ReqInit /\ HourInit /\ [][HourNext]_hourVars

-----------------------------------------------------------------------------
HourTypeOK ==
  /\ record \subseteq Reports
  /\ planned \subseteq Days
  /\ daySum \in [Days -> Summary] /\ weekSum \in Summary
  /\ unsettled \subseteq Days /\ weekOpen \in BOOLEAN

(***************************************************************************)
(* When nobody is at work on a day, its total is the sum of its records,   *)
(* unless two requests were at work on it at once or one died, and nobody  *)
(* has summed it up alone since: the nightly run repairs what they left.   *)
(* And the week is the sum of its days, until one of them is written.      *)
(***************************************************************************)
HoursAreSummed ==
  /\ \A d \in Days \ unsettled :
       (\A c \in Clients : ~OnDay(c, d))
         => daySum[d].total = SumFunctionOnSet(HoursOf, {r \in record : DayOf[r] = d})
  /\ ~weekOpen /\ (\A c \in Clients : job[c].op # "week")
       => /\ weekSum.total = SumFunction([d \in Days |-> daySum[d].total])
          /\ weekSum.overtime = SumFunction([d \in Days |-> daySum[d].overtime])
=============================================================================
