----------------------------- MODULE Equipment -----------------------------
(***************************************************************************)
(* The status of equipment, the faults and maintenance tasks that change   *)
(* it, and the resources of the scheduler that are to follow it            *)
(* (FaultService, MaintenanceService and EquipmentService of EAM;          *)
(* ApsEamService, ApsEventService and ApsResourceService of APS).          *)
(*                                                                         *)
(* EQUIPMENT_STATUS_CHANGED goes out in the request that changed the       *)
(* status, after its commit, and both subscribers swallow their errors, so *)
(* that it is delivered at most once.  The second of them reads a resource *)
(* and a tenant that the payload does not have, and so finds the first row *)
(* of the table; of the statuses only MAINTENANCE is one a resource may    *)
(* have.                                                                   *)
(*                                                                         *)
(* A resource has other writers: its status is given by hand, and every    *)
(* change of another of its columns (an update, its efficiency, its        *)
(* alternatives) saves the row as it was read, status included.            *)
(*                                                                         *)
(* Every equipment has its resource, and none is created or removed;       *)
(* replanning is left out, and so is the reminder of repeated faults.      *)
(*                                                                         *)
(* astray and eqLate are history: the equipment whose resource has not     *)
(* been told of its status, or was given another since, and the equipment  *)
(* written while an event of it was on its way.                            *)
(***************************************************************************)
EXTENDS Requests

CONSTANTS Machines,  \* the equipment
          First,     \* the one with the first row of the resources
          Faults,    \* fault records
          Tasks,     \* maintenance tasks
          TaskOn,    \* [Tasks -> Machines]
          Changes,   \* statuses a machine may be given by hand
          ByHand     \* statuses a resource may be given by hand

ASSUME FirstAssumption == First \in Machines
ASSUME TaskOnAssumption == TaskOn \in [Tasks -> Machines]

VARIABLES equipment, resource, fault, task, astray, eqLate

eqDocs == <<equipment, resource, fault, task>>
eqData == <<eqDocs, astray, eqLate>>
eqVars == <<eqData, reqVars>>

-----------------------------------------------------------------------------
EquipmentStatus == {"RUNNING", "IDLE", "MAINTENANCE", "FAULT", "SCRAPPED"}
ASSUME ChangesAssumption == Changes \subseteq EquipmentStatus
ResourceStatus == {"AVAILABLE", "MAINTENANCE", "REPAIR", "BREAKDOWN"}
ASSUME ByHandAssumption == ByHand \subseteq ResourceStatus
FaultStatus == {"none", "REPORTED", "RESPONDING", "DIAGNOSING", "REPAIRING",
                "VERIFIED", "CLOSED"}

\* Variant: only a breakdown is told
ResourceForBroken(s) == IF s = "FAULT" THEN "BREAKDOWN" ELSE "AVAILABLE"

\* EAM_TO_APS_STATUS
ResourceFor(s) ==
  CASE s = "FAULT" -> "BREAKDOWN" [] s = "SCRAPPED" -> "BREAKDOWN"
    [] s = "MAINTENANCE" -> "MAINTENANCE" [] OTHER -> "AVAILABLE"

\* respondFault, diagnoseFault, startRepair, completeRepair
NextStage ==
  [REPORTED |-> "RESPONDING", RESPONDING |-> "DIAGNOSING",
   DIAGNOSING |-> "REPAIRING", REPAIRING |-> "VERIFIED"]

\* Repairs are under way on machines that were put out of order by hand.
EqInit ==
  /\ fault \in [Faults -> [status : FaultStatus \ {"CLOSED"}, on : Machines]]
  /\ equipment = [m \in Machines |->
       IF \E f \in Faults : fault[f].status # "none" /\ fault[f].on = m
       THEN "FAULT" ELSE "IDLE"]
  /\ resource = [m \in Machines |-> ResourceFor(equipment[m])]
  /\ task = [t \in Tasks |-> "open"]
  /\ astray = {} /\ eqLate = {}

\* An event of machine m is on its way.
BeingTold(c, m) ==
  job[c].op = "announce" /\ m \in {job[c].machine, First}

\* Client c gives machine m the status s, and announces it or not.
SetStatus(c, m, s, told) ==
  /\ equipment' = [equipment EXCEPT ![m] = s]
  /\ eqLate' = IF \E d \in Clients \ {c} : BeingTold(d, m)
               THEN eqLate \cup {m} ELSE eqLate
  /\ astray' = IF told \/ s = equipment[m] THEN astray ELSE astray \cup {m}

Telling(m, s) ==
  [op |-> "announce", stage |-> "find", machine |-> m, status |-> s]

-----------------------------------------------------------------------------
(* Faults *)

ReportFault(c, f) ==
  /\ fault[f].status = "none"
  /\ job[c] = NoJob
  /\ Once
  /\ fault' = [fault EXCEPT ![f].status = "REPORTED"]
  /\ SetStatus(c, fault[f].on, "FAULT", FALSE)
  /\ UNCHANGED <<resource, task>>

\* Each step of a repair reads the status and saves the record.
ReadFault(c, f) ==
  /\ fault[f].status \in DOMAIN NextStage \cup {"VERIFIED"}
  /\ Accept(c, [op |-> "fault", stage |-> "save", fault |-> f,
                from |-> fault[f].status])
  /\ UNCHANGED eqData

StepFault(c) ==
  /\ At(c, "fault", "save")
  /\ job[c].from # "VERIFIED"
  /\ fault' = [fault EXCEPT ![job[c].fault].status = NextStage[job[c].from]]
  /\ Reply(c)
  /\ UNCHANGED <<equipment, resource, task, astray, eqLate>>

\* verifyAndClose: fault and equipment in one transaction, then the event
VerifyAndClose(c) ==
  /\ At(c, "fault", "save")
  /\ job[c].from = "VERIFIED"
  /\ LET f == job[c].fault
     IN /\ fault' = [fault EXCEPT ![f].status = "CLOSED"]
        /\ SetStatus(c, fault[f].on, "IDLE", TRUE)
        /\ Continue(c, Telling(fault[f].on, "IDLE"))
  /\ UNCHANGED <<resource, task>>

-----------------------------------------------------------------------------
(* Maintenance tasks: completed in whatever status they are *)

CompleteTask(c, t) ==
  /\ Accept(c, Telling(TaskOn[t], "IDLE"))
  /\ task' = [task EXCEPT ![t] = "COMPLETED"]
  /\ SetStatus(c, TaskOn[t], "IDLE", TRUE)
  /\ UNCHANGED <<resource, fault>>

-----------------------------------------------------------------------------
(* Equipment *)

ChangeStatus(c, m, s) ==
  /\ Accept(c, Telling(m, s))
  /\ SetStatus(c, m, s, TRUE)
  /\ UNCHANGED <<resource, fault, task>>

\* update saves the row as read, its status included.
ReadMachine(c, m) ==
  /\ Accept(c, [op |-> "update", stage |-> "save", machine |-> m,
                status |-> equipment[m]])
  /\ UNCHANGED eqData

UpdateMachine(c) ==
  /\ At(c, "update", "save")
  /\ SetStatus(c, job[c].machine, job[c].status, FALSE)
  /\ Reply(c)
  /\ UNCHANGED <<resource, fault, task>>

-----------------------------------------------------------------------------
(* The subscribers of EQUIPMENT_STATUS_CHANGED *)

\* Each of them finds its row first: the first subscriber that of the
\* equipment, the second that of First.
Found == [find |-> "mirror", findFirst |-> "second"]

FindRow(c) ==
  /\ job[c].op = "announce"
  /\ job[c].stage \in DOMAIN Found
  /\ Continue(c, [job[c] EXCEPT !.stage = Found[job[c].stage]])
  /\ UNCHANGED eqData

\* ApsEamService saves the status that answers that of the equipment.
Mirror(c) ==
  /\ At(c, "announce", "mirror")
  /\ resource' = [resource EXCEPT ![job[c].machine] = ResourceFor(job[c].status)]
  /\ astray' = astray \ {job[c].machine}
  /\ Continue(c, [job[c] EXCEPT !.stage = "findFirst"])
  /\ UNCHANGED <<equipment, fault, task, eqLate>>

Unmirrored(c) == job[c].op = "announce" /\ job[c].stage \in {"find", "mirror"}

MirrorFails(c) ==
  /\ Unmirrored(c)
  /\ astray' = astray \cup {job[c].machine}
  /\ Continue(c, [job[c] EXCEPT !.stage = "findFirst"])
  /\ UNCHANGED <<eqDocs, eqLate>>

\* ApsEventService writes the status itself, to the first resource.
Second(c) ==
  /\ At(c, "announce", "second")
  /\ IF job[c].status \in ResourceStatus
     THEN /\ resource' = [resource EXCEPT ![First] = job[c].status]
          /\ astray' = IF job[c].machine = First THEN astray
                       ELSE astray \cup {First}
     ELSE UNCHANGED <<resource, astray>>
  /\ Reply(c)
  /\ UNCHANGED <<equipment, fault, task, eqLate>>

EqDie(c) ==
  /\ job[c] # NoJob
  /\ Reply(c)
  /\ astray' = IF Unmirrored(c) THEN astray \cup {job[c].machine} ELSE astray
  /\ UNCHANGED <<eqDocs, eqLate>>

-----------------------------------------------------------------------------
(* The other writers of a resource *)

SavingRows(rows, stage) == [op |-> "resource", stage |-> stage, rows |-> rows]

\* updateStatus, or update with a status in its body
GiveStatus(c, m, s) ==
  /\ Accept(c, SavingRows([n \in {m} |-> s], "save"))
  /\ UNCHANGED eqData

\* update of other columns, and handleOeeUpdated; with stage "other"
\* addAlternative and removeAlternative, which read a second row
ReadRow(c, m, stage) ==
  /\ Accept(c, SavingRows([n \in {m} |-> resource[n]], stage))
  /\ UNCHANGED eqData

ReadOther(c, m) ==
  /\ At(c, "resource", "other")
  /\ LET read == job[c].rows
         rows == [n \in DOMAIN read \cup {m} |->
                    IF n = m THEN resource[n] ELSE read[n]]
     IN Continue(c, SavingRows(rows, "save"))
  /\ UNCHANGED eqData

\* The rows are saved whole; a status that is not the stored one was given
\* by hand or is out of date.
SaveRows(c) ==
  /\ At(c, "resource", "save")
  /\ LET rows == job[c].rows
     IN /\ resource' = [m \in Machines |->
                          IF m \in DOMAIN rows THEN rows[m] ELSE resource[m]]
        /\ astray' = astray \cup {m \in DOMAIN rows : rows[m] # resource[m]}
  /\ Reply(c)
  /\ UNCHANGED <<equipment, fault, task, eqLate>>

EqNext ==
  \E c \in Clients :
    \/ \E f \in Faults : ReportFault(c, f) \/ ReadFault(c, f)
    \/ StepFault(c) \/ VerifyAndClose(c)
    \/ \E t \in Tasks : CompleteTask(c, t)
    \/ \E m \in Machines :
         \/ \E s \in Changes : ChangeStatus(c, m, s)
         \/ ReadMachine(c, m)
         \/ \E s \in ByHand : GiveStatus(c, m, s)
         \/ \E stage \in {"save", "other"} : ReadRow(c, m, stage)
         \/ ReadOther(c, m)
    \/ UpdateMachine(c) \/ SaveRows(c)
    \/ FindRow(c) \/ Mirror(c) \/ MirrorFails(c) \/ Second(c)
    \/ EqDie(c)

EqSpec == ReqInit /\ EqInit /\ [][EqNext]_eqVars

-----------------------------------------------------------------------------
EqTypeOK ==
  /\ equipment \in [Machines -> EquipmentStatus]
  /\ resource \in [Machines -> ResourceStatus]
  /\ fault \in [Faults -> [status : FaultStatus, on : Machines]]
  /\ task \in [Tasks -> {"open", "COMPLETED"}]
  /\ astray \subseteq Machines /\ eqLate \subseteq Machines

(***************************************************************************)
(* When no event of an equipment is on its way, its resource has the       *)
(* status that follows from its own; unless since its last event its       *)
(* status was written without one, or that event was lost, or the resource *)
(* was given another status by hand, by a stray event or by a save of what *)
(* was read before; or two changes of the equipment overlapped.            *)
(***************************************************************************)
ResourceFollows ==
  \A m \in Machines \ (astray \cup eqLate) :
    (\A c \in Clients : ~BeingTold(c, m)) => resource[m] = ResourceFor(equipment[m])
=============================================================================
