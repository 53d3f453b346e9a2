--------------------------- MODULE ResourceProofs ---------------------------
(***************************************************************************)
(* Theorems about what the plant keeps account of: equipment and resources *)
(* (Equipment), spare parts (SpareParts), hours of work (WorkHours),       *)
(* serial numbers (Numbering), and batches that are traced and recalled    *)
(* (Recalls), for any number of requests.                                  *)
(***************************************************************************)
EXTENDS Equipment, SpareParts, WorkHours, Numbering, Recalls, SumProofs

-----------------------------------------------------------------------------
(***************************************************************************)
(* Resources follow their equipment, for any number of machines, faults,   *)
(* tasks and requests.                                                     *)
(*                                                                         *)
(* ResourceFollows speaks of the moments at which no event of a machine is *)
(* on its way, and so says nothing of what the last event will bring.  The *)
(* invariant adds that: an event carries the status its machine has        *)
(* (EventIsNews), and once the first subscriber has had it the resource    *)
(* is right, whatever the second one still has to do (Mirrored).           *)
(***************************************************************************)

Announcements == [op : {"announce"},
                  stage : {"find", "mirror", "findFirst", "second"},
                  machine : Machines, status : EquipmentStatus]
Repairs == [op : {"fault"}, stage : {"save"}, fault : Faults,
            from : DOMAIN NextStage \cup {"VERIFIED"}]
Updates == [op : {"update"}, stage : {"save"}, machine : Machines,
            status : EquipmentStatus]
RowSaves == [op : {"resource"}, stage : {"save", "other"},
             rows : UNION {[on -> ResourceStatus] : on \in SUBSET Machines}]
EqJobs == Announcements \cup Repairs \cup Updates \cup RowSaves \cup {NoJob}

EventIsNews ==
  \A c \in Clients :
    job[c].op = "announce" /\ job[c].machine \notin eqLate
      => job[c].status = equipment[job[c].machine]

AwaitsMirror(c, m) == Unmirrored(c) /\ job[c].machine = m

Mirrored ==
  \A m \in Machines \ (astray \cup eqLate) :
    (\A c \in Clients : ~AwaitsMirror(c, m)) => resource[m] = ResourceFor(equipment[m])

EqInv ==
  /\ EqTypeOK
  /\ job \in [Clients -> EqJobs]
  /\ EventIsNews
  /\ Mirrored

LEMMA StatusIsMirrored ==
  ASSUME NEW s \in EquipmentStatus
  PROVE  /\ ResourceFor(s) \in ResourceStatus
         /\ s \in ResourceStatus => ResourceFor(s) = s
BY DEF ResourceFor, EquipmentStatus, ResourceStatus

LEMMA EqJobStays ==
  ASSUME NEW c \in Clients, NEW j \in EqJobs,
         job \in [Clients -> EqJobs], job' = [job EXCEPT ![c] = j]
  PROVE  /\ job' \in [Clients -> EqJobs]
         /\ job'[c] = j
         /\ \A d \in Clients \ {c} : job'[d] = job[d]
OBVIOUS

LEMMA TellingIsJob ==
  ASSUME NEW m \in Machines, NEW s \in EquipmentStatus
  PROVE  /\ Telling(m, s) \in EqJobs
         /\ Telling(m, s).op = "announce" /\ Telling(m, s).stage = "find"
         /\ Telling(m, s).machine = m /\ Telling(m, s).status = s
BY DEF Telling, EqJobs, Announcements

LEMMA NoJobIsSilent == NoJob \in EqJobs /\ NoJob.op # "announce"
BY DEF NoJob, EqJobs

LEMMA AnnouncementIsOne ==
  ASSUME NEW c \in Clients, job \in [Clients -> EqJobs], job[c].op = "announce"
  PROVE  job[c] \in Announcements
BY DEF EqJobs, Repairs, Updates, RowSaves, NoJob

LEMMA RepairIsOne ==
  ASSUME NEW c \in Clients, job \in [Clients -> EqJobs], job[c].op = "fault"
  PROVE  job[c].fault \in Faults /\ job[c].from \in DOMAIN NextStage \cup {"VERIFIED"}
<1>1. job[c] \in Repairs
  BY DEF EqJobs, Announcements, Updates, RowSaves, NoJob
<1> QED
  BY <1>1 DEF Repairs

LEMMA UpdateIsOne ==
  ASSUME NEW c \in Clients, job \in [Clients -> EqJobs], job[c].op = "update"
  PROVE  job[c].machine \in Machines /\ job[c].status \in EquipmentStatus
<1>1. job[c] \in Updates
  BY DEF EqJobs, Announcements, Repairs, RowSaves, NoJob
<1> QED
  BY <1>1 DEF Updates

LEMMA RowSaveIsOne ==
  ASSUME NEW c \in Clients, job \in [Clients -> EqJobs], job[c].op = "resource"
  PROVE  /\ DOMAIN job[c].rows \subseteq Machines
         /\ \A m \in DOMAIN job[c].rows : job[c].rows[m] \in ResourceStatus
<1>1. job[c] \in RowSaves
  BY DEF EqJobs, Announcements, Repairs, Updates, NoJob
<1>2. PICK on \in SUBSET Machines : job[c].rows \in [on -> ResourceStatus]
  BY <1>1 DEF RowSaves
<1> QED
  BY <1>2

LEMMA SavingRowsIsJob ==
  ASSUME NEW on \in SUBSET Machines, NEW rows \in [on -> ResourceStatus],
         NEW stage \in {"save", "other"}
  PROVE  SavingRows(rows, stage) \in EqJobs /\ SavingRows(rows, stage).op # "announce"
<1>1. rows \in UNION {[n -> ResourceStatus] : n \in SUBSET Machines}
  OBVIOUS
<1>2. SavingRows(rows, stage) \in RowSaves
  BY <1>1 DEF SavingRows, RowSaves
<1> QED
  BY <1>2 DEF SavingRows, EqJobs

\* What the model calls an event on its way covers what a client will mirror.
LEMMA AnnouncingIsTelling ==
  ASSUME NEW c \in Clients, job[c].op = "announce"
  PROVE  BeingTold(c, job[c].machine)
BY DEF BeingTold

(***************************************************************************)
(* The effects of which the steps are made.                                *)
(***************************************************************************)

\* A step of a request that announces nothing, before or after.
LEMMA QuietStepKeeps ==
  ASSUME EqInv, NEW c \in Clients, NEW j \in EqJobs,
         job[c].op # "announce", j.op # "announce",
         job' = [job EXCEPT ![c] = j],
         UNCHANGED <<equipment, resource, astray, eqLate>>
  PROVE  (job \in [Clients -> EqJobs])' /\ EventIsNews' /\ Mirrored'
<1>1. /\ job' \in [Clients -> EqJobs] /\ job'[c] = j
      /\ \A d \in Clients \ {c} : job'[d] = job[d]
  BY EqJobStays DEF EqInv
<1>2. EventIsNews'
  BY <1>1 DEF EqInv, EventIsNews
<1>3. \A d \in Clients, m \in Machines : AwaitsMirror(d, m)' <=> AwaitsMirror(d, m)
  BY <1>1 DEF AwaitsMirror, Unmirrored, At
<1>4. Mirrored'
  BY <1>3 DEF EqInv, Mirrored
<1> QED
  BY <1>1, <1>2, <1>4

\* A status is given to a machine, and announced by the request that gives it.
LEMMA ToldStatusKeeps ==
  ASSUME EqInv, NEW c \in Clients, NEW m \in Machines, NEW s \in EquipmentStatus,
         job[c].op # "announce",
         SetStatus(c, m, s, TRUE), UNCHANGED resource,
         job' = [job EXCEPT ![c] = Telling(m, s)]
  PROVE  (job \in [Clients -> EqJobs])' /\ EventIsNews' /\ Mirrored'
<1>1. /\ job' \in [Clients -> EqJobs] /\ job'[c] = Telling(m, s)
      /\ \A d \in Clients \ {c} : job'[d] = job[d]
  BY EqJobStays, TellingIsJob DEF EqInv
<1>2. /\ equipment' \in [Machines -> EquipmentStatus] /\ equipment'[m] = s
      /\ \A n \in Machines \ {m} : equipment'[n] = equipment[n]
      /\ astray' = astray /\ eqLate \subseteq eqLate'
      /\ m \notin eqLate' => \A d \in Clients \ {c} : ~BeingTold(d, m)
  BY DEF SetStatus, EqInv, EqTypeOK
<1>3. EventIsNews'
  <2> SUFFICES ASSUME NEW d \in Clients, job'[d].op = "announce",
                      job'[d].machine \notin eqLate'
               PROVE  job'[d].status = equipment'[job'[d].machine]
    BY DEF EventIsNews
  <2>1. CASE d = c
    BY <1>1, <1>2, <2>1, TellingIsJob
  <2>2. CASE d # c
    <3>1. job'[d] = job[d] /\ job[d].op = "announce"
      BY <1>1, <2>2
    <3>2. job[d].machine # m
      BY <1>2, <2>2, <3>1, AnnouncingIsTelling
    <3>3. job[d].machine \in Machines
      BY <3>1, AnnouncementIsOne DEF Announcements, EqInv
    <3>4. job[d].status = equipment[job[d].machine]
      BY <1>2, <3>1 DEF EqInv, EventIsNews
    <3> QED
      BY <1>2, <3>1, <3>2, <3>3, <3>4
  <2> QED
    BY <2>1, <2>2
<1>4. Mirrored'
  <2> SUFFICES ASSUME NEW n \in Machines, n \notin astray' \cup eqLate',
                      \A d \in Clients : ~AwaitsMirror(d, n)'
               PROVE  resource'[n] = ResourceFor(equipment'[n])
    BY DEF Mirrored
  <2>1. n # m
    <3>1. AwaitsMirror(c, m)'
      BY <1>1, TellingIsJob DEF AwaitsMirror, Unmirrored, At
    <3> QED
      BY <3>1
  <2>2. \A d \in Clients : ~AwaitsMirror(d, n)
    BY <1>1 DEF AwaitsMirror, Unmirrored, At
  <2>3. resource[n] = ResourceFor(equipment[n])
    BY <1>2, <2>2 DEF EqInv, Mirrored
  <2>4. equipment'[n] = equipment[n]
    BY <1>2, <2>1
  <2> QED
    BY <2>3, <2>4
<1> QED
  BY <1>1, <1>3, <1>4

\* A status is given to a machine by a request that does not announce it.
LEMMA UntoldStatusKeeps ==
  ASSUME EqInv, NEW c \in Clients, NEW m \in Machines, NEW s \in EquipmentStatus,
         NEW j \in EqJobs, job[c].op # "announce", j.op # "announce",
         SetStatus(c, m, s, FALSE), UNCHANGED resource,
         job' = [job EXCEPT ![c] = j]
  PROVE  (job \in [Clients -> EqJobs])' /\ EventIsNews' /\ Mirrored'
<1>1. /\ job' \in [Clients -> EqJobs] /\ job'[c] = j
      /\ \A d \in Clients \ {c} : job'[d] = job[d]
  BY EqJobStays DEF EqInv
<1>2. /\ equipment' \in [Machines -> EquipmentStatus] /\ equipment'[m] = s
      /\ \A n \in Machines \ {m} : equipment'[n] = equipment[n]
      /\ astray \subseteq astray' /\ eqLate \subseteq eqLate'
      /\ m \notin astray' => equipment'[m] = equipment[m]
      /\ m \notin eqLate' => \A d \in Clients \ {c} : ~BeingTold(d, m)
  BY DEF SetStatus, EqInv, EqTypeOK
<1>3. EventIsNews'
  <2> SUFFICES ASSUME NEW d \in Clients, job'[d].op = "announce",
                      job'[d].machine \notin eqLate'
               PROVE  job'[d].status = equipment'[job'[d].machine]
    BY DEF EventIsNews
  <2>1. d # c /\ job'[d] = job[d] /\ job[d].op = "announce"
    BY <1>1
  <2>2. job[d].machine # m
    BY <1>2, <2>1, AnnouncingIsTelling
  <2>3. job[d].machine \in Machines
    BY <2>1, AnnouncementIsOne DEF Announcements, EqInv
  <2>4. job[d].status = equipment[job[d].machine]
    BY <1>2, <2>1 DEF EqInv, EventIsNews
  <2> QED
    BY <1>2, <2>1, <2>2, <2>3, <2>4
<1>4. Mirrored'
  <2> SUFFICES ASSUME NEW n \in Machines, n \notin astray' \cup eqLate',
                      \A d \in Clients : ~AwaitsMirror(d, n)'
               PROVE  resource'[n] = ResourceFor(equipment'[n])
    BY DEF Mirrored
  <2>1. \A d \in Clients : ~AwaitsMirror(d, n)
    BY <1>1 DEF AwaitsMirror, Unmirrored, At
  <2>2. resource[n] = ResourceFor(equipment[n])
    BY <1>2, <2>1 DEF EqInv, Mirrored
  <2>3. equipment'[n] = equipment[n]
    BY <1>2
  <2> QED
    BY <2>2, <2>3
<1> QED
  BY <1>1, <1>3, <1>4

LEMMA MirrorKeeps ==
  ASSUME EqInv, NEW c \in Clients, Mirror(c)
  PROVE  EqInv'
<1> DEFINE m == job[c].machine
           s == job[c].status
           next == [job[c] EXCEPT !.stage = "findFirst"]
<1>1. job[c] \in Announcements /\ At(c, "announce", "mirror")
  BY AnnouncementIsOne DEF Mirror, At, EqInv
<1>2. /\ m \in Machines /\ s \in EquipmentStatus
      /\ next \in EqJobs /\ next.op = "announce" /\ next.stage = "findFirst"
      /\ next.machine = m /\ next.status = s
  BY <1>1 DEF Announcements, EqJobs
<1>3. /\ job' = [job EXCEPT ![c] = next]
      /\ resource' = [resource EXCEPT ![m] = ResourceFor(s)]
      /\ astray' = astray \ {m}
      /\ UNCHANGED <<equipment, fault, task, eqLate>>
  BY DEF Mirror, Continue
<1> HIDE DEF m, s, next
<1>4. /\ job' \in [Clients -> EqJobs] /\ job'[c] = next
      /\ \A d \in Clients \ {c} : job'[d] = job[d]
  BY <1>2, <1>3, EqJobStays DEF EqInv
<1>5. EqTypeOK'
  BY <1>2, <1>3, StatusIsMirrored DEF EqInv, EqTypeOK
<1>6. EventIsNews'
  BY <1>1, <1>2, <1>3, <1>4 DEF EqInv, EventIsNews, At, m, s
<1>7. Mirrored'
  <2> SUFFICES ASSUME NEW n \in Machines, n \notin astray' \cup eqLate',
                      \A d \in Clients : ~AwaitsMirror(d, n)'
               PROVE  resource'[n] = ResourceFor(equipment'[n])
    BY DEF Mirrored
  <2>1. CASE n = m
    <3>1. s = equipment[m]
      BY <1>1, <1>3, <2>1 DEF EqInv, EventIsNews, At, m, s
    <3> QED
      BY <1>2, <1>3, <2>1, <3>1 DEF EqInv, EqTypeOK
  <2>2. CASE n # m
    <3>1. \A d \in Clients : ~AwaitsMirror(d, n)
      BY <1>4, <2>2 DEF AwaitsMirror, Unmirrored, At, m
    <3>2. resource[n] = ResourceFor(equipment[n])
      BY <1>3, <2>2, <3>1 DEF EqInv, Mirrored
    <3> QED
      BY <1>2, <1>3, <2>2, <3>2 DEF EqInv, EqTypeOK
  <2> QED
    BY <2>1, <2>2
<1> QED
  BY <1>4, <1>5, <1>6, <1>7 DEF EqInv

\* An event is given up: the first subscriber failed, or the request died.
LEMMA LostEventKeeps ==
  ASSUME EqInv, NEW c \in Clients, NEW j \in EqJobs,
         j.op = "announce" =>
            /\ job[c].op = "announce" /\ j.stage \in {"findFirst", "second"}
            /\ j.machine = job[c].machine /\ j.status = job[c].status,
         job' = [job EXCEPT ![c] = j],
         astray \subseteq astray', astray' \subseteq Machines,
         Unmirrored(c) => job[c].machine \in astray',
         UNCHANGED <<equipment, resource, fault, task, eqLate>>
  PROVE  EqInv'
<1>1. /\ job' \in [Clients -> EqJobs] /\ job'[c] = j
      /\ \A d \in Clients \ {c} : job'[d] = job[d]
  BY EqJobStays DEF EqInv
<1>2. EqTypeOK'
  BY DEF EqInv, EqTypeOK
<1>3. EventIsNews'
  BY <1>1 DEF EqInv, EventIsNews
<1>4. Mirrored'
  <2> SUFFICES ASSUME NEW n \in Machines, n \notin astray' \cup eqLate',
                      \A d \in Clients : ~AwaitsMirror(d, n)'
               PROVE  resource'[n] = ResourceFor(equipment'[n])
    BY DEF Mirrored
  <2>1. \A d \in Clients : ~AwaitsMirror(d, n)
    BY <1>1 DEF AwaitsMirror, Unmirrored, At
  <2> QED
    BY <2>1 DEF EqInv, Mirrored
<1> QED
  BY <1>1, <1>2, <1>3, <1>4 DEF EqInv

LEMMA FindRowKeeps ==
  ASSUME EqInv, NEW c \in Clients, FindRow(c)
  PROVE  EqInv'
<1> DEFINE next == [job[c] EXCEPT !.stage = Found[job[c].stage]]
<1>1. job[c] \in Announcements /\ job[c].stage \in {"find", "findFirst"}
  BY AnnouncementIsOne DEF FindRow, Found, EqInv
<1>2. /\ next \in EqJobs /\ next.op = "announce"
      /\ next.machine = job[c].machine /\ next.status = job[c].status
      /\ next.stage = "mirror" <=> job[c].stage = "find"
      /\ next.stage # "find"
  BY <1>1 DEF Announcements, EqJobs, Found
<1>3. /\ job' = [job EXCEPT ![c] = next] /\ job[c].op = "announce"
      /\ UNCHANGED <<equipment, resource, fault, task, astray, eqLate>>
  BY DEF FindRow, Continue, eqData, eqDocs
<1> HIDE DEF next
<1>4. /\ job' \in [Clients -> EqJobs] /\ job'[c] = next
      /\ \A d \in Clients \ {c} : job'[d] = job[d]
  BY <1>2, <1>3, EqJobStays DEF EqInv
<1>5. EqTypeOK'
  BY <1>3 DEF EqInv, EqTypeOK
<1>6. EventIsNews'
  BY <1>2, <1>3, <1>4 DEF EqInv, EventIsNews
<1>7. \A d \in Clients, m \in Machines : AwaitsMirror(d, m)' <=> AwaitsMirror(d, m)
  BY <1>1, <1>2, <1>3, <1>4 DEF AwaitsMirror, Unmirrored
<1>8. Mirrored'
  BY <1>3, <1>7 DEF EqInv, Mirrored
<1> QED
  BY <1>4, <1>5, <1>6, <1>8 DEF EqInv

\* Rows are saved whole: what is written over is named in astray.
LEMMA SaveRowsKeeps ==
  ASSUME EqInv, NEW c \in Clients, SaveRows(c)
  PROVE  EqInv'
<1> DEFINE rows == job[c].rows
<1>1. /\ job[c].op = "resource"
      /\ job' = [job EXCEPT ![c] = NoJob]
      /\ UNCHANGED <<equipment, fault, task, eqLate>>
      /\ resource' = [m \in Machines |-> IF m \in DOMAIN rows THEN rows[m] ELSE resource[m]]
      /\ astray' = astray \cup {m \in DOMAIN rows : rows[m] # resource[m]}
  BY DEF SaveRows, At, Reply, Continue
<1>2. DOMAIN rows \subseteq Machines /\ \A m \in DOMAIN rows : rows[m] \in ResourceStatus
  BY <1>1, RowSaveIsOne DEF EqInv
<1> HIDE DEF rows
<1>3. /\ job' \in [Clients -> EqJobs] /\ job'[c] = NoJob
      /\ \A d \in Clients \ {c} : job'[d] = job[d]
  BY <1>1, EqJobStays, NoJobIsSilent DEF EqInv
<1>4. EqTypeOK'
  BY <1>1, <1>2 DEF EqInv, EqTypeOK
<1>5. EventIsNews'
  BY <1>1, <1>3, NoJobIsSilent DEF EqInv, EventIsNews
<1>6. \A n \in Machines : n \notin astray' => n \notin astray /\ resource'[n] = resource[n]
  BY <1>1, <1>2
<1>7. \A d \in Clients, m \in Machines : AwaitsMirror(d, m)' <=> AwaitsMirror(d, m)
  BY <1>1, <1>3, NoJobIsSilent DEF AwaitsMirror, Unmirrored
<1>8. Mirrored'
  BY <1>1, <1>6, <1>7 DEF EqInv, Mirrored
<1> QED
  BY <1>3, <1>4, <1>5, <1>8 DEF EqInv

LEMMA SecondKeeps ==
  ASSUME EqInv, NEW c \in Clients, Second(c)
  PROVE  EqInv'
<1> DEFINE m == job[c].machine
           s == job[c].status
<1>1. job[c] \in Announcements /\ At(c, "announce", "second")
  BY AnnouncementIsOne DEF Second, At, EqInv
<1>2. m \in Machines /\ s \in EquipmentStatus
  BY <1>1 DEF Announcements
<1>3. /\ job' = [job EXCEPT ![c] = NoJob]
      /\ UNCHANGED <<equipment, fault, task, eqLate>>
  BY DEF Second, Reply, Continue
<1>4. CASE s \notin ResourceStatus
  <2>1. UNCHANGED <<resource, astray>>
    BY <1>4 DEF Second
  <2> QED
    BY <1>1, <1>3, <2>1, LostEventKeeps, NoJobIsSilent DEF EqInv, EqTypeOK, At, Unmirrored
<1>5. CASE s \in ResourceStatus
  <2>1. /\ resource' = [resource EXCEPT ![First] = s]
        /\ astray' = IF m = First THEN astray ELSE astray \cup {First}
    BY <1>5 DEF Second
  <2>2. /\ job' \in [Clients -> EqJobs] /\ job'[c] = NoJob
        /\ \A d \in Clients \ {c} : job'[d] = job[d]
    BY <1>3, EqJobStays, NoJobIsSilent DEF EqInv
  <2>3. EqTypeOK'
    BY <1>3, <1>5, <2>1, FirstAssumption DEF EqInv, EqTypeOK
  <2>4. EventIsNews'
    BY <1>3, <2>2, NoJobIsSilent DEF EqInv, EventIsNews
  <2>5. Mirrored'
    <3> SUFFICES ASSUME NEW n \in Machines, n \notin astray' \cup eqLate',
                        \A d \in Clients : ~AwaitsMirror(d, n)'
                 PROVE  resource'[n] = ResourceFor(equipment'[n])
      BY DEF Mirrored
    <3>1. CASE n = First
      <4>1. m = First
        BY <2>1, <3>1
      <4>2. s = equipment[n]
        BY <1>1, <1>3, <3>1, <4>1 DEF EqInv, EventIsNews, At
      <4>3. ResourceFor(s) = s
        BY <1>2, <1>5, StatusIsMirrored
      <4> QED
        BY <1>3, <2>1, <3>1, <4>2, <4>3 DEF EqInv, EqTypeOK
    <3>2. CASE n # First
      <4>1. \A d \in Clients : ~AwaitsMirror(d, n)
        BY <1>1, <2>2 DEF AwaitsMirror, Unmirrored, At
      <4>2. n \notin astray \cup eqLate
        BY <1>3, <2>1
      <4>3. resource[n] = ResourceFor(equipment[n])
        BY <4>1, <4>2 DEF EqInv, Mirrored
      <4> QED
        BY <1>3, <2>1, <3>2, <4>3 DEF EqInv, EqTypeOK
    <3> QED
      BY <3>1, <3>2
  <2> QED
    BY <2>2, <2>3, <2>4, <2>5 DEF EqInv
<1> QED
  BY <1>4, <1>5

LEMMA SetStatusKeepsTypes ==
  ASSUME EqInv, NEW c \in Clients, NEW m \in Machines, NEW s \in EquipmentStatus,
         NEW told \in BOOLEAN, SetStatus(c, m, s, told)
  PROVE  /\ equipment' \in [Machines -> EquipmentStatus]
         /\ astray' \subseteq Machines /\ eqLate' \subseteq Machines
BY DEF SetStatus, EqInv, EqTypeOK

(***************************************************************************)
(* The invariant.                                                          *)
(***************************************************************************)
LEMMA EqInitHolds == ReqInit /\ EqInit => EqInv
<1> SUFFICES ASSUME ReqInit, EqInit PROVE EqInv
  OBVIOUS
<1>1. \A c \in Clients : job[c] = NoJob
  BY DEF ReqInit
<1>2. equipment \in [Machines -> EquipmentStatus]
  BY DEF EqInit, EquipmentStatus
<1>3. EqTypeOK
  BY <1>2, StatusIsMirrored DEF EqInit, EqTypeOK
<1>4. job \in [Clients -> EqJobs]
  BY NoJobIsSilent DEF ReqInit
<1>5. EventIsNews
  BY <1>1, NoJobIsSilent DEF EventIsNews
<1>6. Mirrored
  BY DEF EqInit, Mirrored
<1> QED
  BY <1>3, <1>4, <1>5, <1>6 DEF EqInv

LEMMA EqNextKeepsInv == EqInv /\ [EqNext]_eqVars => EqInv'
<1> SUFFICES ASSUME EqInv, [EqNext]_eqVars PROVE EqInv'
  OBVIOUS
<1> USE NoJobIsSilent
<1>1. ASSUME NEW c \in Clients, NEW f \in Faults, ReportFault(c, f) PROVE EqInv'
  <2>1. fault[f].on \in Machines /\ "FAULT" \in EquipmentStatus
    BY DEF EqInv, EqTypeOK, EquipmentStatus
  <2>2. /\ SetStatus(c, fault[f].on, "FAULT", FALSE)
        /\ job[c] = NoJob /\ UNCHANGED <<resource, job, task>>
        /\ fault' = [fault EXCEPT ![f].status = "REPORTED"]
    BY <1>1 DEF ReportFault, Once
  <2>3. job' = [job EXCEPT ![c] = NoJob]
    BY <2>2 DEF EqInv
  <2>4. (job \in [Clients -> EqJobs])' /\ EventIsNews' /\ Mirrored'
    BY <2>1, <2>2, <2>3, UntoldStatusKeeps
  <2>5. fault' \in [Faults -> [status : FaultStatus, on : Machines]]
    BY <2>2 DEF EqInv, EqTypeOK, FaultStatus
  <2> QED
    BY <2>1, <2>2, <2>4, <2>5, SetStatusKeepsTypes DEF EqInv, EqTypeOK
<1>2. ASSUME NEW c \in Clients, NEW f \in Faults, ReadFault(c, f) PROVE EqInv'
  <2> DEFINE j == [op |-> "fault", stage |-> "save", fault |-> f,
                   from |-> fault[f].status]
  <2>1. j \in EqJobs /\ j.op # "announce"
    BY <1>2 DEF ReadFault, EqJobs, Repairs
  <2>2. job[c] = NoJob /\ job' = [job EXCEPT ![c] = j] /\ UNCHANGED eqData
    BY <1>2 DEF ReadFault, Accept
  <2>3. UNCHANGED <<equipment, resource, fault, task, astray, eqLate>>
    BY <2>2 DEF eqData, eqDocs
  <2> QED
    BY <2>1, <2>2, <2>3, QuietStepKeeps DEF EqInv, EqTypeOK
<1>3. ASSUME NEW c \in Clients, StepFault(c) PROVE EqInv'
  <2>1. /\ job[c].op = "fault" /\ job[c].fault \in Faults
        /\ job[c].from \in DOMAIN NextStage
    BY <1>3, RepairIsOne DEF StepFault, At, EqInv
  <2>2. NextStage[job[c].from] \in FaultStatus
    BY <2>1 DEF NextStage, FaultStatus
  <2>3. /\ fault' = [fault EXCEPT ![job[c].fault].status = NextStage[job[c].from]]
        /\ job' = [job EXCEPT ![c] = NoJob]
        /\ UNCHANGED <<equipment, resource, task, astray, eqLate>>
    BY <1>3 DEF StepFault, Reply, Continue
  <2>4. fault' \in [Faults -> [status : FaultStatus, on : Machines]]
    BY <2>1, <2>2, <2>3 DEF EqInv, EqTypeOK
  <2> QED
    BY <2>1, <2>3, <2>4, QuietStepKeeps DEF EqInv, EqTypeOK
<1>4. ASSUME NEW c \in Clients, VerifyAndClose(c) PROVE EqInv'
  <2> DEFINE f == job[c].fault
  <2>1. job[c].op = "fault" /\ f \in Faults
    BY <1>4, RepairIsOne DEF VerifyAndClose, At, EqInv
  <2>2. fault[f].on \in Machines /\ "IDLE" \in EquipmentStatus
    BY <2>1 DEF EqInv, EqTypeOK, EquipmentStatus
  <2>3. /\ fault' = [fault EXCEPT ![f].status = "CLOSED"]
        /\ SetStatus(c, fault[f].on, "IDLE", TRUE)
        /\ job' = [job EXCEPT ![c] = Telling(fault[f].on, "IDLE")]
        /\ UNCHANGED <<resource, task>>
    BY <1>4 DEF VerifyAndClose, Continue
  <2>4. (job \in [Clients -> EqJobs])' /\ EventIsNews' /\ Mirrored'
    BY <2>1, <2>2, <2>3, ToldStatusKeeps
  <2>5. fault' \in [Faults -> [status : FaultStatus, on : Machines]]
    BY <2>1, <2>3 DEF EqInv, EqTypeOK, FaultStatus
  <2> QED
    BY <2>2, <2>3, <2>4, <2>5, SetStatusKeepsTypes DEF EqInv, EqTypeOK
<1>5. ASSUME NEW c \in Clients, NEW t \in Tasks, CompleteTask(c, t) PROVE EqInv'
  <2>1. TaskOn[t] \in Machines /\ "IDLE" \in EquipmentStatus
    BY TaskOnAssumption DEF EquipmentStatus
  <2>2. /\ job[c] = NoJob /\ job' = [job EXCEPT ![c] = Telling(TaskOn[t], "IDLE")]
        /\ SetStatus(c, TaskOn[t], "IDLE", TRUE)
        /\ task' = [task EXCEPT ![t] = "COMPLETED"]
        /\ UNCHANGED <<resource, fault>>
    BY <1>5 DEF CompleteTask, Accept
  <2>3. (job \in [Clients -> EqJobs])' /\ EventIsNews' /\ Mirrored'
    BY <2>1, <2>2, ToldStatusKeeps
  <2> QED
    BY <2>1, <2>2, <2>3, SetStatusKeepsTypes DEF EqInv, EqTypeOK
<1>6. ASSUME NEW c \in Clients, NEW m \in Machines, NEW s \in Changes,
             ChangeStatus(c, m, s)
      PROVE  EqInv'
  <2>1. s \in EquipmentStatus
    BY ChangesAssumption
  <2>2. /\ job[c] = NoJob /\ job' = [job EXCEPT ![c] = Telling(m, s)]
        /\ SetStatus(c, m, s, TRUE) /\ UNCHANGED <<resource, fault, task>>
    BY <1>6 DEF ChangeStatus, Accept
  <2>3. (job \in [Clients -> EqJobs])' /\ EventIsNews' /\ Mirrored'
    BY <2>1, <2>2, ToldStatusKeeps
  <2> QED
    BY <2>1, <2>2, <2>3, SetStatusKeepsTypes DEF EqInv, EqTypeOK
<1>7. ASSUME NEW c \in Clients, NEW m \in Machines, ReadMachine(c, m) PROVE EqInv'
  <2> DEFINE j == [op |-> "update", stage |-> "save", machine |-> m,
                   status |-> equipment[m]]
  <2>1. j \in EqJobs /\ j.op # "announce"
    BY DEF EqJobs, Updates, EqInv, EqTypeOK
  <2>2. job[c] = NoJob /\ job' = [job EXCEPT ![c] = j] /\ UNCHANGED eqData
    BY <1>7 DEF ReadMachine, Accept
  <2>3. UNCHANGED <<equipment, resource, fault, task, astray, eqLate>>
    BY <2>2 DEF eqData, eqDocs
  <2> QED
    BY <2>1, <2>2, <2>3, QuietStepKeeps DEF EqInv, EqTypeOK
<1>8. ASSUME NEW c \in Clients, UpdateMachine(c) PROVE EqInv'
  <2>1. job[c].op = "update" /\ job[c].machine \in Machines
        /\ job[c].status \in EquipmentStatus
    BY <1>8, UpdateIsOne DEF UpdateMachine, At, EqInv
  <2>2. /\ SetStatus(c, job[c].machine, job[c].status, FALSE)
        /\ job' = [job EXCEPT ![c] = NoJob] /\ UNCHANGED <<resource, fault, task>>
    BY <1>8 DEF UpdateMachine, Reply, Continue
  <2>3. (job \in [Clients -> EqJobs])' /\ EventIsNews' /\ Mirrored'
    BY <2>1, <2>2, UntoldStatusKeeps
  <2> QED
    BY <2>1, <2>2, <2>3, SetStatusKeepsTypes DEF EqInv, EqTypeOK
<1>9. ASSUME NEW c \in Clients, Mirror(c) PROVE EqInv'
  BY <1>9, MirrorKeeps
<1>10. ASSUME NEW c \in Clients, MirrorFails(c) PROVE EqInv'
  <2> DEFINE j == [job[c] EXCEPT !.stage = "findFirst"]
  <2>1. job[c] \in Announcements
    BY <1>10, AnnouncementIsOne DEF MirrorFails, Unmirrored, EqInv
  <2>2. /\ j \in EqJobs /\ j.stage = "findFirst"
        /\ j.machine = job[c].machine /\ j.status = job[c].status
    BY <2>1 DEF Announcements, EqJobs
  <2>3. job[c].op = "announce" /\ job[c].machine \in Machines
    BY <2>1 DEF Announcements
  <2>4. /\ job' = [job EXCEPT ![c] = j] /\ astray' = astray \cup {job[c].machine}
        /\ UNCHANGED <<equipment, resource, fault, task, eqLate>>
    BY <1>10 DEF MirrorFails, Continue, eqDocs
  <2>5. astray \subseteq astray' /\ astray' \subseteq Machines
        /\ job[c].machine \in astray'
    BY <2>3, <2>4 DEF EqInv, EqTypeOK
  <2> HIDE DEF j
  <2> QED
    BY <2>2, <2>3, <2>4, <2>5, LostEventKeeps
<1>11. ASSUME NEW c \in Clients, Second(c) PROVE EqInv'
  BY <1>11, SecondKeeps
<1>12. ASSUME NEW c \in Clients, EqDie(c) PROVE EqInv'
  <2>1. /\ job' = [job EXCEPT ![c] = NoJob]
        /\ UNCHANGED <<equipment, resource, fault, task, eqLate>>
        /\ astray' = IF Unmirrored(c) THEN astray \cup {job[c].machine}
                     ELSE astray
    BY <1>12 DEF EqDie, Reply, Continue, eqDocs
  <2>2. Unmirrored(c) => job[c].machine \in Machines
    BY AnnouncementIsOne DEF Unmirrored, Announcements, EqInv
  <2>3. astray \subseteq astray' /\ astray' \subseteq Machines
        /\ (Unmirrored(c) => job[c].machine \in astray')
    BY <2>1, <2>2 DEF EqInv, EqTypeOK
  <2> QED
    BY <2>1, <2>3, LostEventKeeps
<1>13. ASSUME NEW c \in Clients, FindRow(c) PROVE EqInv'
  BY <1>13, FindRowKeeps
<1>14. ASSUME NEW c \in Clients, NEW m \in Machines, NEW s \in ByHand,
              GiveStatus(c, m, s)
       PROVE  EqInv'
  <2> DEFINE j == SavingRows([n \in {m} |-> s], "save")
  <2>1. j \in EqJobs /\ j.op # "announce"
    BY ByHandAssumption, SavingRowsIsJob
  <2>2. job[c] = NoJob /\ job' = [job EXCEPT ![c] = j]
        /\ UNCHANGED <<equipment, resource, fault, task, astray, eqLate>>
    BY <1>14 DEF GiveStatus, Accept, eqData, eqDocs
  <2> HIDE DEF j
  <2> QED
    BY <2>1, <2>2, QuietStepKeeps DEF EqInv, EqTypeOK
<1>15. ASSUME NEW c \in Clients, NEW m \in Machines, NEW stage \in {"save", "other"},
              ReadRow(c, m, stage)
       PROVE  EqInv'
  <2> DEFINE j == SavingRows([n \in {m} |-> resource[n]], stage)
  <2>1. [n \in {m} |-> resource[n]] \in [{m} -> ResourceStatus]
    BY DEF EqInv, EqTypeOK
  <2>2. j \in EqJobs /\ j.op # "announce"
    BY <2>1, SavingRowsIsJob
  <2>3. job[c] = NoJob /\ job' = [job EXCEPT ![c] = j]
        /\ UNCHANGED <<equipment, resource, fault, task, astray, eqLate>>
    BY <1>15 DEF ReadRow, Accept, eqData, eqDocs
  <2> HIDE DEF j
  <2> QED
    BY <2>2, <2>3, QuietStepKeeps DEF EqInv, EqTypeOK
<1>16. ASSUME NEW c \in Clients, NEW m \in Machines, ReadOther(c, m) PROVE EqInv'
  <2> DEFINE on == DOMAIN job[c].rows \cup {m}
             rows == [n \in on |-> IF n = m THEN resource[n] ELSE job[c].rows[n]]
             j == SavingRows(rows, "save")
  <2>1. /\ job[c].op = "resource" /\ job' = [job EXCEPT ![c] = j]
        /\ UNCHANGED <<equipment, resource, fault, task, astray, eqLate>>
    BY <1>16 DEF ReadOther, At, Continue, eqData, eqDocs
  <2>2. on \in SUBSET Machines /\ rows \in [on -> ResourceStatus]
    BY <2>1, RowSaveIsOne DEF EqInv, EqTypeOK
  <2>3. j \in EqJobs /\ j.op # "announce"
    BY <2>2, SavingRowsIsJob
  <2> HIDE DEF j
  <2> QED
    BY <2>1, <2>3, QuietStepKeeps DEF EqInv, EqTypeOK
<1>17. ASSUME NEW c \in Clients, SaveRows(c) PROVE EqInv'
  BY <1>17, SaveRowsKeeps
<1>18. CASE UNCHANGED eqVars
  BY <1>18 DEF eqVars, eqData, eqDocs, reqVars, EqInv, EqTypeOK, EventIsNews,
               Mirrored, AwaitsMirror, Unmirrored, At
<1> QED
  BY <1>1, <1>2, <1>3, <1>4, <1>5, <1>6, <1>7, <1>8, <1>9, <1>10, <1>11, <1>12,
     <1>13, <1>14, <1>15, <1>16, <1>17, <1>18 DEF EqNext

(***************************************************************************)
(* Equipment, resources, faults and tasks keep their types.                *)
(***************************************************************************)
THEOREM EquipmentIsTyped == EqSpec => []EqTypeOK
<1>1. EqInv => EqTypeOK
  BY DEF EqInv
<1> QED
  BY EqInitHolds, EqNextKeepsInv, <1>1, PTL DEF EqSpec

(***************************************************************************)
(* A resource follows its equipment once its events have arrived: the      *)
(* second subscriber, which knows neither resource nor tenant, does no     *)
(* harm to it beyond the cases ResourceFollows names.                      *)
(***************************************************************************)
THEOREM ResourcesFollow == EqSpec => []ResourceFollows
<1>1. EqInv => ResourceFollows
  <2> SUFFICES ASSUME EqInv, NEW m \in Machines \ (astray \cup eqLate),
                      \A c \in Clients : ~BeingTold(c, m)
               PROVE  resource[m] = ResourceFor(equipment[m])
    BY DEF ResourceFollows
  <2>1. \A c \in Clients : ~AwaitsMirror(c, m)
    BY DEF AwaitsMirror, Unmirrored, BeingTold
  <2> QED
    BY <2>1 DEF EqInv, Mirrored
<1> QED
  BY EqInitHolds, EqNextKeepsInv, <1>1, PTL DEF EqSpec

-----------------------------------------------------------------------------
(***************************************************************************)
(* The stock of a part is the sum of its transactions, for any             *)
(* applications and requests.                                              *)
(*                                                                         *)
(* StockIsBooked compares a row with two sums: what was taken by           *)
(* applications, and what requests have saved and not booked yet. A step   *)
(* changes one summand of each, and the lemmas of SumProofs say by how     *)
(* much the sums move. The invariant adds that an application that no two  *)
(* requests approve has one approver (OneApprover) and that the stock that *)
(* was read is the stock, unless it was saved meanwhile (StockIsFresh).    *)
(***************************************************************************)

SavePartJobs == [op : {"part", "edit", "approve"}, stage : {"save", "book"},
                 on : Applications \cup {"none"}, qty : Int, stock : Nat]
ReadPartJobs == [op : {"approve"}, stage : {"read"}, on : Applications]
PartJobs == SavePartJobs \cup ReadPartJobs \cup {NoJob}

Saves(j) == j.op # "none" /\ j.stage = "save"

\* An edit books nothing, and an approval what its application asks for.
PartJobFits(j) ==
  /\ j.op = "edit" => j.qty = 0 /\ j.stage = "save"
  /\ j.op = "approve" =>
       /\ j.on \in Applications
       /\ application[j.on].status # "none"
       /\ j.stage # "read" => j.qty = 0 - application[j.on].qty
PartJobsFit == \A c \in Clients : PartJobFits(job[c])

\* An application that no two requests approve has one approver, and waits for it.
OneApprover ==
  approvedTwice = {} =>
    \A c \in Clients : job[c].op = "approve" =>
      /\ application[job[c].on].status = "pending"
      /\ \A d \in Clients : Approving(d, job[c].on) => c = d

\* What was read is the stock, until another request saves the part.
StockIsFresh ==
  ~partLate => \A c \in Clients :
    Saves(job[c]) => job[c].stock = stock + job[c].qty

PartInv ==
  /\ PartTypeOK
  /\ job \in [Clients -> PartJobs]
  /\ PartJobsFit /\ OneApprover /\ StockIsFresh /\ StockIsBooked

-----------------------------------------------------------------------------
(* The two sums *)

LEMMA TakenByIsInt ==
  ASSUME NEW app \in Application PROVE TakenBy(app) \in Int
BY DEF TakenBy, Application

LEMMA ToBookIsInt ==
  ASSUME NEW j \in PartJobs PROVE ToBook(j) \in Int
BY DEF ToBook, PartJobs, SavePartJobs, ReadPartJobs, NoJob

LEMMA SumOverClients ==
  ASSUME NEW F, NEW H, F \in [Clients -> Int], H \in [Clients -> Int],
         NEW y \in Clients, \A x \in Clients : x # y => H[x] = F[x]
  PROVE  SumFunction(H) = SumFunction(F) - F[y] + H[y]
BY ClientsAssumption, SumOfFunctionMoves

LEMMA SumOverApplications ==
  ASSUME NEW F, NEW H, F \in [Applications -> Int], H \in [Applications -> Int],
         NEW y \in Applications, \A x \in Applications : x # y => H[x] = F[x]
  PROVE  SumFunction(H) = SumFunction(F) - F[y] + H[y]
BY ApplicationsAssumption, SumOfFunctionMoves

\* Client c goes on with another request.
LEMMA UnbookedMoves ==
  ASSUME job \in [Clients -> PartJobs], NEW c \in Clients, NEW j \in PartJobs,
         job' = [job EXCEPT ![c] = j]
  PROVE  /\ Unbooked \in Int
         /\ Unbooked' = Unbooked - ToBook(job[c]) + ToBook(j)
<1> DEFINE f == [d \in Clients |-> ToBook(job[d])]
           h == [d \in Clients |-> ToBook(job'[d])]
<1>1. job' \in [Clients -> PartJobs]
  OBVIOUS
<1>2. f \in [Clients -> Int] /\ h \in [Clients -> Int]
  BY <1>1, ToBookIsInt
<1>3. /\ f[c] = ToBook(job[c]) /\ h[c] = ToBook(j)
      /\ \A d \in Clients : d # c => h[d] = f[d]
  OBVIOUS
<1>4. Unbooked = SumFunction(f) /\ Unbooked' = SumFunction(h)
  BY DEF Unbooked
<1> HIDE DEF f, h
<1>5. SumFunction(h) = SumFunction(f) - f[c] + h[c]
  BY <1>2, <1>3, SumOverClients
<1>6. SumFunction(f) \in Int
  BY <1>2, ClientsAssumption, SumOfFunction
<1> QED
  BY <1>3, <1>4, <1>5, <1>6

\* Application a changes.
LEMMA TakenMoves ==
  ASSUME application \in [Applications -> Application], NEW a \in Applications,
         NEW app \in Application, application' = [application EXCEPT ![a] = app]
  PROVE  /\ Taken \in Int
         /\ Taken' = Taken - TakenBy(application[a]) + TakenBy(app)
<1> DEFINE f == [b \in Applications |-> TakenBy(application[b])]
           h == [b \in Applications |-> TakenBy(application'[b])]
<1>1. application' \in [Applications -> Application]
  OBVIOUS
<1>2. f \in [Applications -> Int] /\ h \in [Applications -> Int]
  BY <1>1, TakenByIsInt
<1>3. /\ f[a] = TakenBy(application[a]) /\ h[a] = TakenBy(app)
      /\ \A b \in Applications : b # a => h[b] = f[b]
  OBVIOUS
<1>4. Taken = SumFunction(f) /\ Taken' = SumFunction(h)
  BY DEF Taken
<1> HIDE DEF f, h
<1>5. SumFunction(h) = SumFunction(f) - f[a] + h[a]
  BY <1>2, <1>3, SumOverApplications
<1>6. SumFunction(f) \in Int
  BY <1>2, ApplicationsAssumption, SumOfFunction
<1> QED
  BY <1>3, <1>4, <1>5, <1>6

LEMMA TakenIsInt ==
  ASSUME application \in [Applications -> Application] PROVE Taken \in Int
<1> DEFINE f == [b \in Applications |-> TakenBy(application[b])]
<1>1. f \in [Applications -> Int]
  BY TakenByIsInt
<1> HIDE DEF f
<1>2. SumFunction(f) \in Int
  BY <1>1, ApplicationsAssumption, SumOfFunction
<1> QED
  BY <1>2 DEF f, Taken

LEMMA PartInitInv == ReqInit /\ PartInit => PartInv
<1> SUFFICES ASSUME ReqInit, PartInit PROVE PartInv
  OBVIOUS
<1>1. /\ job = [c \in Clients |-> NoJob] /\ NoJob \in PartJobs
      /\ application = [a \in Applications |-> [status |-> "none", qty |-> 0]]
  BY DEF ReqInit, PartInit, PartJobs
<1>2. PartTypeOK
  <2>1. [status |-> "none", qty |-> 0] \in Application
    BY DEF Application
  <2>2. application \in [Applications -> Application]
    BY <1>1, <2>1
  <2>3. stock \in Nat /\ booked \in Int
    BY DEF PartInit
  <2>4. partLate \in BOOLEAN /\ partTorn \in BOOLEAN /\ approvedTwice \subseteq Applications
    BY Zenon DEF PartInit
  <2> QED
    BY <2>2, <2>3, <2>4 DEF PartTypeOK
<1>3. \A c \in Clients : job[c].op = "none" /\ ToBook(job[c]) = 0
  BY <1>1 DEF NoJob, ToBook
<1>4. \A a \in Applications : TakenBy(application[a]) = 0
  BY <1>1 DEF TakenBy
<1>5. PartJobsFit /\ OneApprover /\ StockIsFresh
  BY <1>3 DEF PartJobsFit, PartJobFits, OneApprover, StockIsFresh, Saves
<1>6. Taken = 0
  BY <1>4, ApplicationsAssumption, SumOfZeros DEF Taken
<1>7. Unbooked = 0
  BY <1>3, ClientsAssumption, SumOfZeros DEF Unbooked
<1>8. StockIsBooked
  BY <1>6, <1>7 DEF PartInit, StockIsBooked
<1> QED
  BY <1>1, <1>2, <1>5, <1>8 DEF PartInv

-----------------------------------------------------------------------------
(* The steps *)

\* What a step of client c, which goes on with j, leaves as it was: it saves
\* neither the part nor an application.
LEMMA PartGoesOn ==
  ASSUME PartInv, NEW c \in Clients, NEW j \in PartJobs,
         job' = [job EXCEPT ![c] = j],
         UNCHANGED <<stock, booked, application, partLate>>,
         partTorn' \in BOOLEAN, partTorn => partTorn',
         approvedTwice' \subseteq Applications, approvedTwice \subseteq approvedTwice',
         PartJobFits(j),
         Saves(j) => j.stock = stock + j.qty,
         j.op = "approve" => \/ job[c].op = "approve" /\ job[c].on = j.on
                             \/ /\ application[j.on].status = "pending"
                                /\ \/ j.on \in approvedTwice'
                                   \/ \A d \in Clients : ~Approving(d, j.on),
         ToBook(j) = ToBook(job[c]) \/ partTorn'
  PROVE  PartInv'
<1>1. job' \in [Clients -> PartJobs] /\ job'[c] = j
      /\ \A d \in Clients \ {c} : job'[d] = job[d]
  BY DEF PartInv
<1>2. PartTypeOK'
  <2>1. /\ stock' \in Nat /\ booked' \in Int
        /\ application' \in [Applications -> Application]
        /\ approvedTwice' \subseteq Applications
    BY DEF PartInv, PartTypeOK
  <2>2. partLate' \in BOOLEAN /\ partTorn' \in BOOLEAN
    BY Zenon DEF PartInv, PartTypeOK
  <2> QED
    BY <2>1, <2>2 DEF PartTypeOK
<1>3. PartJobsFit'
  BY <1>1 DEF PartInv, PartJobsFit, PartJobFits
<1>4. OneApprover'
  <2> SUFFICES ASSUME approvedTwice' = {}, NEW d \in Clients, job'[d].op = "approve"
               PROVE  /\ application[job'[d].on].status = "pending"
                      /\ \A e \in Clients : job'[e].op = "approve" /\ job'[e].on = job'[d].on
                                             => d = e
    BY DEF OneApprover, Approving
  <2>1. approvedTwice = {}
    OBVIOUS
  <2>2. \A e \in Clients : job[e].op = "approve" =>
          /\ application[job[e].on].status = "pending"
          /\ \A b \in Clients : job[b].op = "approve" /\ job[b].on = job[e].on => e = b
    BY <2>1 DEF PartInv, OneApprover, Approving
  <2>3. CASE j.op = "approve" /\ ~(job[c].op = "approve" /\ job[c].on = j.on)
    BY <2>2, <2>3, <1>1 DEF Approving
  <2>4. CASE j.op = "approve" => job[c].op = "approve" /\ job[c].on = j.on
    BY <2>2, <2>4, <1>1
  <2> QED
    BY <2>3, <2>4
<1>5. StockIsFresh'
  BY <1>1 DEF PartInv, StockIsFresh
<1>6. StockIsBooked'
  <2> SUFFICES ASSUME ~partTorn', ~partLate, approvedTwice = {}
               PROVE  stock = booked - Taken + Unbooked'
    BY DEF StockIsBooked, Taken
  <2>1. stock = booked - Taken + Unbooked
    BY DEF PartInv, StockIsBooked
  <2>2. Unbooked' = Unbooked - ToBook(job[c]) + ToBook(j) /\ Unbooked \in Int
    BY UnbookedMoves DEF PartInv
  <2>3. ToBook(j) = ToBook(job[c]) /\ ToBook(j) \in Int
    BY ToBookIsInt
  <2> QED
    BY <2>1, <2>2, <2>3
<1> QED
  BY <1>1, <1>2, <1>3, <1>4, <1>5, <1>6 DEF PartInv

\* A request that is refused, or dies before its first save, changes nothing.
LEMMA NoPartJob ==
  /\ NoJob \in PartJobs /\ PartJobFits(NoJob) /\ ~Saves(NoJob)
  /\ NoJob.op = "none" /\ ToBook(NoJob) = 0
BY DEF NoJob, PartJobs, PartJobFits, Saves, ToBook

LEMMA PartBegins ==
  ASSUME PartInv, NEW c \in Clients, NEW op \in {"part", "edit"}, NEW q \in Int,
         NEW after \in Nat, after = stock + q, op = "edit" => q = 0,
         Accept(c, Saving(op, "none", q, after)), UNCHANGED partData
  PROVE  PartInv'
<1> DEFINE j == [op |-> op, stage |-> "save", on |-> "none", qty |-> q, stock |-> after]
<1>1. /\ job' = [job EXCEPT ![c] = j] /\ job[c] = NoJob
      /\ UNCHANGED <<stock, booked, application, partLate, partTorn, approvedTwice>>
  BY DEF Accept, Saving, partData, partDocs
<1>2. /\ j \in PartJobs /\ PartJobFits(j) /\ j.op # "approve"
      /\ Saves(j) => j.stock = stock + j.qty
      /\ ToBook(j) = 0
  BY DEF PartJobs, SavePartJobs, PartJobFits, Saves, ToBook
<1>3. /\ partTorn' \in BOOLEAN /\ (partTorn => partTorn')
      /\ approvedTwice' \subseteq Applications /\ approvedTwice \subseteq approvedTwice'
  BY <1>1, Zenon DEF PartInv, PartTypeOK
<1> HIDE DEF j
<1> QED
  BY <1>1, <1>2, <1>3, NoPartJob, PartGoesOn

LEMMA IssuePartKeeps ==
  ASSUME PartInv, NEW c \in Clients, NEW q \in 1..MaxQty, IssuePart(c, q) PROVE PartInv'
<1>1. stock \in Nat /\ q \in Nat /\ stock >= q
  BY MaxQtyAssumption DEF PartInv, PartTypeOK, IssuePart, InStock
<1>2. 0 - q \in Int /\ stock - q \in Nat /\ stock - q = stock + (0 - q)
  BY <1>1
<1> QED
  BY <1>2, PartBegins DEF IssuePart

LEMMA ReceivePartKeeps ==
  ASSUME PartInv, NEW c \in Clients, NEW q \in 1..MaxQty, ReceivePart(c, q) PROVE PartInv'
<1>1. q \in Int /\ stock + q \in Nat
  BY MaxQtyAssumption DEF PartInv, PartTypeOK
<1> QED
  BY <1>1, PartBegins DEF ReceivePart

LEMMA EditPartKeeps ==
  ASSUME PartInv, NEW c \in Clients, EditPart(c) PROVE PartInv'
<1>1. 0 \in Int /\ stock \in Nat /\ stock = stock + 0
  BY DEF PartInv, PartTypeOK
<1> QED
  BY <1>1, PartBegins DEF EditPart

LEMMA ApprovePartKeeps ==
  ASSUME PartInv, NEW c \in Clients, NEW a \in Applications, ApprovePart(c, a) PROVE PartInv'
<1> DEFINE j == [op |-> "approve", stage |-> "read", on |-> a]
<1>1. /\ job' = [job EXCEPT ![c] = j] /\ job[c] = NoJob
      /\ UNCHANGED <<stock, booked, application, partLate, partTorn>>
      /\ application[a].status = "pending"
      /\ approvedTwice' = IF \E d \in Clients : Approving(d, a)
                          THEN approvedTwice \cup {a} ELSE approvedTwice
  BY DEF ApprovePart, Accept, partDocs
<1>2. /\ j \in PartJobs /\ PartJobFits(j) /\ ~Saves(j) /\ ToBook(j) = 0
      /\ j.op = "approve" /\ j.on = a
  BY <1>1 DEF PartJobs, ReadPartJobs, PartJobFits, Saves, ToBook
<1>3. /\ partTorn' \in BOOLEAN /\ (partTorn => partTorn')
      /\ approvedTwice' \subseteq Applications /\ approvedTwice \subseteq approvedTwice'
  BY <1>1, Zenon DEF PartInv, PartTypeOK
<1>4. a \in approvedTwice' \/ \A d \in Clients : ~Approving(d, a)
  BY <1>1
<1> HIDE DEF j
<1> QED
  BY <1>1, <1>2, <1>3, <1>4, NoPartJob, PartGoesOn

LEMMA ApprovePartReadKeeps ==
  ASSUME PartInv, NEW c \in Clients, ApprovePartRead(c) PROVE PartInv'
<1> DEFINE a == job[c].on
           q == application[a].qty
           j == [op |-> "approve", stage |-> "save", on |-> a, qty |-> 0 - q,
                 stock |-> stock - q]
<1>1. /\ job[c].op = "approve" /\ job[c].stage = "read"
      /\ UNCHANGED <<stock, booked, application, partLate, partTorn, approvedTwice>>
      /\ \/ job' = [job EXCEPT ![c] = j] /\ stock >= q
         \/ job' = [job EXCEPT ![c] = NoJob]
  BY DEF ApprovePartRead, At, Continue, Reply, Saving, InStock, partData, partDocs
<1>2. /\ a \in Applications /\ application[a].status # "none" /\ q \in Nat
      /\ stock \in Nat
  BY <1>1 DEF PartInv, PartTypeOK, PartJobsFit, PartJobFits, Application
<1>3. ToBook(job[c]) = 0
  BY <1>1 DEF ToBook
<1>4. /\ partTorn' \in BOOLEAN /\ (partTorn => partTorn')
      /\ approvedTwice' \subseteq Applications /\ approvedTwice \subseteq approvedTwice'
  BY <1>1, Zenon DEF PartInv, PartTypeOK
<1>5. CASE job' = [job EXCEPT ![c] = j] /\ stock >= q
  <2>1. stock - q \in Nat /\ 0 - q \in Int /\ stock - q = stock + (0 - q)
    BY <1>2, <1>5
  <2>2. /\ j \in PartJobs /\ PartJobFits(j) /\ ToBook(j) = 0
        /\ Saves(j) => j.stock = stock + j.qty
        /\ j.op = "approve" /\ j.on = job[c].on
    BY <1>2, <2>1 DEF PartJobs, SavePartJobs, PartJobFits, Saves, ToBook
  <2> HIDE DEF j
  <2> QED
    BY <1>1, <1>3, <1>4, <1>5, <2>2, PartGoesOn
<1>6. CASE job' = [job EXCEPT ![c] = NoJob]
  BY <1>1, <1>3, <1>4, <1>6, NoPartJob, PartGoesOn
<1> QED
  BY <1>1, <1>5, <1>6

LEMMA PartDieKeeps ==
  ASSUME PartInv, NEW c \in Clients, PartDie(c) PROVE PartInv'
<1>1. /\ job' = [job EXCEPT ![c] = NoJob] /\ job[c] # NoJob
      /\ UNCHANGED <<stock, booked, application, partLate, approvedTwice>>
      /\ partTorn' = (partTorn \/ job[c].stage = "book")
  BY DEF PartDie, Reply, Continue, partDocs
<1>2. /\ partTorn' \in BOOLEAN /\ (partTorn => partTorn')
      /\ approvedTwice' \subseteq Applications /\ approvedTwice \subseteq approvedTwice'
  BY <1>1, Zenon DEF PartInv, PartTypeOK
<1>3. ToBook(job[c]) = 0 \/ partTorn'
  BY <1>1 DEF ToBook
<1> QED
  BY <1>1, <1>2, <1>3, NoPartJob, PartGoesOn

\* An application changes its row, and nobody approves a new one.
LEMMA ApplyPartKeeps ==
  ASSUME PartInv, NEW a \in Applications, NEW q \in 1..MaxQty, ApplyPart(a, q) PROVE PartInv'
<1> DEFINE app == [status |-> "pending", qty |-> q]
<1>1. /\ application[a].status = "none" /\ job' = job
      /\ application' = [application EXCEPT ![a] = app]
      /\ UNCHANGED <<stock, booked, partLate, partTorn, approvedTwice>>
  BY DEF ApplyPart, Once
<1>2. app \in Application /\ TakenBy(app) = 0 /\ TakenBy(application[a]) = 0
  BY <1>1, MaxQtyAssumption DEF Application, TakenBy
<1> HIDE DEF app
<1>3. /\ application \in [Applications -> Application]
      /\ application' \in [Applications -> Application]
      /\ \A b \in Applications \ {a} : application'[b] = application[b]
  BY <1>1, <1>2 DEF PartInv, PartTypeOK
<1>4. \A c \in Clients : job[c].op = "approve" =>
        job[c].on \in Applications /\ job[c].on # a
  BY <1>1 DEF PartInv, PartJobsFit, PartJobFits
<1>5. PartTypeOK'
  <2>1. stock' \in Nat /\ booked' \in Int /\ approvedTwice' \subseteq Applications
    BY <1>1 DEF PartInv, PartTypeOK
  <2>2. partLate' \in BOOLEAN /\ partTorn' \in BOOLEAN
    BY Zenon, <1>1 DEF PartInv, PartTypeOK
  <2> QED
    BY <1>3, <2>1, <2>2 DEF PartTypeOK
<1>6. PartJobsFit' /\ OneApprover' /\ StockIsFresh' /\ job' \in [Clients -> PartJobs]
  BY <1>1, <1>3, <1>4 DEF PartInv, PartJobsFit, PartJobFits, OneApprover, Approving,
     StockIsFresh
<1>7. Taken' = Taken
  <2>1. Taken' = Taken - TakenBy(application[a]) + TakenBy(app) /\ Taken \in Int
    BY <1>1, <1>2, <1>3, TakenMoves
  <2> QED
    BY <1>2, <2>1
<1>8. Unbooked' = Unbooked
  BY <1>1 DEF Unbooked
<1>9. StockIsBooked'
  BY <1>1, <1>7, <1>8 DEF PartInv, StockIsBooked
<1> QED
  BY <1>5, <1>6, <1>9 DEF PartInv

LEMMA SavePartKeeps ==
  ASSUME PartInv, NEW c \in Clients, SavePart(c) PROVE PartInv'
<1> DEFINE k == [op |-> job[c].op, stage |-> "book", on |-> job[c].on,
                 qty |-> job[c].qty, stock |-> job[c].stock]
           j == IF job[c].op = "edit" THEN NoJob ELSE k
<1>1. job[c].op # "none" /\ job[c].stage = "save"
  BY DEF SavePart, HasRead
<1>2. job[c] \in SavePartJobs
  BY <1>1 DEF PartInv, PartJobs, ReadPartJobs, NoJob
<1>3. /\ stock' = job[c].stock
      /\ UNCHANGED <<booked, application, partTorn, approvedTwice>>
      /\ partLate' = (partLate \/ \E d \in Clients \ {c} : HasRead(d))
      /\ job' = [job EXCEPT ![c] = j]
  BY <1>2 DEF SavePart, Reply, Continue, SavePartJobs
<1>4. /\ job[c].op \in {"part", "edit", "approve"} /\ job[c].qty \in Int
      /\ job[c].stock \in Nat /\ job[c].on \in Applications \cup {"none"}
  BY <1>2 DEF SavePartJobs
<1>5. PartJobFits(job[c])
  BY DEF PartInv, PartJobsFit
<1>6. j \in PartJobs /\ ToBook(j) = job[c].qty
  <2>1. CASE job[c].op = "edit"
    BY <1>5, <2>1, NoPartJob DEF PartJobFits
  <2>2. CASE job[c].op # "edit"
    BY <1>4, <2>2 DEF PartJobs, SavePartJobs, ToBook
  <2> QED
    BY <2>1, <2>2
<1>7. /\ PartJobFits(j) /\ ~Saves(j)
      /\ j.op = "approve" => job[c].op = "approve" /\ job[c].on = j.on
  <2>1. CASE job[c].op = "edit"
    BY <2>1, NoPartJob
  <2>2. CASE job[c].op # "edit"
    BY <1>1, <1>4, <1>5, <2>2 DEF PartJobFits, Saves
  <2> QED
    BY <2>1, <2>2
<1> HIDE DEF j, k
<1>8. /\ job' \in [Clients -> PartJobs] /\ job'[c] = j
      /\ \A d \in Clients \ {c} : job'[d] = job[d]
  BY <1>3, <1>6 DEF PartInv
<1>9. PartTypeOK'
  <2>1. /\ stock' \in Nat /\ booked' \in Int /\ approvedTwice' \subseteq Applications
        /\ application' \in [Applications -> Application]
    BY <1>3, <1>4 DEF PartInv, PartTypeOK
  <2>2. partLate' \in BOOLEAN /\ partTorn' \in BOOLEAN
    BY Zenon, <1>3 DEF PartInv, PartTypeOK
  <2> QED
    BY <2>1, <2>2 DEF PartTypeOK
<1>10. PartJobsFit'
  BY <1>3, <1>7, <1>8 DEF PartInv, PartJobsFit, PartJobFits
<1>11. OneApprover'
  BY <1>3, <1>7, <1>8 DEF PartInv, OneApprover, Approving
<1>12. StockIsFresh'
  BY <1>3, <1>7, <1>8 DEF StockIsFresh, Saves, HasRead
<1>13. StockIsBooked'
  <2> SUFFICES ASSUME ~partLate, ~partTorn, approvedTwice = {}
               PROVE  stock' = booked - Taken + Unbooked'
    BY <1>3 DEF StockIsBooked, Taken
  <2>1. /\ stock = booked - Taken + Unbooked
        /\ job[c].stock = stock + job[c].qty
    BY <1>1 DEF PartInv, StockIsBooked, StockIsFresh, Saves
  <2>2. Unbooked' = Unbooked - ToBook(job[c]) + ToBook(j) /\ Unbooked \in Int
    BY <1>3, <1>6, UnbookedMoves DEF PartInv
  <2>3. ToBook(job[c]) = 0
    BY <1>1 DEF ToBook
  <2>4. stock \in Nat /\ booked \in Int /\ Taken \in Int
    BY TakenIsInt DEF PartInv, PartTypeOK
  <2> QED
    BY <1>3, <1>4, <1>6, <2>1, <2>2, <2>3, <2>4
<1> QED
  BY <1>8, <1>9, <1>10, <1>11, <1>12, <1>13 DEF PartInv

LEMMA BookPartKeeps ==
  ASSUME PartInv, NEW c \in Clients, BookPart(c) PROVE PartInv'
<1>1. /\ job[c].op = "part" /\ job[c].stage = "book"
      /\ booked' = booked + job[c].qty
      /\ UNCHANGED <<stock, application, partLate, partTorn, approvedTwice>>
      /\ job' = [job EXCEPT ![c] = NoJob]
  BY DEF BookPart, At, Reply, Continue
<1>2. job[c].qty \in Int /\ ToBook(job[c]) = job[c].qty
  BY <1>1 DEF PartInv, PartJobs, SavePartJobs, ReadPartJobs, NoJob, ToBook
<1>3. /\ job' \in [Clients -> PartJobs] /\ job'[c] = NoJob
      /\ \A d \in Clients \ {c} : job'[d] = job[d]
  BY <1>1, NoPartJob DEF PartInv
<1>4. PartTypeOK'
  <2>1. /\ stock' \in Nat /\ booked' \in Int /\ approvedTwice' \subseteq Applications
        /\ application' \in [Applications -> Application]
    BY <1>1, <1>2 DEF PartInv, PartTypeOK
  <2>2. partLate' \in BOOLEAN /\ partTorn' \in BOOLEAN
    BY Zenon, <1>1 DEF PartInv, PartTypeOK
  <2> QED
    BY <2>1, <2>2 DEF PartTypeOK
<1>5. PartJobsFit'
  BY <1>1, <1>3, NoPartJob DEF PartInv, PartJobsFit, PartJobFits
<1>6. OneApprover'
  BY <1>1, <1>3, NoPartJob DEF PartInv, OneApprover, Approving
<1>7. StockIsFresh'
  BY <1>1, <1>3, NoPartJob DEF PartInv, StockIsFresh, Saves
<1>8. StockIsBooked'
  <2> SUFFICES ASSUME ~partLate, ~partTorn, approvedTwice = {}
               PROVE  stock = booked' - Taken + Unbooked'
    BY <1>1 DEF StockIsBooked, Taken
  <2>1. stock = booked - Taken + Unbooked
    BY DEF PartInv, StockIsBooked
  <2>2. Unbooked' = Unbooked - ToBook(job[c]) + ToBook(NoJob) /\ Unbooked \in Int
    BY <1>1, NoPartJob, UnbookedMoves DEF PartInv
  <2>3. stock \in Nat /\ booked \in Int /\ Taken \in Int
    BY TakenIsInt DEF PartInv, PartTypeOK
  <2> QED
    BY <1>1, <1>2, <2>1, <2>2, <2>3, NoPartJob
<1> QED
  BY <1>3, <1>4, <1>5, <1>6, <1>7, <1>8 DEF PartInv

LEMMA BookApprovedKeeps ==
  ASSUME PartInv, NEW c \in Clients, BookApproved(c) PROVE PartInv'
<1> DEFINE a == job[c].on
           app == [status |-> "approved", qty |-> application[a].qty]
<1>1. job[c].op = "approve" /\ job[c].stage = "book"
  BY DEF BookApproved, At
<1>2. /\ job[c].qty \in Int /\ ToBook(job[c]) = job[c].qty
      /\ a \in Applications /\ job[c].qty = 0 - application[a].qty
      /\ application[a].status # "none"
  BY <1>1 DEF PartInv, PartJobs, SavePartJobs, ReadPartJobs, NoJob, ToBook, PartJobsFit,
              PartJobFits
<1>3. application[a] \in Application /\ app \in Application
  BY <1>2 DEF PartInv, PartTypeOK, Application
<1>r. [application[a] EXCEPT !.status = "approved"] = app
  BY <1>3 DEF Application
<1>4. /\ application' = [application EXCEPT ![a] = app]
      /\ UNCHANGED <<stock, booked, partLate, partTorn, approvedTwice>>
      /\ job' = [job EXCEPT ![c] = NoJob]
  BY <1>r DEF BookApproved, Marked, Reply, Continue
<1>5. TakenBy(app) = application[a].qty /\ app.status = "approved"
      /\ app.qty = application[a].qty
  BY DEF TakenBy
<1> HIDE DEF app, a
<1>6. /\ job' \in [Clients -> PartJobs] /\ job'[c] = NoJob
      /\ \A d \in Clients \ {c} : job'[d] = job[d]
  BY <1>4, NoPartJob DEF PartInv
<1>7. /\ application' \in [Applications -> Application] /\ application'[a] = app
      /\ \A b \in Applications \ {a} : application'[b] = application[b]
  BY <1>2, <1>3, <1>4 DEF PartInv, PartTypeOK
<1>8. PartTypeOK'
  <2>1. stock' \in Nat /\ booked' \in Int /\ approvedTwice' \subseteq Applications
    BY <1>4 DEF PartInv, PartTypeOK
  <2>2. partLate' \in BOOLEAN /\ partTorn' \in BOOLEAN
    BY Zenon, <1>4 DEF PartInv, PartTypeOK
  <2> QED
    BY <1>7, <2>1, <2>2 DEF PartTypeOK
<1>9. PartJobsFit'
  <2> SUFFICES ASSUME NEW d \in Clients, d # c PROVE PartJobFits(job[d])'
    BY <1>6, NoPartJob DEF PartJobsFit, PartJobFits
  <2>1. PartJobFits(job[d]) /\ job'[d] = job[d]
    BY <1>6 DEF PartInv, PartJobsFit
  <2>2. \A b \in Applications : application[b].status # "none" =>
          application'[b].status # "none" /\ application'[b].qty = application[b].qty
    BY <1>5, <1>7
  <2> QED
    BY <2>1, <2>2 DEF PartJobFits
<1>10. OneApprover'
  <2> SUFFICES ASSUME approvedTwice = {}, NEW d \in Clients, job'[d].op = "approve"
               PROVE  /\ application'[job'[d].on].status = "pending"
                      /\ \A e \in Clients : job'[e].op = "approve" /\ job'[e].on = job'[d].on
                                             => d = e
    BY <1>4 DEF OneApprover, Approving
  <2>1. \A e \in Clients : job[e].op = "approve" =>
          /\ application[job[e].on].status = "pending"
          /\ \A b \in Clients : job[b].op = "approve" /\ job[b].on = job[e].on => e = b
    BY DEF PartInv, OneApprover, Approving
  <2>2. d # c /\ job'[d] = job[d]
    BY <1>6, NoPartJob
  <2>3. job[d].on # a /\ job[d].on \in Applications
    BY <1>1, <2>1, <2>2 DEF a, PartInv, PartJobsFit, PartJobFits
  <2>4. \A e \in Clients : job'[e].op = "approve" => job'[e] = job[e]
    BY <1>6, NoPartJob
  <2> QED
    BY <1>7, <2>1, <2>2, <2>3, <2>4
<1>11. StockIsFresh'
  BY <1>4, <1>6, NoPartJob DEF PartInv, StockIsFresh, Saves
<1>12. StockIsBooked'
  <2> SUFFICES ASSUME ~partLate, ~partTorn, approvedTwice = {}
               PROVE  stock = booked - Taken' + Unbooked'
    BY <1>4 DEF StockIsBooked
  <2>1. stock = booked - Taken + Unbooked /\ application[a].status = "pending"
    BY <1>1 DEF a, PartInv, StockIsBooked, OneApprover
  <2>2. Unbooked' = Unbooked - ToBook(job[c]) + ToBook(NoJob) /\ Unbooked \in Int
    BY <1>4, NoPartJob, UnbookedMoves DEF PartInv
  <2>3. Taken' = Taken - TakenBy(application[a]) + TakenBy(app) /\ Taken \in Int
    BY <1>2, <1>3, <1>4, TakenMoves DEF PartInv, PartTypeOK
  <2>4. TakenBy(application[a]) = 0
    BY <2>1 DEF TakenBy
  <2>5. stock \in Nat /\ booked \in Int /\ application[a].qty \in Nat
    BY <1>3 DEF PartInv, PartTypeOK, Application
  <2> QED
    BY <1>2, <1>5, <2>1, <2>2, <2>3, <2>4, <2>5, NoPartJob
<1> QED
  BY <1>6, <1>8, <1>9, <1>10, <1>11, <1>12 DEF PartInv

LEMMA PartNextInv == PartInv /\ [PartNext]_partVars => PartInv'
<1> SUFFICES ASSUME PartInv, [PartNext]_partVars PROVE PartInv'
  OBVIOUS
<1>1. CASE UNCHANGED partVars
  BY <1>1 DEF partVars, partData, partDocs, reqVars, PartInv, PartTypeOK, PartJobsFit,
     PartJobFits, OneApprover, Approving, StockIsFresh, StockIsBooked, Taken, Unbooked
<1>2. CASE PartNext
  BY <1>2, IssuePartKeeps, ReceivePartKeeps, EditPartKeeps, ApprovePartKeeps,
     ApprovePartReadKeeps, SavePartKeeps, BookPartKeeps, BookApprovedKeeps,
     PartDieKeeps, ApplyPartKeeps
  DEF PartNext
<1> QED
  BY <1>1, <1>2

(***************************************************************************)
(* Rows of the part and its applications, of any number of requests and    *)
(* applications and quantities of any size, keep their types.              *)
(***************************************************************************)
THEOREM PartIsTyped == PartSpec => []PartTypeOK
<1>1. PartInv => PartTypeOK
  BY DEF PartInv
<1> QED
  BY <1>1, PartInitInv, PartNextInv, PTL DEF PartSpec

(***************************************************************************)
(* The stock of a part is what its transactions add up to, but for those   *)
(* that the requests in flight are about to book, unless the part was      *)
(* saved over another change, a request died between its saves, or two     *)
(* approved the same application.                                          *)
(***************************************************************************)
THEOREM PartStockIsBooked == PartSpec => []StockIsBooked
<1>1. PartInv => StockIsBooked
  BY DEF PartInv
<1> QED
  BY <1>1, PartInitInv, PartNextInv, PTL DEF PartSpec

-----------------------------------------------------------------------------
(***************************************************************************)
(* The sum of a day is that of its records, and the week is the sum of its *)
(* days, for any days, reports and requests.                               *)
(*                                                                         *)
(* HoursAreSummed speaks of days at which nobody is at work. The invariant *)
(* follows the one request that is: what it has read of the records adds   *)
(* up, or what the summary says does, depending on how far it has come     *)
(* (DayIsSettled); and the nightly run and that of the week never overlap  *)
(* (OneNightly).                                                           *)
(***************************************************************************)

Worked == {r \in Reports : HoursOf[r] > 0}

InsertHourJobs == [op : {"report"}, stage : {"insert"}, report : Worked, day : Days]
SumHourJobs == [op : {"report", "nightly"}, stage : {"sum", "none"}, day : Days]
SplitHourJobs == [op : {"report", "nightly"}, stage : {"split"}, day : Days, total : Nat]
WriteHourJobs == [op : {"report", "nightly"}, stage : {"write"}, day : Days, sum : Summary]
DayJobs == InsertHourJobs \cup SumHourJobs \cup SplitHourJobs \cup WriteHourJobs
ReadWeekJobs == [op : {"week"}, stage : {"read"}]
WriteWeekJobs == [op : {"week"}, stage : {"write"}, sum : Summary]
WeekJobs == ReadWeekJobs \cup WriteWeekJobs
HourJobs == DayJobs \cup WeekJobs \cup {NoJob}

\* A report is inserted for its own day.
DayIsOfReport ==
  \A c \in Clients : At(c, "report", "insert") => DayOf[job[c].report] = job[c].day

\* Request j, alone at work on a day with total t in its summary and records
\* that add up to s, relies on t where it may leave it, or has taken s.
Relies(j, t, s) ==
  /\ j.stage \in {"insert", "none"} => t = s
  /\ j.stage = "split" => j.total = s
  /\ j.stage = "write" => j.sum.total = s

DayIsSettled(d) ==
  /\ \A c, e \in Clients : OnDay(c, d) /\ OnDay(e, d) => c = e
  /\ (\A c \in Clients : ~OnDay(c, d)) => daySum[d].total = SumOf(d)
  /\ \A c \in Clients : OnDay(c, d) => Relies(job[c], daySum[d].total, SumOf(d))

\* The cron does not start a run before the last one has ended.
OneNightly ==
  \A c, e \in Clients :
    job[c].op \in {"nightly", "week"} /\ job[e].op \in {"nightly", "week"} => c = e

DaysAreSettled == \A d \in Days \ unsettled : DayIsSettled(d)

WeekIsSettled ==
  ~weekOpen =>
    /\ (\A c \in Clients : job[c].op # "week") => weekSum = Total(daySum)
    /\ \A c \in Clients : At(c, "week", "write") => job[c].sum = Total(daySum)

HourInv ==
  /\ HourTypeOK
  /\ record \subseteq Worked
  /\ job \in [Clients -> HourJobs]
  /\ DayIsOfReport /\ OneNightly /\ DaysAreSettled /\ WeekIsSettled

-----------------------------------------------------------------------------
(* The sums are sums of hours *)

LEMMA SumOfIsNat ==
  ASSUME NEW S, S \subseteq Worked PROVE SumFunctionOnSet(HoursOf, S) \in Nat
<1>1. IsFiniteSet(S) /\ \A r \in S : HoursOf[r] \in Nat
  BY WorkedAssumption, HoursOfAssumption, FS_Subset DEF Worked
<1> QED
  BY <1>1, SumIsNat

LEMMA TotalIsSummary ==
  ASSUME NEW f \in [Days -> Summary] PROVE Total(f) \in Summary
<1> DEFINE g == [d \in Days |-> f[d].total]
           h == [d \in Days |-> f[d].overtime]
<1>1. g \in [Days -> Nat] /\ h \in [Days -> Nat]
  BY DEF Summary
<1> HIDE DEF g, h
<1>2. g \in [Days -> Int] /\ h \in [Days -> Int]
  BY <1>1
<1>3. \A d \in Days : g[d] \in Nat /\ h[d] \in Nat
  BY <1>1
<1>4. SumFunctionOnSet(g, Days) \in Nat /\ SumFunctionOnSet(h, Days) \in Nat
  BY <1>3, WorkedAssumption, SumIsNat
<1>5. SumFunction(g) \in Nat /\ SumFunction(h) \in Nat
  BY <1>2, <1>4, WorkedAssumption, SumOfFunction
<1> QED
  BY <1>5 DEF Total, Summary, g, h

LEMMA HourInitInv == ReqInit /\ HourInit => HourInv
<1> SUFFICES ASSUME ReqInit, HourInit PROVE HourInv
  OBVIOUS
<1>1. /\ job = [c \in Clients |-> NoJob] /\ NoJob \in HourJobs
      /\ daySum = [d \in Days |-> NoHours] /\ weekSum = NoHours
      /\ NoHours \in Summary /\ NoHours = [total |-> 0, overtime |-> 0]
      /\ record = {}
  BY DEF ReqInit, HourInit, HourJobs, NoHours, Summary
<1>2. HourTypeOK
  <2>1. daySum \in [Days -> Summary]
    BY <1>1
  <2>2. weekOpen \in BOOLEAN
    BY Zenon DEF HourInit
  <2> QED
    BY <1>1, <2>1, <2>2 DEF HourInit, HourTypeOK
<1>3. \A c \in Clients : job[c].op = "none"
  BY <1>1 DEF NoJob
<1>4. \A d \in Days : SumOf(d) = 0
  <2> SUFFICES ASSUME NEW d \in Days PROVE SumOf(d) = 0
    OBVIOUS
  <2>1. {r \in record : DayOf[r] = d} = {}
    BY <1>1
  <2> QED
    BY <2>1, SumOfNone DEF SumOf
<1>5. DayIsOfReport /\ OneNightly /\ DaysAreSettled
  BY <1>1, <1>3, <1>4 DEF DayIsOfReport, OneNightly, At, DaysAreSettled, DayIsSettled, OnDay
<1>6. Total(daySum) = NoHours
  <2> DEFINE g == [d \in Days |-> daySum[d].total]
             h == [d \in Days |-> daySum[d].overtime]
  <2>1. /\ g \in [Days -> Int] /\ h \in [Days -> Int]
        /\ \A d \in Days : g[d] = 0 /\ h[d] = 0
    BY <1>1
  <2> HIDE DEF g, h
  <2>2. SumFunction(g) = 0 /\ SumFunction(h) = 0
    BY <2>1, WorkedAssumption, SumOfZeros
  <2> QED
    BY <1>1, <2>2 DEF Total, g, h
<1>7. WeekIsSettled
  BY <1>1, <1>3, <1>6 DEF WeekIsSettled, At
<1> QED
  BY <1>1, <1>2, <1>5, <1>7 DEF HourInv, Worked

-----------------------------------------------------------------------------
(* The steps *)

\* The request is at work on day d.
Works(j, d) == j.op \in {"report", "nightly"} /\ j.day = d

LEMMA JobsOfHours ==
  /\ \A j \in DayJobs : /\ j.op \in {"report", "nightly"} /\ j.day \in Days
                        /\ j.stage \in {"insert", "sum", "none", "split", "write"}
  /\ \A j \in WeekJobs : j.op = "week" /\ j.stage \in {"read", "write"}
  /\ NoJob.op = "none"
BY DEF DayJobs, InsertHourJobs, SumHourJobs, SplitHourJobs, WriteHourJobs, WeekJobs,
       ReadWeekJobs, WriteWeekJobs, NoJob

\* The step of a client leaves a day alone that it is not at work on.
LEMMA DayStays ==
  ASSUME NEW d \in Days, DayIsSettled(d), job \in [Clients -> HourJobs],
         NEW c \in Clients, NEW j, job' = [job EXCEPT ![c] = j],
         ~Works(job[c], d), ~Works(j, d), daySum'[d] = daySum[d], SumOf(d)' = SumOf(d)
  PROVE  DayIsSettled(d)'
<1>1. job'[c] = j /\ \A e \in Clients \ {c} : job'[e] = job[e]
  OBVIOUS
<1>2. \A e \in Clients : Works(job'[e], d) => e # c /\ job'[e] = job[e]
  BY <1>1
<1>3. \A e \in Clients : Works(job[e], d) => e # c /\ job'[e] = job[e]
  BY <1>1
<1> HIDE DEF Works
<1>4. \A e \in Clients : /\ OnDay(e, d)' <=> Works(job'[e], d)
                         /\ OnDay(e, d) <=> Works(job[e], d)
  BY DEF OnDay, Works
<1> QED
  BY <1>2, <1>3, <1>4 DEF DayIsSettled, Relies

\* Client c, alone at work on day d, goes on with j.
LEMMA DayGoesOn ==
  ASSUME NEW d \in Days, job \in [Clients -> HourJobs],
         NEW c \in Clients, NEW j, job' = [job EXCEPT ![c] = j],
         \A e \in Clients \ {c} : ~OnDay(e, d),
         Works(j, d) => Relies(j, daySum'[d].total, SumOf(d)'),
         ~Works(j, d) => daySum'[d].total = SumOf(d)'
  PROVE  DayIsSettled(d)'
<1>1. job'[c] = j /\ \A e \in Clients \ {c} : job'[e] = job[e]
  OBVIOUS
<1>2. \A e \in Clients : /\ OnDay(e, d)' <=> Works(job'[e], d)
                         /\ OnDay(e, d) <=> Works(job[e], d)
  BY DEF OnDay, Works
<1> HIDE DEF Works
<1>3. \A e \in Clients : OnDay(e, d)' => e = c
  BY <1>1, <1>2
<1>4. OnDay(c, d)' <=> Works(j, d)
  BY <1>1, <1>2
<1>5. CASE Works(j, d)
  BY <1>1, <1>3, <1>4, <1>5 DEF DayIsSettled, Relies
<1>6. CASE ~Works(j, d)
  BY <1>1, <1>3, <1>4, <1>6 DEF DayIsSettled
<1> QED
  BY <1>5, <1>6

\* The parts of the invariant that are not about sums of days
LEMMA HourTypesStay ==
  ASSUME HourInv, NEW c \in Clients, NEW j \in HourJobs, job' = [job EXCEPT ![c] = j],
         record' \subseteq Worked, planned' \subseteq Days,
         daySum' \in [Days -> Summary], weekSum' \in Summary,
         unsettled' \subseteq Days, weekOpen' \in BOOLEAN,
         j.op = "report" /\ j.stage = "insert" => DayOf[j.report] = j.day,
         j.op \in {"nightly", "week"} =>
           \/ job[c].op \in {"nightly", "week"}
           \/ \A e \in Clients : job[e].op \notin {"nightly", "week"},
         ~weekOpen' => /\ daySum' = daySum
                       /\ \/ ~weekOpen /\ weekSum' = weekSum
                             /\ (job[c].op = "week" => j.op = "week")
                          \/ ~weekOpen /\ weekSum' = Total(daySum)
                          \/ j.op = "week" /\ weekSum' = weekSum
                             /\ \A e \in Clients \ {c} : job[e].op # "week"
                       /\ j.op = "week" /\ j.stage = "write" => j.sum = Total(daySum),
         DaysAreSettled'
  PROVE  HourInv'
<1>1. /\ job' \in [Clients -> HourJobs]
      /\ job'[c] = j /\ \A e \in Clients \ {c} : job'[e] = job[e]
  BY DEF HourInv
<1>2. HourTypeOK'
  <2>1. record' \subseteq Reports
    BY DEF Worked
  <2> QED
    BY <2>1, Zenon DEF HourTypeOK
<1>3. DayIsOfReport'
  BY <1>1 DEF HourInv, DayIsOfReport, At
<1>o. OneNightly'
  BY <1>1 DEF HourInv, OneNightly
<1>4. WeekIsSettled'
  <2> SUFFICES ASSUME ~weekOpen'
               PROVE  /\ (\A e \in Clients : job'[e].op # "week") => weekSum' = Total(daySum)
                      /\ \A e \in Clients : job'[e].op = "week" /\ job'[e].stage = "write"
                                             => job'[e].sum = Total(daySum)
    BY DEF WeekIsSettled, At
  <2>1. CASE ~weekOpen
    <3>1. /\ (\A e \in Clients : job[e].op # "week") => weekSum = Total(daySum)
          /\ \A e \in Clients : job[e].op = "week" /\ job[e].stage = "write"
                                   => job[e].sum = Total(daySum)
      BY <2>1 DEF HourInv, WeekIsSettled, At
    <3> QED
      BY <1>1, <3>1
  <2>2. CASE weekOpen
    BY <1>1, <2>2
  <2> QED
    BY <2>1, <2>2
<1> QED
  BY <1>1, <1>2, <1>3, <1>4, <1>o DEF HourInv

LEMMA OnDayIsWorks ==
  ASSUME NEW c \in Clients, NEW d PROVE OnDay(c, d) <=> Works(job[c], d)
BY DEF OnDay, Works

LEMMA NoHourJob ==
  /\ NoJob \in HourJobs /\ NoJob.op = "none" /\ \A d : ~Works(NoJob, d)
BY DEF NoJob, HourJobs, Works

\* A request joins those at work on day dd with job j.
LEMMA HourJoins ==
  ASSUME HourInv, NEW c \in Clients, NEW j \in HourJobs, job[c] = NoJob,
         job' = [job EXCEPT ![c] = j], NEW dd \in Days, Join(dd),
         UNCHANGED <<record, daySum>>,
         j.op \in {"report", "nightly"}, j.day = dd,
         j.stage \in {"insert", "sum", "none"}
  PROVE  DaysAreSettled'
<1>1. unsettled \subseteq unsettled'
  BY DEF Join
<1>2. \A d \in Days : SumOf(d)' = SumOf(d) /\ daySum'[d] = daySum[d]
  BY DEF SumOf
<1> SUFFICES ASSUME NEW d \in Days \ unsettled' PROVE DayIsSettled(d)'
  BY DEF DaysAreSettled
<1>3. DayIsSettled(d)
  BY <1>1 DEF HourInv, DaysAreSettled
<1>4. CASE d # dd
  <2>1. ~Works(job[c], d) /\ ~Works(j, d)
    BY <1>4, NoHourJob DEF Works
  <2> QED
    BY <1>2, <1>3, <2>1, DayStays DEF HourInv
<1>5. CASE d = dd
  <2>1. \A e \in Clients : ~OnDay(e, d)
    BY <1>5 DEF Join
  <2>2. daySum[d].total = SumOf(d)
    BY <1>3, <2>1 DEF DayIsSettled
  <2>3. Relies(j, daySum'[d].total, SumOf(d)')
    BY <1>2, <2>2 DEF Relies
  <2>4. Works(j, d)
    BY <1>5 DEF Works
  <2> QED
    BY <2>1, <2>3, <2>4, DayGoesOn DEF HourInv
<1> QED
  BY <1>4, <1>5

LEMMA DeliverReportKeeps ==
  ASSUME HourInv, NEW c \in Clients, NEW r \in Reports, DeliverReport(c, r) PROVE HourInv'
<1> DEFINE j == [op |-> "report", stage |-> "insert", report |-> r, day |-> DayOf[r]]
<1>1. /\ job[c] = NoJob /\ job' = [job EXCEPT ![c] = j] /\ Join(DayOf[r])
      /\ UNCHANGED <<record, planned, daySum, weekSum, weekOpen>>
      /\ DayOf[r] \in Days /\ r \in Worked
  BY DayOfAssumption DEF DeliverReport, Accept, hourDocs, Worked
<1>2. /\ j \in HourJobs /\ j.op = "report" /\ j.stage = "insert" /\ j.day = DayOf[r]
      /\ DayOf[j.report] = j.day
  BY <1>1 DEF HourJobs, DayJobs, InsertHourJobs
<1> HIDE DEF j
<1>3. /\ record' \subseteq Worked /\ planned' \subseteq Days
      /\ daySum' \in [Days -> Summary] /\ weekSum' \in Summary
      /\ unsettled' \subseteq Days
  BY <1>1 DEF HourInv, HourTypeOK, Join
<1>4. weekOpen' \in BOOLEAN
  BY <1>1, Zenon DEF HourInv, HourTypeOK
<1>5. DaysAreSettled'
  BY <1>1, <1>2, HourJoins
<1> QED
  BY <1>1, <1>2, <1>3, <1>4, <1>5, NoHourJob, HourTypesStay

LEMMA NightlyKeeps ==
  ASSUME HourInv, NEW c \in Clients, NEW d \in Days, Nightly(c, d) PROVE HourInv'
<1> DEFINE j == IF \E r \in record : DayOf[r] = d
                THEN [op |-> "nightly", stage |-> "sum", day |-> d]
                ELSE [op |-> "nightly", stage |-> "none", day |-> d]
<1>1. /\ job[c] = NoJob /\ job' = [job EXCEPT ![c] = j] /\ Join(d)
      /\ UNCHANGED <<record, planned, daySum, weekSum, weekOpen>>
      /\ \A e \in Clients : job[e].op \notin {"nightly", "week"}
  BY DEF Nightly, Accept, hourDocs
<1>2. /\ j \in HourJobs /\ j.op = "nightly" /\ j.stage \in {"sum", "none"} /\ j.day = d
  BY DEF HourJobs, DayJobs, SumHourJobs
<1> HIDE DEF j
<1>3. /\ record' \subseteq Worked /\ planned' \subseteq Days
      /\ daySum' \in [Days -> Summary] /\ weekSum' \in Summary
      /\ unsettled' \subseteq Days
  BY <1>1 DEF HourInv, HourTypeOK, Join
<1>4. weekOpen' \in BOOLEAN
  BY <1>1, Zenon DEF HourInv, HourTypeOK
<1>5. DaysAreSettled'
  BY <1>1, <1>2, HourJoins
<1> QED
  BY <1>1, <1>2, <1>3, <1>4, <1>5, NoHourJob, HourTypesStay

\* Client c, at work on day dd, goes on with j on that day or leaves it.
LEMMA DaysGoOn ==
  ASSUME HourInv, NEW c \in Clients, NEW j \in HourJobs, job' = [job EXCEPT ![c] = j],
         NEW dd \in Days, Works(job[c], dd), \A d \in Days : Works(j, d) => d = dd,
         \A d \in Days \ {dd} : daySum'[d] = daySum[d] /\ SumOf(d)' = SumOf(d),
         unsettled \ {dd} \subseteq unsettled',
         dd \notin unsettled' =>
           /\ \A e \in Clients \ {c} : ~OnDay(e, dd)
           /\ Works(j, dd) => Relies(j, daySum'[dd].total, SumOf(dd)')
           /\ ~Works(j, dd) => daySum'[dd].total = SumOf(dd)'
  PROVE  DaysAreSettled'
<1> SUFFICES ASSUME NEW d \in Days \ unsettled' PROVE DayIsSettled(d)'
  BY DEF DaysAreSettled
<1>1. CASE d # dd
  <2>1. DayIsSettled(d) /\ daySum'[d] = daySum[d] /\ SumOf(d)' = SumOf(d)
    BY <1>1 DEF HourInv, DaysAreSettled
  <2>2. ~Works(job[c], d) /\ ~Works(j, d)
    BY <1>1 DEF Works
  <2> QED
    BY <2>1, <2>2, DayStays DEF HourInv
<1>2. CASE d = dd
  BY <1>2, DayGoesOn DEF HourInv
<1> QED
  BY <1>1, <1>2

\* Of a day that is settled, what the request at work on it may rely on.
LEMMA WorksAlone ==
  ASSUME HourInv, NEW c \in Clients, NEW d \in Days \ unsettled, OnDay(c, d)
  PROVE  /\ \A e \in Clients \ {c} : ~OnDay(e, d)
         /\ Relies(job[c], daySum[d].total, SumOf(d))
BY DEF HourInv, DaysAreSettled, DayIsSettled

LEMMA InsertRecordKeeps ==
  ASSUME HourInv, NEW c \in Clients, InsertRecord(c) PROVE HourInv'
<1>0. PICK dd : dd = job[c].day
  OBVIOUS
<1> DEFINE r == job[c].report
           k == [op |-> "report", stage |-> "sum", day |-> dd]
           j == IF r \in record THEN NoJob ELSE k
<1>1. /\ job[c].op = "report" /\ job[c].stage = "insert"
      /\ job' = [job EXCEPT ![c] = j] /\ record' = record \cup {r}
      /\ UNCHANGED <<planned, daySum, weekSum, unsettled, weekOpen>>
  BY <1>0 DEF InsertRecord, At, Reply, Continue
<1>2. r \in Worked /\ dd \in Days /\ DayOf[r] = dd
  BY <1>0, <1>1 DEF HourInv, HourJobs, DayJobs, InsertHourJobs, SumHourJobs, SplitHourJobs,
     WriteHourJobs, WeekJobs, ReadWeekJobs, WriteWeekJobs, NoJob, DayIsOfReport, At
<1>3. k \in HourJobs /\ j \in HourJobs
  BY <1>2, NoHourJob DEF HourJobs, DayJobs, SumHourJobs
<1>4. /\ (j.op = "report" /\ j.stage # "insert") \/ j.op = "none"
      /\ r \in record => j = NoJob
      /\ r \notin record => Works(j, dd) /\ j.stage = "sum"
      /\ \A d \in Days : Works(j, d) => d = dd
  BY NoHourJob DEF Works
<1> HIDE DEF j, k
<1>5. /\ record' \subseteq Worked /\ planned' \subseteq Days
      /\ daySum' \in [Days -> Summary] /\ weekSum' \in Summary
      /\ unsettled' \subseteq Days
  BY <1>1, <1>2 DEF HourInv, HourTypeOK
<1>6. weekOpen' \in BOOLEAN
  BY <1>1, Zenon DEF HourInv, HourTypeOK
<1>7. \A d \in Days \ {dd} : daySum'[d] = daySum[d] /\ SumOf(d)' = SumOf(d)
  <2> SUFFICES ASSUME NEW d \in Days \ {dd} PROVE SumOf(d)' = SumOf(d)
    BY <1>1
  <2>1. {x \in record' : DayOf[x] = d} = {x \in record : DayOf[x] = d}
    BY <1>1, <1>2
  <2> QED
    BY <2>1 DEF SumOf
<1>8. Works(job[c], dd) /\ OnDay(c, dd)
  BY <1>0, <1>1 DEF Works, OnDay
<1>9. dd \notin unsettled' =>
        /\ \A e \in Clients \ {c} : ~OnDay(e, dd)
        /\ Works(j, dd) => Relies(j, daySum'[dd].total, SumOf(dd)')
        /\ ~Works(j, dd) => daySum'[dd].total = SumOf(dd)'
  <2> SUFFICES ASSUME dd \notin unsettled'
               PROVE  /\ \A e \in Clients \ {c} : ~OnDay(e, dd)
                      /\ Works(j, dd) => Relies(j, daySum'[dd].total, SumOf(dd)')
                      /\ ~Works(j, dd) => daySum'[dd].total = SumOf(dd)'
    OBVIOUS
  <2>1. /\ \A e \in Clients \ {c} : ~OnDay(e, dd)
        /\ daySum[dd].total = SumOf(dd)
    BY <1>1, <1>2, <1>8, WorksAlone DEF Relies
  <2>2. CASE r \in record
    <3>1. SumOf(dd)' = SumOf(dd)
      <4>1. record' = record
        BY <1>1, <2>2
      <4> QED
        BY <4>1 DEF SumOf
    <3> QED
      BY <1>1, <1>4, <2>1, <2>2, <3>1, NoHourJob
  <2>3. CASE r \notin record
    BY <1>4, <2>1, <2>3 DEF Relies
  <2> QED
    BY <2>2, <2>3
<1>10. DaysAreSettled'
  BY ZenonT(60), <1>1, <1>2, <1>3, <1>4, <1>7, <1>8, <1>9, DaysGoOn
<1> QED
  BY <1>1, <1>3, <1>4, <1>5, <1>6, <1>10, HourTypesStay

LEMMA SumDayKeeps ==
  ASSUME HourInv, NEW c \in Clients, SumDay(c) PROVE HourInv'
<1>0. PICK dd : dd = job[c].day
  OBVIOUS
<1> DEFINE j == [op |-> job[c].op, stage |-> "split", day |-> dd, total |-> SumOf(dd)]
<1>1. /\ job[c].op # "none" /\ job[c].stage = "sum"
      /\ job' = [job EXCEPT ![c] = j]
      /\ UNCHANGED <<record, planned, daySum, weekSum, weekOpen>>
      /\ unsettled' = IF \E e \in Clients \ {c} : OnDay(e, dd) THEN unsettled
                      ELSE unsettled \ {dd}
  BY <1>0 DEF SumDay, Continue, hourDocs
<1>2. job[c].op \in {"report", "nightly"} /\ dd \in Days
  <2>1. job[c] \in HourJobs
    BY DEF HourInv
  <2> QED
    BY <1>0, <1>1, <2>1, JobsOfHours DEF HourJobs
<1>3. SumOf(dd) \in Nat
  <2>1. {r \in record : DayOf[r] = dd} \subseteq Worked
    BY DEF HourInv
  <2> QED
    BY <2>1, SumOfIsNat DEF SumOf
<1>4. /\ j \in HourJobs /\ j.stage = "split" /\ j.op = job[c].op
      /\ Works(j, dd) /\ j.total = SumOf(dd)
      /\ \A d \in Days : Works(j, d) => d = dd
  BY <1>2, <1>3 DEF HourJobs, DayJobs, SplitHourJobs, Works
<1> HIDE DEF j
<1>5. /\ record' \subseteq Worked /\ planned' \subseteq Days
      /\ daySum' \in [Days -> Summary] /\ weekSum' \in Summary
      /\ unsettled' \subseteq Days
  BY <1>1 DEF HourInv, HourTypeOK
<1>6. weekOpen' \in BOOLEAN
  BY <1>1, Zenon DEF HourInv, HourTypeOK
<1>7. \A d \in Days : daySum'[d] = daySum[d] /\ SumOf(d)' = SumOf(d)
  BY <1>1 DEF SumOf
<1>8. Works(job[c], dd) /\ OnDay(c, dd)
  BY <1>0, <1>2 DEF Works, OnDay
<1>9. dd \notin unsettled' => \A e \in Clients \ {c} : ~OnDay(e, dd)
  BY <1>1, <1>2, <1>8, WorksAlone
<1>10. Relies(j, daySum'[dd].total, SumOf(dd)')
  BY <1>2, <1>4, <1>7 DEF Relies
<1>11. DaysAreSettled'
  BY <1>1, <1>2, <1>4, <1>7, <1>8, <1>9, <1>10, DaysGoOn
<1> QED
  BY <1>1, <1>2, <1>4, <1>5, <1>6, <1>11, HourTypesStay

LEMMA SplitDayKeeps ==
  ASSUME HourInv, NEW c \in Clients, SplitDay(c) PROVE HourInv'
<1>0. PICK dd : dd = job[c].day
  OBVIOUS
<1> DEFINE sum == Split(job[c].total, dd)
           j == [op |-> job[c].op, stage |-> "write", day |-> dd, sum |-> sum]
<1>1. /\ job[c].op # "none" /\ job[c].stage = "split"
      /\ job' = [job EXCEPT ![c] = j]
      /\ UNCHANGED <<record, planned, daySum, weekSum, weekOpen, unsettled>>
  BY <1>0 DEF SplitDay, Continue, hourData, hourDocs
<1>2. job[c].op \in {"report", "nightly"} /\ dd \in Days /\ job[c].total \in Nat
  <2>1. job[c] \in HourJobs
    BY DEF HourInv
  <2>2. job[c] \in SplitHourJobs
    BY <1>1, <2>1 DEF HourJobs, DayJobs, InsertHourJobs, SumHourJobs, WriteHourJobs,
       WeekJobs, ReadWeekJobs, WriteWeekJobs, NoJob
  <2> QED
    BY <1>0, <2>2 DEF SplitHourJobs
<1>3. sum \in Summary /\ sum.total = job[c].total
  BY <1>2, ShiftAssumption DEF Split, Summary
<1>4. /\ j \in HourJobs /\ j.stage = "write" /\ j.op = job[c].op
      /\ Works(j, dd) /\ j.sum = sum
      /\ \A d \in Days : Works(j, d) => d = dd
  BY <1>2, <1>3 DEF HourJobs, DayJobs, WriteHourJobs, Works
<1> HIDE DEF j, sum
<1>5. /\ record' \subseteq Worked /\ planned' \subseteq Days
      /\ daySum' \in [Days -> Summary] /\ weekSum' \in Summary
      /\ unsettled' \subseteq Days
  BY <1>1 DEF HourInv, HourTypeOK
<1>6. weekOpen' \in BOOLEAN
  BY <1>1, Zenon DEF HourInv, HourTypeOK
<1>7. \A d \in Days : daySum'[d] = daySum[d] /\ SumOf(d)' = SumOf(d)
  BY <1>1 DEF SumOf
<1>8. Works(job[c], dd) /\ OnDay(c, dd)
  BY <1>0, <1>2 DEF Works, OnDay
<1>9. dd \notin unsettled' => /\ \A e \in Clients \ {c} : ~OnDay(e, dd)
                             /\ Relies(j, daySum'[dd].total, SumOf(dd)')
  <2> SUFFICES ASSUME dd \notin unsettled'
               PROVE  /\ \A e \in Clients \ {c} : ~OnDay(e, dd)
                      /\ Relies(j, daySum'[dd].total, SumOf(dd)')
    OBVIOUS
  <2>1. /\ \A e \in Clients \ {c} : ~OnDay(e, dd)
        /\ job[c].total = SumOf(dd)
    BY <1>1, <1>2, <1>8, WorksAlone DEF Relies
  <2> QED
    BY <1>2, <1>3, <1>4, <1>7, <2>1 DEF Relies
<1>10. DaysAreSettled'
  BY <1>1, <1>2, <1>4, <1>7, <1>8, <1>9, DaysGoOn
<1> QED
  BY <1>1, <1>2, <1>4, <1>5, <1>6, <1>10, HourTypesStay

\* A request that is done with its day ends, or goes on to the week.
LEMMA DayIsLeft ==
  ASSUME HourInv, NEW c \in Clients, AfterDay(c)
  PROVE  \E j \in HourJobs :
           /\ job' = [job EXCEPT ![c] = j]
           /\ j.op \in {"none", "week"} /\ (j.op = "week" => j.stage = "read")
           /\ j.op = "week" => job[c].op = "nightly"
           /\ \A d \in Days : ~Works(j, d)
<1>1. CASE job[c].op = "nightly" /\ job[c].day = Sunday
  <2> DEFINE j == [op |-> "week", stage |-> "read"]
  <2>1. j \in HourJobs /\ \A d \in Days : ~Works(j, d)
    BY DEF HourJobs, WeekJobs, ReadWeekJobs, Works
  <2>2. job' = [job EXCEPT ![c] = j] /\ j.op = "week" /\ j.stage = "read"
    BY <1>1 DEF AfterDay, Continue
  <2> HIDE DEF j
  <2> QED
    BY <1>1, <2>1, <2>2
<1>2. CASE ~(job[c].op = "nightly" /\ job[c].day = Sunday)
  <2>1. job' = [job EXCEPT ![c] = NoJob]
    BY <1>2 DEF AfterDay, Reply, Continue
  <2> QED
    BY <2>1, NoHourJob
<1> QED
  BY <1>1, <1>2

LEMMA WriteDayKeeps ==
  ASSUME HourInv, NEW c \in Clients, WriteDay(c) PROVE HourInv'
<1>0. PICK dd : dd = job[c].day
  OBVIOUS
<1>1. /\ job[c].op # "none" /\ job[c].op # "week" /\ job[c].stage = "write"
      /\ daySum' = [daySum EXCEPT ![dd] = job[c].sum] /\ weekOpen' = TRUE
      /\ UNCHANGED <<record, planned, weekSum, unsettled>>
  BY <1>0 DEF WriteDay
<1>2. job[c].op \in {"report", "nightly"} /\ dd \in Days /\ job[c].sum \in Summary
  <2>1. job[c] \in HourJobs
    BY DEF HourInv
  <2>2. job[c] \in WriteHourJobs
    BY <1>1, <2>1 DEF HourJobs, DayJobs, InsertHourJobs, SumHourJobs, SplitHourJobs,
       WeekJobs, ReadWeekJobs, WriteWeekJobs, NoJob
  <2> QED
    BY <1>0, <2>2 DEF WriteHourJobs
<1>3. PICK j \in HourJobs :
        /\ job' = [job EXCEPT ![c] = j]
        /\ j.op \in {"none", "week"} /\ (j.op = "week" => j.stage = "read")
        /\ j.op = "week" => job[c].op = "nightly"
        /\ \A d \in Days : ~Works(j, d)
  <2>1. AfterDay(c)
    BY DEF WriteDay
  <2> QED
    BY <2>1, DayIsLeft
<1>4. daySum \in [Days -> Summary]
  BY DEF HourInv, HourTypeOK
<1>5. /\ record' \subseteq Worked /\ planned' \subseteq Days
      /\ daySum' \in [Days -> Summary] /\ weekSum' \in Summary
      /\ unsettled' \subseteq Days
  BY <1>1, <1>2, <1>4 DEF HourInv, HourTypeOK
<1>6. weekOpen' \in BOOLEAN
  BY <1>1
<1>7. /\ \A d \in Days \ {dd} : daySum'[d] = daySum[d] /\ SumOf(d)' = SumOf(d)
      /\ daySum'[dd] = job[c].sum /\ SumOf(dd)' = SumOf(dd)
  BY <1>1, <1>2, <1>4 DEF SumOf
<1>8. Works(job[c], dd) /\ OnDay(c, dd)
  BY <1>0, <1>2 DEF Works, OnDay
<1>9. dd \notin unsettled' => /\ \A e \in Clients \ {c} : ~OnDay(e, dd)
                             /\ daySum'[dd].total = SumOf(dd)'
  <2> SUFFICES ASSUME dd \notin unsettled'
               PROVE  /\ \A e \in Clients \ {c} : ~OnDay(e, dd)
                      /\ daySum'[dd].total = SumOf(dd)'
    OBVIOUS
  <2>1. /\ \A e \in Clients \ {c} : ~OnDay(e, dd)
        /\ job[c].sum.total = SumOf(dd)
    BY <1>1, <1>2, <1>8, WorksAlone DEF Relies
  <2> QED
    BY <1>7, <2>1
<1>10. DaysAreSettled'
  BY <1>1, <1>2, <1>3, <1>7, <1>8, <1>9, DaysGoOn
<1> QED
  BY <1>1, <1>2, <1>3, <1>5, <1>6, <1>10, HourTypesStay

LEMMA NightlySkipsKeeps ==
  ASSUME HourInv, NEW c \in Clients, NightlySkips(c) PROVE HourInv'
<1>0. PICK dd : dd = job[c].day
  OBVIOUS
<1>1. /\ job[c].op = "nightly"
      /\ unsettled' = unsettled \cup (IF job[c].stage = "none" THEN {} ELSE {dd})
      /\ UNCHANGED <<record, planned, daySum, weekSum, weekOpen>>
  BY <1>0 DEF NightlySkips, hourDocs
<1>2. dd \in Days
  <2>1. job[c] \in HourJobs
    BY DEF HourInv
  <2> QED
    BY <1>0, <1>1, <2>1, JobsOfHours DEF HourJobs
<1>3. PICK j \in HourJobs :
        /\ job' = [job EXCEPT ![c] = j]
        /\ j.op \in {"none", "week"} /\ (j.op = "week" => j.stage = "read")
        /\ \A d \in Days : ~Works(j, d)
  <2>1. AfterDay(c)
    BY DEF NightlySkips
  <2> QED
    BY <2>1, DayIsLeft
<1>5. /\ record' \subseteq Worked /\ planned' \subseteq Days
      /\ daySum' \in [Days -> Summary] /\ weekSum' \in Summary
      /\ unsettled' \subseteq Days
  BY <1>1, <1>2 DEF HourInv, HourTypeOK
<1>6. weekOpen' \in BOOLEAN
  BY <1>1, Zenon DEF HourInv, HourTypeOK
<1>7. \A d \in Days : daySum'[d] = daySum[d] /\ SumOf(d)' = SumOf(d)
  BY <1>1 DEF SumOf
<1>8. Works(job[c], dd) /\ OnDay(c, dd)
  BY <1>0, <1>1 DEF Works, OnDay
<1>9. dd \notin unsettled' => /\ \A e \in Clients \ {c} : ~OnDay(e, dd)
                             /\ daySum'[dd].total = SumOf(dd)'
  <2> SUFFICES ASSUME dd \notin unsettled'
               PROVE  /\ \A e \in Clients \ {c} : ~OnDay(e, dd)
                      /\ daySum'[dd].total = SumOf(dd)'
    OBVIOUS
  <2>1. job[c].stage = "none" /\ dd \notin unsettled
    BY <1>1
  <2>2. /\ \A e \in Clients \ {c} : ~OnDay(e, dd)
        /\ daySum[dd].total = SumOf(dd)
    BY <1>2, <1>8, <2>1, WorksAlone DEF Relies
  <2> QED
    BY <1>2, <1>7, <2>2
<1>10. DaysAreSettled'
  BY <1>1, <1>2, <1>3, <1>7, <1>8, <1>9, DaysGoOn
<1> QED
  BY <1>1, <1>3, <1>5, <1>6, <1>10, HourTypesStay

\* A step of a request that is at work on no day
LEMMA NoDayMoves ==
  ASSUME HourInv, NEW c \in Clients, NEW j, job' = [job EXCEPT ![c] = j],
         \A d \in Days : ~Works(job[c], d) /\ ~Works(j, d),
         UNCHANGED <<record, daySum, unsettled>>
  PROVE  DaysAreSettled'
<1> SUFFICES ASSUME NEW d \in Days \ unsettled PROVE DayIsSettled(d)'
  BY DEF DaysAreSettled
<1>1. DayIsSettled(d) /\ daySum'[d] = daySum[d] /\ SumOf(d)' = SumOf(d)
  BY DEF HourInv, DaysAreSettled, SumOf
<1> QED
  BY <1>1, DayStays DEF HourInv

LEMMA SumWeekKeeps ==
  ASSUME HourInv, NEW c \in Clients, SumWeek(c) PROVE HourInv'
<1> DEFINE sum == Total(daySum)
           j == [op |-> "week", stage |-> "write", sum |-> sum]
<1>1. /\ job[c].op = "week" /\ job' = [job EXCEPT ![c] = j] /\ weekOpen' = FALSE
      /\ UNCHANGED <<record, planned, daySum, weekSum, unsettled>>
  BY DEF SumWeek, At, Continue, hourDocs
<1>2. sum \in Summary
  BY TotalIsSummary DEF HourInv, HourTypeOK
<1>3. /\ j \in HourJobs /\ j.op = "week" /\ j.stage = "write" /\ j.sum = sum
      /\ \A d \in Days : ~Works(job[c], d) /\ ~Works(j, d)
  BY <1>1, <1>2 DEF HourJobs, WeekJobs, WriteWeekJobs, Works
<1> HIDE DEF j
<1>5. /\ record' \subseteq Worked /\ planned' \subseteq Days
      /\ daySum' \in [Days -> Summary] /\ weekSum' \in Summary
      /\ unsettled' \subseteq Days /\ weekOpen' \in BOOLEAN
  BY <1>1 DEF HourInv, HourTypeOK
<1>6. \A e \in Clients \ {c} : job[e].op # "week"
  BY <1>1 DEF HourInv, OneNightly
<1>7. DaysAreSettled'
  BY <1>1, <1>3, NoDayMoves
<1> QED
  BY <1>1, <1>3, <1>5, <1>6, <1>7, HourTypesStay

LEMMA WriteWeekKeeps ==
  ASSUME HourInv, NEW c \in Clients, WriteWeek(c) PROVE HourInv'
<1>1. /\ job[c].op = "week" /\ job[c].stage = "write"
      /\ job' = [job EXCEPT ![c] = NoJob] /\ weekSum' = job[c].sum
      /\ UNCHANGED <<record, planned, daySum, unsettled, weekOpen>>
  BY DEF WriteWeek, At, Reply, Continue
<1>2. job[c].sum \in Summary
  <2>1. job[c] \in HourJobs
    BY DEF HourInv
  <2>2. job[c] \in WriteWeekJobs
    BY <1>1, <2>1, JobsOfHours DEF HourJobs, WeekJobs, ReadWeekJobs
  <2> QED
    BY <2>2 DEF WriteWeekJobs
<1>3. \A d \in Days : ~Works(job[c], d) /\ ~Works(NoJob, d)
  BY <1>1, NoHourJob DEF Works
<1>5. /\ record' \subseteq Worked /\ planned' \subseteq Days
      /\ daySum' \in [Days -> Summary] /\ weekSum' \in Summary
      /\ unsettled' \subseteq Days
  BY <1>1, <1>2 DEF HourInv, HourTypeOK
<1>6. weekOpen' \in BOOLEAN
  BY <1>1, Zenon DEF HourInv, HourTypeOK
<1>7. ~weekOpen => weekSum' = Total(daySum)
  BY <1>1 DEF HourInv, WeekIsSettled, At
<1>8. DaysAreSettled'
  BY <1>1, <1>3, NoDayMoves
<1> QED
  BY <1>1, <1>5, <1>6, <1>7, <1>8, NoHourJob, HourTypesStay

LEMMA HourDieKeeps ==
  ASSUME HourInv, NEW c \in Clients, HourDie(c) PROVE HourInv'
<1>0. PICK dd : dd = job[c].day
  OBVIOUS
<1>1. /\ job[c] # NoJob /\ job' = [job EXCEPT ![c] = NoJob]
      /\ unsettled' = IF job[c].op = "week" THEN unsettled ELSE unsettled \cup {dd}
      /\ weekOpen' = (weekOpen \/ job[c].op = "week")
      /\ UNCHANGED <<record, planned, daySum, weekSum>>
  BY <1>0 DEF HourDie, Reply, Continue, hourDocs
<1>2. job[c] \in DayJobs \/ job[c] \in WeekJobs
  BY <1>1 DEF HourInv, HourJobs
<1>3. weekOpen' \in BOOLEAN
  BY <1>1, Zenon DEF HourInv, HourTypeOK
<1>4. CASE job[c] \in DayJobs
  <2>1. job[c].op \in {"report", "nightly"} /\ dd \in Days
    BY <1>0, <1>4, JobsOfHours
  <2>2. /\ record' \subseteq Worked /\ planned' \subseteq Days
        /\ daySum' \in [Days -> Summary] /\ weekSum' \in Summary
        /\ unsettled' \subseteq Days /\ dd \in unsettled' /\ unsettled \subseteq unsettled'
        /\ ~weekOpen' => ~weekOpen
    BY <1>1, <2>1 DEF HourInv, HourTypeOK
  <2>3. Works(job[c], dd) /\ \A d \in Days : daySum'[d] = daySum[d] /\ SumOf(d)' = SumOf(d)
    BY <1>0, <1>1, <2>1 DEF Works, SumOf
  <2>4. DaysAreSettled'
    BY <1>1, <2>1, <2>2, <2>3, NoHourJob, DaysGoOn
  <2> QED
    BY <1>1, <1>3, <2>1, <2>2, <2>4, NoHourJob, HourTypesStay
<1>5. CASE job[c] \in WeekJobs
  <2>1. job[c].op = "week"
    BY <1>5, JobsOfHours
  <2>2. /\ record' \subseteq Worked /\ planned' \subseteq Days
        /\ daySum' \in [Days -> Summary] /\ weekSum' \in Summary
        /\ unsettled' \subseteq Days /\ weekOpen'
    BY <1>1, <2>1 DEF HourInv, HourTypeOK
  <2>3. \A d \in Days : ~Works(job[c], d) /\ ~Works(NoJob, d)
    BY <2>1, NoHourJob DEF Works
  <2>4. DaysAreSettled'
    BY <1>1, <2>1, <2>3, NoDayMoves
  <2> QED
    BY <1>1, <1>3, <2>2, <2>4, NoHourJob, HourTypesStay
<1> QED
  BY <1>2, <1>4, <1>5

\* Shifts are planned and removed.
LEMMA PlannedKeeps ==
  ASSUME HourInv, planned' \subseteq Days, job' = job,
         UNCHANGED <<record, daySum, weekSum, unsettled, weekOpen>>
  PROVE  HourInv'
<1>1. HourTypeOK' /\ record' \subseteq Worked /\ job' \in [Clients -> HourJobs]
  BY Zenon DEF HourInv, HourTypeOK
<1>2. DayIsOfReport' /\ OneNightly'
  BY DEF HourInv, DayIsOfReport, OneNightly, At
<1>3. DaysAreSettled'
  BY DEF HourInv, DaysAreSettled, DayIsSettled, OnDay, Relies, SumOf
<1>4. WeekIsSettled'
  BY DEF HourInv, WeekIsSettled, At
<1> QED
  BY <1>1, <1>2, <1>3, <1>4 DEF HourInv

LEMMA HourNextInv == HourInv /\ [HourNext]_hourVars => HourInv'
<1> SUFFICES ASSUME HourInv, [HourNext]_hourVars PROVE HourInv'
  OBVIOUS
<1>1. CASE UNCHANGED hourVars
  <2>1. /\ job' = job /\ planned' = planned
        /\ UNCHANGED <<record, daySum, weekSum, unsettled, weekOpen>>
    BY <1>1 DEF hourVars, hourData, hourDocs, reqVars
  <2> QED
    BY <2>1, PlannedKeeps DEF HourInv, HourTypeOK
<1>2. ASSUME NEW d \in Days, PlanShift(d) \/ RemoveShift(d) PROVE HourInv'
  <2>1. /\ job' = job /\ planned' \subseteq Days
        /\ UNCHANGED <<record, daySum, weekSum, unsettled, weekOpen>>
    BY <1>2 DEF PlanShift, RemoveShift, Once, HourInv, HourTypeOK
  <2> QED
    BY <2>1, PlannedKeeps
<1>3. CASE HourNext
  BY <1>2, <1>3, DeliverReportKeeps, InsertRecordKeeps, SumDayKeeps, SplitDayKeeps,
     WriteDayKeeps, NightlyKeeps, NightlySkipsKeeps, SumWeekKeeps, WriteWeekKeeps,
     HourDieKeeps
  DEF HourNext
<1> QED
  BY <1>1, <1>3

(***************************************************************************)
(* Records, shifts and sums keep their types: in particular no sum is      *)
(* negative, since a report with swapped times is not recorded.            *)
(***************************************************************************)
THEOREM HoursAreTyped == HourSpec => []HourTypeOK
<1>1. HourInv => HourTypeOK
  BY DEF HourInv
<1> QED
  BY <1>1, HourInitInv, HourNextInv, PTL DEF HourSpec

(***************************************************************************)
(* A sum of a day that was made alone is the sum of its records, and the   *)
(* week is the sum of its days, of any number of days, reports and         *)
(* requests.                                                               *)
(***************************************************************************)
THEOREM DaysAndWeekAddUp == HourSpec => []HoursAreSummed
<1>1. HourInv => HoursAreSummed
  BY DEF HourInv, HoursAreSummed, DaysAreSettled, DayIsSettled, WeekIsSettled, SumOf, Total
<1> QED
  BY <1>1, HourInitInv, HourNextInv, PTL DEF HourSpec

-----------------------------------------------------------------------------
(***************************************************************************)
(* Serials are unique and without gaps for any number of requests and of   *)
(* tries, and any serials an administrator writes.                         *)
(*                                                                         *)
(* The property is not inductive: the step that takes a serial needs to    *)
(* know that the serial of the rule has not fallen behind the one written  *)
(* by hand, and that what a request has read is a number.                  *)
(***************************************************************************)

Attempts == [op : {"number"}, stage : {"read", "write"}, attempt : Nat, seen : Nat]

NumInv ==
  /\ NumTypeOK
  /\ base <= serial
  /\ job \in [Clients -> Attempts \cup {NoJob}]
  /\ SerialsAreUnique

LEMMA AttemptIsOne ==
  ASSUME NEW n \in Nat, NEW s \in Nat, NEW stage \in {"read", "write"}
  PROVE  Attempt(n, stage, s) \in Attempts
BY DEF Attempt, Attempts

LEMMA JobStays ==
  ASSUME NEW c \in Clients, NEW j \in Attempts \cup {NoJob},
         job \in [Clients -> Attempts \cup {NoJob}],
         job' = [job EXCEPT ![c] = j]
  PROVE  job' \in [Clients -> Attempts \cup {NoJob}]
OBVIOUS

\* A request that waits to write, and what it has read.
LEMMA WaitingIsAttempt ==
  ASSUME NEW c \in Clients, NEW stage, At(c, "number", stage),
         job \in [Clients -> Attempts \cup {NoJob}]
  PROVE  job[c].seen \in Nat /\ job[c].attempt \in Nat
<1>1. job[c] # NoJob
  BY DEF At, NoJob
<1>2. job[c] \in Attempts
  BY <1>1
<1> QED
  BY <1>2 DEF Attempts

LEMMA InitHolds == ReqInit /\ NumInit => NumInv
BY DEF ReqInit, NumInit, NumInv, NumTypeOK, SerialsAreUnique

LEMMA IncrementKeepsInv ==
  ASSUME NumInv, NEW c \in Clients, IncrementSerial(c)
  PROVE  NumInv'
<1>1. serial \in Nat /\ base \in Nat /\ base <= serial
  BY DEF NumInv, NumTypeOK
<1>2. job[c].seen = serial
  BY DEF IncrementSerial, UnchangedSince
<1>3. /\ serial' = serial + 1
      /\ granted' = granted \cup {serial + 1}
      /\ repeated' = repeated \cup ({serial + 1} \cap granted)
      /\ base' = base
  BY <1>2 DEF IncrementSerial
<1>4. repeated = {} /\ granted = (base + 1)..serial
  BY DEF NumInv, SerialsAreUnique
<1>5. SerialsAreUnique'
  <2>1. repeated' = {}
    BY <1>1, <1>3, <1>4
  <2>2. granted' = (base' + 1)..serial'
    BY <1>1, <1>3, <1>4
  <2> QED
    BY <2>1, <2>2 DEF SerialsAreUnique
<1>6. NumTypeOK'
  BY <1>1, <1>3, <1>4, <1>5 DEF NumTypeOK, SerialsAreUnique
<1>7. base' <= serial'
  BY <1>1, <1>3
<1>8. job' \in [Clients -> Attempts \cup {NoJob}]
  BY JobStays DEF IncrementSerial, Reply, Continue, NumInv
<1> QED
  BY <1>5, <1>6, <1>7, <1>8 DEF NumInv

LEMMA EditKeepsInv ==
  ASSUME NumInv, NEW n \in Edits, EditRule(n)
  PROVE  NumInv'
<1>1. n \in Nat
  BY EditsAssumption
<1>2. /\ serial' = n /\ base' = n /\ granted' = {} /\ repeated' = {} /\ job' = job
  BY DEF EditRule, Once
<1>3. (n + 1)..n = {}
  BY <1>1
<1> QED
  BY <1>1, <1>2, <1>3 DEF NumInv, NumTypeOK, SerialsAreUnique

LEMMA NextKeepsInv == NumInv /\ [NumNext]_numVars => NumInv'
<1> SUFFICES ASSUME NumInv, [NumNext]_numVars PROVE NumInv'
  OBVIOUS
<1>1. \* A step that changes no data but the request of one client.
      ASSUME NEW c \in Clients, NEW j \in Attempts \cup {NoJob},
             job' = [job EXCEPT ![c] = j], UNCHANGED numData
      PROVE  NumInv'
  <2>1. job' \in [Clients -> Attempts \cup {NoJob}]
    BY <1>1, JobStays DEF NumInv
  <2>2. UNCHANGED <<serial, granted, repeated, base>>
    BY <1>1 DEF numData
  <2> QED
    BY <2>1, <2>2 DEF NumInv, NumTypeOK, SerialsAreUnique
<1>2. ASSUME NEW c \in Clients, Generate(c) PROVE NumInv'
  <2>1. Attempt(1, "read", 0) \in Attempts
    BY AttemptIsOne
  <2> QED
    BY <1>1, <1>2, <2>1 DEF Generate, Accept
<1>3. ASSUME NEW c \in Clients, ReadSerial(c) PROVE NumInv'
  <2>1. job[c].attempt \in Nat
    BY <1>3, WaitingIsAttempt DEF ReadSerial, NumInv
  <2>2. Attempt(job[c].attempt, "write", serial) \in Attempts
    BY <2>1, AttemptIsOne DEF NumInv, NumTypeOK
  <2> QED
    BY <1>1, <1>3, <2>2 DEF ReadSerial, Continue
<1>4. ASSUME NEW c \in Clients, IncrementSerial(c) PROVE NumInv'
  BY <1>4, IncrementKeepsInv
<1>5. ASSUME NEW c \in Clients, Conflict(c) PROVE NumInv'
  <2>1. job[c].attempt \in Nat
    BY <1>5, WaitingIsAttempt DEF Conflict, NumInv
  <2>2. Attempt(job[c].attempt + 1, "read", 0) \in Attempts
    BY <2>1, AttemptIsOne
  <2>3. CASE job[c].attempt < MaxRetries
    BY <1>1, <1>5, <2>2, <2>3 DEF Conflict, Continue
  <2>4. CASE ~(job[c].attempt < MaxRetries)
    BY <1>1, <1>5, <2>4 DEF Conflict, Reply, Continue
  <2> QED
    BY <2>3, <2>4
<1>6. ASSUME NEW c \in Clients, NumDie(c) PROVE NumInv'
  BY <1>1, <1>6 DEF NumDie, Reply, Continue
<1>7. ASSUME NEW n \in Edits, EditRule(n) PROVE NumInv'
  BY <1>7, EditKeepsInv
<1>8. CASE UNCHANGED numVars
  BY <1>8 DEF numVars, numData, reqVars, NumInv, NumTypeOK, SerialsAreUnique
<1> QED
  BY <1>2, <1>3, <1>4, <1>5, <1>6, <1>7, <1>8 DEF NumNext

(***************************************************************************)
(* The state of a rule keeps its type.                                     *)
(***************************************************************************)
THEOREM NumberingIsTyped == NumSpec => []NumTypeOK
<1>1. NumInv => NumTypeOK
  BY DEF NumInv
<1> QED
  BY InitHolds, NextKeepsInv, <1>1, PTL DEF NumSpec

(***************************************************************************)
(* No serial is handed out twice, and none is skipped: the update that     *)
(* compares is enough, however many requests overlap, retry or die, and    *)
(* whatever an administrator writes.                                       *)
(***************************************************************************)
THEOREM SerialsStayUnique == NumSpec => []SerialsAreUnique
<1>1. NumInv => SerialsAreUnique
  BY DEF NumInv
<1> QED
  BY InitHolds, NextKeepsInv, <1>1, PTL DEF NumSpec

-----------------------------------------------------------------------------
(***************************************************************************)
(* A recall finds all that is affected, for any number of requests, any    *)
(* productions and any depth.                                              *)
(*                                                                         *)
(* A search walks links between traces, what is due is told by what was    *)
(* consumed for what, over batches; both are walks of MaxDepth steps.  The *)
(* lemmas on walks (ReachSteps, ReachGrows, ReachStays) and BatchesReached *)
(* say when the two reach the same.  A queue is in the order of depth, and *)
(* a search that is at depth h has been at all within h - 1 steps, and has *)
(* the rest of h steps in its queue (AtLevel): DroppingKeeps and           *)
(* VisitingKeeps say that a turn of the loop keeps it so, SearchIsOver     *)
(* what it means for an empty queue.                                       *)
(*                                                                         *)
(* The invariant ties each request to the tables: what is left of a        *)
(* production was consumed for its output (TraceKnows), a search is right  *)
(* so far unless it was cut or disturbed (DirectionKnows), and what an     *)
(* assessment lists is locked, skipped, or still to be frozen              *)
(* (FreezeKnows).                                                          *)
(***************************************************************************)

\* What a relation leads to from x in n steps at most.
ReachIn(relation, x) ==
  LET reach[n \in Nat] ==
        IF n = 0 THEN {x}
        ELSE reach[n - 1] \cup {p[2] : p \in {q \in relation : q[1] \in reach[n - 1]}}
  IN reach

LEMMA WithinIsReach ==
  ASSUME NEW relation, NEW x
  PROVE  Within(relation, x) = ReachIn(relation, x)[MaxDepth]
BY DEF Within, ReachIn

\* The step of a walk, and the walks of n steps at most.
OneOn(relation, S) == {p[2] : p \in {q \in relation : q[1] \in S}}

NextReach(relation, x, f, m) ==
  IF m = 0 THEN {x} ELSE f[m - 1] \cup OneOn(relation, f[m - 1])

IsReach(relation, x, n, f) == f = [m \in 0..n |-> NextReach(relation, x, f, m)]

LEMMA ReachAt ==
  ASSUME NEW relation, NEW x, NEW n, NEW f, IsReach(relation, x, n, f)
  PROVE  \A m \in 0..n : f[m] = NextReach(relation, x, f, m)
BY DEF IsReach

LEMMA ReachUpTo ==
  ASSUME NEW relation, NEW x
  PROVE  \A n \in Nat : \E f : IsReach(relation, x, n, f)
<1> DEFINE Q == {n \in Nat : \E f : IsReach(relation, x, n, f)}
<1>1. 0 \in Q
  <2> DEFINE f == [m \in 0..0 |-> {x}]
  <2>1. f = [m \in 0..0 |-> NextReach(relation, x, f, m)]
    BY DEF NextReach
  <2>2. IsReach(relation, x, 0, f)
    BY <2>1 DEF IsReach
  <2> HIDE DEF f
  <2> QED
    BY <2>2
<1>2. ASSUME NEW n \in Nat, n \in Q PROVE n + 1 \in Q
  <2>1. PICK f : IsReach(relation, x, n, f)
    BY <1>2
  <2> DEFINE g == [m \in 0..(n + 1) |-> NextReach(relation, x, f, m)]
  <2>2. \A m \in 0..n : g[m] = f[m]
    BY <2>1, ReachAt
  <2>3. \A m \in 0..(n + 1) : m # 0 => m - 1 \in 0..n
    OBVIOUS
  <2>4. \A m \in 0..(n + 1) : g[m] = NextReach(relation, x, g, m)
    <3>1. \A m \in 0..(n + 1) : g[m] = NextReach(relation, x, f, m)
      OBVIOUS
    <3> HIDE DEF g
    <3> QED
      BY <2>2, <2>3, <3>1 DEF NextReach
  <2>5. g = [m \in 0..(n + 1) |-> g[m]]
    OBVIOUS
  <2> HIDE DEF g
  <2>6. IsReach(relation, x, n + 1, g)
    BY <2>4, <2>5 DEF IsReach
  <2> QED
    BY <2>6
<1> HIDE DEF Q
<1>3. Nat \subseteq Q
  BY <1>1, <1>2, NatSetInduction
<1> QED
  BY <1>3 DEF Q

\* Walks of different lengths agree as far as both go.
LEMMA ReachAgrees ==
  ASSUME NEW relation, NEW x, NEW n \in Nat, NEW k \in Nat, n <= k,
         NEW f, NEW g, IsReach(relation, x, n, f), IsReach(relation, x, k, g)
  PROVE  \A m \in 0..n : f[m] = g[m]
<1> DEFINE Q == {m \in Nat : m <= n => f[m] = g[m]}
<1>1. 0 \in Q
  <2>1. 0 \in 0..n /\ 0 \in 0..k
    OBVIOUS
  <2>2. /\ f[0] = NextReach(relation, x, f, 0)
        /\ g[0] = NextReach(relation, x, g, 0)
    BY <2>1, ReachAt
  <2>3. f[0] = {x} /\ g[0] = {x}
    BY <2>2 DEF NextReach
  <2> QED
    BY <2>3
<1>2. ASSUME NEW m \in Nat, m \in Q PROVE m + 1 \in Q
  <2> SUFFICES ASSUME m + 1 <= n PROVE f[m + 1] = g[m + 1]
    OBVIOUS
  <2>1. f[m] = g[m] /\ m + 1 \in 0..n /\ m + 1 \in 0..k /\ m + 1 # 0 /\ (m + 1) - 1 = m
    BY <1>2
  <2>2. /\ f[m + 1] = NextReach(relation, x, f, m + 1)
        /\ g[m + 1] = NextReach(relation, x, g, m + 1)
    BY <2>1, ReachAt
  <2> QED
    BY <2>1, <2>2 DEF NextReach
<1> HIDE DEF Q
<1>3. Nat \subseteq Q
  BY <1>1, <1>2, NatSetInduction
<1> QED
  BY <1>3 DEF Q

\* The walks of the model are what they say.
LEMMA ReachSteps ==
  ASSUME NEW relation, NEW x
  PROVE  /\ ReachIn(relation, x)[0] = {x}
         /\ \A n \in Nat : ReachIn(relation, x)[n + 1] =
              ReachIn(relation, x)[n] \cup OneOn(relation, ReachIn(relation, x)[n])
<1> DEFINE Up(n) == CHOOSE f : IsReach(relation, x, n, f)
           r == [n \in Nat |-> Up(n)[n]]
<1>1. \A n \in Nat : IsReach(relation, x, n, Up(n))
  BY ReachUpTo
<1> HIDE DEF Up
<1>2. ASSUME NEW n \in Nat, n # 0 PROVE r[n - 1] = Up(n)[n - 1]
  <2>1. n - 1 \in Nat /\ n - 1 <= n /\ n - 1 \in 0..(n - 1)
    BY <1>2
  <2>2. Up(n - 1)[n - 1] = Up(n)[n - 1]
    BY <1>1, <2>1, ReachAgrees
  <2> QED
    BY <2>1, <2>2
<1>3. \A n \in Nat : Up(n)[n] = NextReach(relation, x, Up(n), n)
  <2> TAKE n \in Nat
  <2>1. n \in 0..n
    OBVIOUS
  <2> QED
    BY <1>1, <2>1, ReachAt
<1>4. \A n \in Nat : r[n] = Up(n)[n]
  OBVIOUS
<1>5. r = [n \in Nat |-> r[n]]
  OBVIOUS
<1> HIDE DEF r
<1>6. \A n \in Nat : r[n] = NextReach(relation, x, r, n)
  BY <1>2, <1>3, <1>4 DEF NextReach
<1>7. r = [n \in Nat |-> NextReach(relation, x, r, n)]
  BY <1>5, <1>6
<1>8. PICK s : s = ReachIn(relation, x)
  OBVIOUS
<1>9. s = [n \in Nat |-> NextReach(relation, x, s, n)]
  BY <1>7, <1>8 DEF ReachIn, NextReach, OneOn
<1>10. s[0] = {x}
  BY <1>9 DEF NextReach
<1>11. ASSUME NEW n \in Nat PROVE s[n + 1] = s[n] \cup OneOn(relation, s[n])
  <2>1. n + 1 \in Nat /\ n + 1 # 0 /\ (n + 1) - 1 = n
    OBVIOUS
  <2>2. s[n + 1] = NextReach(relation, x, s, n + 1)
    BY <1>9, <2>1
  <2> QED
    BY <2>1, <2>2 DEF NextReach
<1> QED
  BY <1>8, <1>10, <1>11

\* u is one step of the walk from t.
LEMMA OneOnIs ==
  ASSUME NEW relation, NEW S, NEW u
  PROVE  u \in OneOn(relation, S) <=> \E q \in relation : q[1] \in S /\ q[2] = u
BY DEF OneOn

\* More steps lead further.
LEMMA ReachGrows ==
  ASSUME NEW relation, NEW x, NEW n \in Nat, NEW k \in Nat, n <= k
  PROVE  ReachIn(relation, x)[n] \subseteq ReachIn(relation, x)[k]
<1> DEFINE r == ReachIn(relation, x)
           Q == {m \in Nat : r[n] \subseteq r[n + m]}
<1>1. \A m \in Nat : r[m] \subseteq r[m + 1]
  BY ReachSteps
<1> HIDE DEF r
<1>2. 0 \in Q
  <2>1. n + 0 = n
    OBVIOUS
  <2> QED
    BY <2>1
<1>3. ASSUME NEW m \in Nat, m \in Q PROVE m + 1 \in Q
  <2>1. n + m \in Nat /\ n + (m + 1) = (n + m) + 1
    OBVIOUS
  <2> QED
    BY <1>1, <1>3, <2>1
<1> HIDE DEF Q
<1>4. Nat \subseteq Q
  BY <1>2, <1>3, NatSetInduction
<1>5. k - n \in Nat /\ n + (k - n) = k
  OBVIOUS
<1>6. k - n \in Q
  BY <1>4, <1>5
<1> QED
  BY <1>5, <1>6 DEF Q, r

\* What is closed under the relation is never left.
LEMMA ReachStays ==
  ASSUME NEW relation, NEW x, NEW S, x \in S,
         \A q \in relation : q[1] \in S => q[2] \in S
  PROVE  \A n \in Nat : ReachIn(relation, x)[n] \subseteq S
<1> DEFINE r == ReachIn(relation, x)
           Q == {n \in Nat : r[n] \subseteq S}
<1>1. 0 \in Q
  BY ReachSteps
<1>2. ASSUME NEW n \in Nat, n \in Q PROVE n + 1 \in Q
  <2>1. r[n + 1] = r[n] \cup OneOn(relation, r[n])
    BY ReachSteps
  <2> HIDE DEF r
  <2>2. OneOn(relation, r[n]) \subseteq S
    BY <1>2, OneOnIs
  <2> QED
    BY <1>2, <2>1, <2>2
<1> HIDE DEF Q
<1>3. Nat \subseteq Q
  BY <1>1, <1>2, NatSetInduction
<1> QED
  BY <1>3 DEF Q

\* Traces that stand for one batch each, linked for each consumption, are
\* reached in as many steps as their batches.
LEMMA BatchesReached ==
  ASSUME NEW D, NEW batch, NEW between, NEW used,
         \A l \in between : l[1] \in D /\ l[2] \in D /\ <<batch[l[1]], batch[l[2]]>> \in used,
         \A p \in used : \E l \in between : batch[l[1]] = p[1] /\ batch[l[2]] = p[2],
         \A t, u \in D : batch[t] = batch[u] => t = u,
         NEW t \in D
  PROVE  \A n \in Nat : \A u \in D :
           u \in ReachIn(between, t)[n] <=> batch[u] \in ReachIn(used, batch[t])[n]
<1> DEFINE r == ReachIn(between, t)
           s == ReachIn(used, batch[t])
           Q == {n \in Nat : \A u \in D : u \in r[n] <=> batch[u] \in s[n]}
<1>1. 0 \in Q
  <2>1. r[0] = {t} /\ s[0] = {batch[t]}
    BY ReachSteps
  <2> HIDE DEF r, s
  <2> QED
    BY <2>1
<1>2. ASSUME NEW n \in Nat, n \in Q PROVE n + 1 \in Q
  <2>1. r[n + 1] = r[n] \cup OneOn(between, r[n]) /\ s[n + 1] = s[n] \cup OneOn(used, s[n])
    BY ReachSteps
  <2>2. r[n] \subseteq D
    BY ReachStays
  <2> HIDE DEF r, s
  <2>9. \A u \in D : u \in r[n] <=> batch[u] \in s[n]
    BY <1>2
  <2>3. ASSUME NEW u \in D, u \in OneOn(between, r[n]) PROVE batch[u] \in OneOn(used, s[n])
    <3>1. PICK l \in between : l[1] \in r[n] /\ l[2] = u
      BY <2>3, OneOnIs
    <3>2. <<batch[l[1]], batch[u]>> \in used /\ batch[l[1]] \in s[n]
      BY <1>2, <3>1
    <3>3. PICK p : p = <<batch[l[1]], batch[u]>>
      OBVIOUS
    <3>4. p \in used /\ p[1] \in s[n] /\ p[2] = batch[u]
      BY <3>2, <3>3
    <3> QED
      BY <3>4, OneOnIs
  <2>4. ASSUME NEW u \in D, batch[u] \in OneOn(used, s[n]) PROVE u \in OneOn(between, r[n])
    <3>1. PICK p \in used : p[1] \in s[n] /\ p[2] = batch[u]
      BY <2>4, OneOnIs
    <3>2. PICK l \in between : batch[l[1]] = p[1] /\ batch[l[2]] = p[2]
      OBVIOUS
    <3>3. l[1] \in D /\ l[2] \in D
      OBVIOUS
    <3>4. l[2] = u
      BY <3>1, <3>2, <3>3
    <3>5. l[1] \in r[n]
      BY <2>9, <3>1, <3>2, <3>3
    <3> QED
      BY <3>4, <3>5, OneOnIs
  <2>6. \A u \in D : u \in r[n + 1] <=> batch[u] \in s[n + 1]
    BY <2>1, <2>3, <2>4, <2>9
  <2> QED
    BY <2>6
<1> HIDE DEF Q
<1>3. Nat \subseteq Q
  BY <1>1, <1>2, NatSetInduction
<1> QED
  BY <1>3 DEF Q

-----------------------------------------------------------------------------
(* Breadth first *)

\* w is q without its first element, and x behind it.
Follows(q, w, x) ==
  /\ Len(q) \in Nat \ {0} /\ Len(x) \in Nat /\ Len(w) = Len(q) - 1 + Len(x)
  /\ \A i \in 1..Len(w) : IF i < Len(q) THEN w[i] = q[i + 1]
                                        ELSE w[i] = x[i - Len(q) + 1]

LEMMA TailFollows ==
  ASSUME NEW S, NEW q \in Seq(S), q # << >>
  PROVE  /\ Tail(q) \in Seq(S) /\ Head(q) = q[1] /\ q[1] \in S
         /\ Follows(q, Tail(q), << >>)
BY DEF Follows

LEMMA JoinFollows ==
  ASSUME NEW S, NEW q \in Seq(S), q # << >>, NEW x \in Seq(S)
  PROVE  /\ Tail(q) \o x \in Seq(S)
         /\ Follows(q, Tail(q) \o x, x)
BY DEF Follows

\* The elements of the two.
LEMMA FollowsElements ==
  ASSUME NEW q, NEW w, NEW x, Follows(q, w, x)
  PROVE  /\ \A i \in 1..Len(q) : i # 1 => \E k \in 1..Len(w) : w[k] = q[i]
         /\ \A i \in 1..Len(x) : \E k \in 1..Len(w) : w[k] = x[i]
         /\ \A k \in 1..Len(w) : \/ \E i \in 1..Len(q) : w[k] = q[i]
                                 \/ \E i \in 1..Len(x) : w[k] = x[i]
<1>1. ASSUME NEW i \in 1..Len(q), i # 1 PROVE \E k \in 1..Len(w) : w[k] = q[i]
  <2>1. i - 1 \in 1..Len(w) /\ i - 1 < Len(q) /\ (i - 1) + 1 = i
    BY <1>1 DEF Follows
  <2> QED
    BY <2>1 DEF Follows
<1>2. ASSUME NEW i \in 1..Len(x) PROVE \E k \in 1..Len(w) : w[k] = x[i]
  <2> DEFINE k == Len(q) - 1 + i
  <2>1. k \in 1..Len(w) /\ ~(k < Len(q)) /\ k - Len(q) + 1 = i
    BY DEF Follows
  <2> HIDE DEF k
  <2> QED
    BY <2>1 DEF Follows
<1>3. ASSUME NEW k \in 1..Len(w)
      PROVE  \/ \E i \in 1..Len(q) : w[k] = q[i]
             \/ \E i \in 1..Len(x) : w[k] = x[i]
  <2>1. CASE k < Len(q)
    <3>1. k + 1 \in 1..Len(q) /\ w[k] = q[k + 1]
      BY <2>1 DEF Follows
    <3> QED
      BY <3>1
  <2>2. CASE ~(k < Len(q))
    <3>1. k - Len(q) + 1 \in 1..Len(x) /\ w[k] = x[k - Len(q) + 1]
      BY <2>2 DEF Follows
    <3> QED
      BY <3>1
  <2> QED
    BY <2>1, <2>2
<1> QED
  BY <1>1, <1>2, <1>3

\* A queue is in the order of depth.
InOrder(q) == \A i, k \in 1..Len(q) : i < k => q[i].depth <= q[k].depth

NoDeeper(q, top) == \A i \in 1..Len(q) : q[i].depth \in Nat /\ q[i].depth <= top

\* It stays so if what comes behind is as deep as all.
LEMMA FollowsOrder ==
  ASSUME NEW q, NEW w, NEW x, Follows(q, w, x), NEW top \in Nat,
         NoDeeper(q, top), InOrder(q), \A i \in 1..Len(x) : x[i].depth = top
  PROVE  InOrder(w)
<1> USE DEF InOrder, NoDeeper
<1> TAKE i, k \in 1..Len(w)
<1> HAVE i < k
<1>1. CASE k < Len(q)
  <2>1. /\ i + 1 \in 1..Len(q) /\ k + 1 \in 1..Len(q) /\ i + 1 < k + 1
        /\ w[i] = q[i + 1] /\ w[k] = q[k + 1]
    BY <1>1 DEF Follows
  <2> QED
    BY <2>1
<1>2. CASE ~(k < Len(q))
  <2>1. w[k].depth = top
    <3>1. k - Len(q) + 1 \in 1..Len(x)
      BY <1>2 DEF Follows
    <3>2. w[k] = x[k - Len(q) + 1]
      BY <1>2 DEF Follows
    <3> QED
      BY <3>1, <3>2
  <2>2. w[i].depth <= top
    <3>1. \/ \E n \in 1..Len(q) : w[i] = q[n]
          \/ \E n \in 1..Len(x) : w[i] = x[n]
      BY FollowsElements
    <3> QED
      BY <3>1
  <2> QED
    BY <2>1, <2>2
<1> QED
  BY <1>1, <1>2

\* The search has been at the traces of less than h steps, and those of h
\* steps it has been at or has in its queue, with all that follow.
AtLevel(relation, p, nodes, q, h) ==
  LET reach == ReachIn(relation, p)
  IN /\ \A i \in 1..Len(q) : /\ q[i].depth \in {h, h + 1}
                             /\ q[i].trace \in reach[q[i].depth]
     /\ InOrder(q)
     /\ nodes \subseteq reach[h]
     /\ \A u \in reach[h] : u \in nodes \/ \E i \in 1..Len(q) : q[i].trace = u /\ q[i].depth = h
     /\ \A r \in relation : r[1] \in nodes =>
          r[2] \in nodes \/ \E i \in 1..Len(q) : q[i].trace = r[2]

AtEnd(relation, p, nodes, q) ==
  /\ nodes = ReachIn(relation, p)[MaxDepth]
  /\ \A i \in 1..Len(q) : q[i].depth \in Nat /\ q[i].depth > MaxDepth

RightSearch(relation, p, nodes, q) ==
  \/ \E h \in 0..MaxDepth : AtLevel(relation, p, nodes, q, h)
  \/ AtEnd(relation, p, nodes, q)

LEMMA LevelIsDone ==
  ASSUME NEW relation, NEW p, NEW nodes, NEW q, Len(q) \in Nat, NEW h \in 0..MaxDepth,
         AtLevel(relation, p, nodes, q, h),
         \A i \in 1..Len(q) : q[i].depth = h + 1
  PROVE  IF h + 1 <= MaxDepth THEN AtLevel(relation, p, nodes, q, h + 1)
                              ELSE AtEnd(relation, p, nodes, q)
<1>1. PICK reach : reach = ReachIn(relation, p)
  OBVIOUS
<1>2. h \in Nat /\ h <= MaxDepth /\ MaxDepth \in Nat
  BY LimitsAssumption
<1>3. reach[h + 1] = reach[h] \cup OneOn(relation, reach[h])
  BY <1>1, <1>2, ReachSteps
<1>4. nodes = reach[h]
  <2>1. nodes \subseteq reach[h]
    BY <1>1 DEF AtLevel
  <2>2. \A u \in reach[h] : u \in nodes \/ \E i \in 1..Len(q) : q[i].depth = h
    BY <1>1 DEF AtLevel
  <2>3. \A i \in 1..Len(q) : q[i].depth # h
    BY <1>2
  <2> QED
    BY <2>1, <2>2, <2>3
<1>5. CASE h + 1 <= MaxDepth
  <2>1. nodes \subseteq reach[h + 1]
    BY <1>3, <1>4
  <2>2. ASSUME NEW u \in reach[h + 1]
        PROVE  u \in nodes \/ \E i \in 1..Len(q) : q[i].trace = u /\ q[i].depth = h + 1
    <3>1. CASE u \in reach[h]
      BY <1>4, <3>1
    <3>2. CASE u \in OneOn(relation, reach[h])
      <4>1. PICK r \in relation : r[1] \in reach[h] /\ r[2] = u
        BY <3>2, OneOnIs
      <4> QED
        BY <1>4, <4>1 DEF AtLevel
    <3> QED
      BY <1>3, <3>1, <3>2
  <2>3. \A i \in 1..Len(q) : q[i].trace \in reach[h + 1]
    BY <1>1, <1>2 DEF AtLevel
  <2> QED
    BY <1>1, <1>5, <2>1, <2>2, <2>3 DEF AtLevel, InOrder
<1>6. CASE ~(h + 1 <= MaxDepth)
  <2>1. h = MaxDepth
    BY <1>2, <1>6
  <2> QED
    BY <1>1, <1>2, <1>4, <1>6, <2>1 DEF AtEnd
<1> QED
  BY <1>5, <1>6

\* The first of the queue has the depth the search is at.
LEMMA LevelOfHead ==
  ASSUME NEW relation, NEW p, NEW nodes, NEW q, Len(q) \in Nat \ {0},
         RightSearch(relation, p, nodes, q)
  PROVE  \/ q[1].depth \in 0..MaxDepth /\ AtLevel(relation, p, nodes, q, q[1].depth)
         \/ AtEnd(relation, p, nodes, q)
<1> SUFFICES ASSUME NEW h \in 0..MaxDepth, AtLevel(relation, p, nodes, q, h)
             PROVE  \/ /\ q[1].depth \in 0..MaxDepth
                       /\ AtLevel(relation, p, nodes, q, q[1].depth)
                    \/ AtEnd(relation, p, nodes, q)
  BY DEF RightSearch
<1>1. 1 \in 1..Len(q) /\ h \in Nat
  BY LimitsAssumption
<1>2. q[1].depth \in {h, h + 1}
  BY <1>1 DEF AtLevel
<1>3. CASE q[1].depth = h
  BY <1>3
<1>4. CASE q[1].depth = h + 1
  <2>1. ASSUME NEW i \in 1..Len(q) PROVE q[i].depth = h + 1
    <3>1. q[i].depth \in {h, h + 1}
      BY DEF AtLevel
    <3>2. i # 1 => q[1].depth <= q[i].depth
      BY <1>1 DEF AtLevel, InOrder
    <3> QED
      BY <1>1, <1>4, <3>1, <3>2
  <2>2. IF h + 1 <= MaxDepth THEN AtLevel(relation, p, nodes, q, h + 1)
                             ELSE AtEnd(relation, p, nodes, q)
    BY <2>1, LevelIsDone
  <2> QED
    BY <1>1, <1>4, <2>2, LimitsAssumption
<1> QED
  BY <1>2, <1>3, <1>4

\* A search with an empty queue has been everywhere it should.
LEMMA SearchIsOver ==
  ASSUME NEW relation, NEW p, NEW nodes, NEW q, Len(q) = 0,
         RightSearch(relation, p, nodes, q)
  PROVE  nodes = ReachIn(relation, p)[MaxDepth]
<1> SUFFICES ASSUME NEW h \in 0..MaxDepth, AtLevel(relation, p, nodes, q, h)
             PROVE  nodes = ReachIn(relation, p)[MaxDepth]
  BY DEF RightSearch, AtEnd
<1>1. PICK reach : reach = ReachIn(relation, p)
  OBVIOUS
<1>2. h \in Nat /\ h <= MaxDepth /\ MaxDepth \in Nat /\ 1..Len(q) = {}
  BY LimitsAssumption
<1>3. nodes = reach[h] /\ \A r \in relation : r[1] \in nodes => r[2] \in nodes
  BY <1>1, <1>2 DEF AtLevel
<1>4. reach[h] \subseteq reach[MaxDepth] /\ reach[0] = {p} /\ reach[0] \subseteq reach[h]
  BY <1>1, <1>2, ReachGrows, ReachSteps
<1>5. p \in nodes
  BY <1>3, <1>4
<1>6. reach[MaxDepth] \subseteq nodes
  BY <1>1, <1>2, <1>3, <1>5, ReachStays
<1> QED
  BY <1>1, <1>3, <1>4, <1>6

\* A trace that was visited, or lies too deep, is dropped from the queue.
LEMMA DroppingKeeps ==
  ASSUME NEW relation, NEW p, NEW nodes, NEW q, NEW w,
         Follows(q, w, << >>), RightSearch(relation, p, nodes, q),
         q[1].trace \in nodes \/ q[1].depth > MaxDepth
  PROVE  RightSearch(relation, p, nodes, w)
<1>1. PICK x : x = << >> /\ Len(x) = 0 /\ Follows(q, w, x)
  OBVIOUS
<1>2. Len(q) \in Nat \ {0} /\ Len(w) = Len(q) - 1 /\ 1 \in 1..Len(q)
  BY <1>1 DEF Follows
<1>3. \A k \in 1..Len(w) : \E i \in 1..Len(q) : w[k] = q[i]
  BY <1>1, FollowsElements
<1>4. \A i \in 1..Len(q) : i # 1 => \E k \in 1..Len(w) : w[k] = q[i]
  BY <1>1, FollowsElements
<1>5. \A k \in 1..Len(w) : k + 1 \in 1..Len(q) /\ w[k] = q[k + 1]
  BY <1>1, <1>2 DEF Follows
<1>6. CASE AtEnd(relation, p, nodes, q)
  <2>1. AtEnd(relation, p, nodes, w)
    BY <1>3, <1>6 DEF AtEnd
  <2> QED
    BY <2>1 DEF RightSearch
<1>7. CASE /\ q[1].depth \in 0..MaxDepth
           /\ AtLevel(relation, p, nodes, q, q[1].depth)
  <2>1. PICK h : h = q[1].depth
    OBVIOUS
  <2>2. PICK reach : reach = ReachIn(relation, p)
    OBVIOUS
  <2>3. h \in 0..MaxDepth /\ AtLevel(relation, p, nodes, q, h) /\ q[1].trace \in nodes
    BY <1>7, <2>1, LimitsAssumption
  <2>4. \A k \in 1..Len(w) : /\ w[k].depth \in {h, h + 1}
                             /\ w[k].trace \in reach[w[k].depth]
    BY <1>3, <2>2, <2>3 DEF AtLevel
  <2>5. InOrder(w)
    BY <1>2, <1>5, <2>3 DEF AtLevel, InOrder
  <2>6. \A u \in reach[h] :
          u \in nodes \/ \E i \in 1..Len(w) : w[i].trace = u /\ w[i].depth = h
    BY <1>4, <2>2, <2>3 DEF AtLevel
  <2>7. \A r \in relation : r[1] \in nodes =>
          r[2] \in nodes \/ \E i \in 1..Len(w) : w[i].trace = r[2]
    BY <1>4, <2>3 DEF AtLevel
  <2>8. AtLevel(relation, p, nodes, w, h)
    BY <2>2, <2>3, <2>4, <2>5, <2>6, <2>7 DEF AtLevel
  <2> QED
    BY <2>3, <2>8 DEF RightSearch
<1> QED
  BY <1>2, <1>6, <1>7, LevelOfHead

\* The trace visited next sends its neighbours to the end of the queue.
LEMMA VisitingKeeps ==
  ASSUME NEW relation, NEW p, NEW nodes, NEW q, NEW w, NEW x,
         Follows(q, w, x), RightSearch(relation, p, nodes, q),
         q[1].depth \in 0..MaxDepth,
         \A i \in 1..Len(x) : /\ x[i].depth = q[1].depth + 1
                              /\ \E r \in relation : r[1] = q[1].trace /\ r[2] = x[i].trace,
         \A r \in relation : r[1] = q[1].trace =>
           r[2] \in nodes \cup {q[1].trace} \/ \E i \in 1..Len(x) : x[i].trace = r[2]
  PROVE  RightSearch(relation, p, nodes \cup {q[1].trace}, w)
<1>1. PICK h : h = q[1].depth
  OBVIOUS
<1>2. PICK reach : reach = ReachIn(relation, p)
  OBVIOUS
<1>3. PICK all : all = nodes \cup {q[1].trace}
  OBVIOUS
<1>4. Len(q) \in Nat \ {0} /\ 1 \in 1..Len(q) /\ h \in Nat /\ h <= MaxDepth /\ MaxDepth \in Nat
  BY <1>1, LimitsAssumption DEF Follows
<1>5. AtLevel(relation, p, nodes, q, h)
  BY <1>1, <1>4, LevelOfHead DEF AtEnd
<1>6. \A k \in 1..Len(w) : \/ \E i \in 1..Len(q) : w[k] = q[i]
                           \/ \E i \in 1..Len(x) : w[k] = x[i]
  BY FollowsElements
<1>7. \A i \in 1..Len(q) : i # 1 => \E k \in 1..Len(w) : w[k] = q[i]
  BY FollowsElements
<1>8. \A i \in 1..Len(x) : \E k \in 1..Len(w) : w[k] = x[i]
  BY FollowsElements
<1>9. q[1].trace \in reach[h]
  BY <1>1, <1>2, <1>4, <1>5 DEF AtLevel
<1>10. reach[h + 1] = reach[h] \cup OneOn(relation, reach[h])
  <2>1. h \in Nat
    BY <1>4
  <2> QED
    BY <1>2, <2>1, ReachSteps
<1>11. \A i \in 1..Len(x) : x[i].depth = h + 1 /\ x[i].trace \in reach[h + 1]
  BY <1>1, <1>9, <1>10, OneOnIs
<1>12. \A i \in 1..Len(q) : q[i].depth \in {h, h + 1} /\ q[i].trace \in reach[q[i].depth]
  BY <1>2, <1>5 DEF AtLevel
<1>13. \A k \in 1..Len(w) : w[k].depth \in {h, h + 1} /\ w[k].trace \in reach[w[k].depth]
  <2> TAKE k \in 1..Len(w)
  <2>1. CASE \E i \in 1..Len(q) : w[k] = q[i]
    BY <1>12, <2>1
  <2>2. CASE \E i \in 1..Len(x) : w[k] = x[i]
    BY <1>11, <2>2
  <2> QED
    BY <1>6, <2>1, <2>2
<1>14. InOrder(w)
  <2>4. PICK top \in Nat : top = h + 1
    BY <1>4
  <2>1. NoDeeper(q, top)
    BY <1>4, <1>12, <2>4 DEF NoDeeper
  <2>2. InOrder(q)
    BY <1>5 DEF AtLevel
  <2>3. \A i \in 1..Len(x) : x[i].depth = top
    BY <1>11, <2>4
  <2> QED
    BY <2>1, <2>2, <2>3, FollowsOrder
<1>15. all \subseteq reach[h]
  BY <1>2, <1>3, <1>5, <1>9 DEF AtLevel
<1>16. \A u \in reach[h] :
         u \in all \/ \E i \in 1..Len(w) : w[i].trace = u /\ w[i].depth = h
  <2> TAKE u \in reach[h]
  <2>1. u \in nodes \/ \E i \in 1..Len(q) : q[i].trace = u /\ q[i].depth = h
    BY <1>2, <1>5 DEF AtLevel
  <2> QED
    BY <1>3, <1>7, <2>1
<1>17. \A r \in relation : r[1] \in all =>
         r[2] \in all \/ \E i \in 1..Len(w) : w[i].trace = r[2]
  <2> TAKE r \in relation
  <2> HAVE r[1] \in all
  <2>1. CASE r[1] \in nodes
    <3>1. r[2] \in nodes \/ \E i \in 1..Len(q) : q[i].trace = r[2]
      BY <1>5, <2>1 DEF AtLevel
    <3> QED
      BY <1>3, <1>7, <3>1
  <2>2. CASE r[1] = q[1].trace
    <3>1. r[2] \in all \/ \E i \in 1..Len(x) : x[i].trace = r[2]
      <4>1. r[2] \in nodes \cup {q[1].trace} \/ \E i \in 1..Len(x) : x[i].trace = r[2]
        BY <2>2, ZenonT(30)
      <4> QED
        BY <1>3, <4>1
    <3> QED
      BY <1>8, <3>1
  <2> QED
    BY <1>3, <2>1, <2>2
<1>18. AtLevel(relation, p, all, w, h)
  BY <1>2, <1>13, <1>14, <1>15, <1>16, <1>17 DEF AtLevel
<1> QED
  BY <1>3, <1>4, <1>18 DEF RightSearch

\* A search begins with the problem.
LEMMA SearchBegins ==
  ASSUME NEW relation, NEW p, NEW q, Len(q) = 1, q[1].trace = p, q[1].depth = 0
  PROVE  RightSearch(relation, p, {}, q)
<1>1. PICK reach : reach = ReachIn(relation, p)
  OBVIOUS
<1>2. reach[0] = {p} /\ 0 \in 0..MaxDepth /\ 1..Len(q) = {1}
  BY <1>1, ReachSteps, LimitsAssumption
<1>3. AtLevel(relation, p, {}, q, 0)
  BY <1>1, <1>2 DEF AtLevel, InOrder
<1> QED
  BY <1>2, <1>3 DEF RightSearch

-----------------------------------------------------------------------------
(* The inductive invariant *)

Numbers == Nat \ {0}
StockOf == {"IN_STOCK", "FROZEN"}
Materials == {p.material : p \in Productions}

TraceRow == [batch : Numbers, material : Materials, code : Nat, stock : StockOf,
             frozen : BOOLEAN]
AssessmentRow == [status : {"CALCULATING", "COMPLETED", "FAILED"},
                  listed : SUBSET DOMAIN traces, due : SUBSET DOMAIN traces,
                  sound : BOOLEAN]

TraceJobs == [op : {"trace"}, stage : {"find", "count", "insert", "link"},
              material : Materials, code : Nat, todo : Seq(Numbers), output : Nat]
CreateJobs == [op : {"assess"}, stage : {"create"}, problem : Numbers, no : Numbers]
Entries == [trace : Numbers, depth : Nat]
Searches == [queue : Seq(Entries), nodes : UNION {[S -> StockOf] : S \in SUBSET Numbers},
             cut : BOOLEAN]
SearchJobs == [op : {"assess"}, stage : {"search"}, problem : Numbers, no : Numbers,
               search : [Directions -> Searches]]
FreezeJobs == [op : {"assess"}, stage : {"freeze", "mark", "complete"}, no : Numbers,
               todo : Seq(Numbers), frozen : Seq(Numbers)]
RecallJobs == {NoJob} \cup TraceJobs \cup CreateJobs \cup SearchJobs \cup FreezeJobs

Consumed(b, t) == <<b, traces[t].batch>> \in consumption

\* What is left to do of a production was consumed for its output.
TraceKnows(j) ==
  /\ j.todo # << >>
  /\ j.output = 0 => /\ j.stage # "link"
                     /\ \A i \in 1..Len(j.todo) : i # 1 => <<j.todo[i], j.todo[1]>> \in consumption
  /\ j.output # 0 => /\ j.output \in DOMAIN traces
                     /\ \A i \in 1..Len(j.todo) :
                          i # 1 \/ j.stage # "link" => Consumed(j.todo[i], j.output)
  /\ j.stage = "link" => /\ j.todo[1] \in DOMAIN traces
                         /\ Consumed(traces[j.todo[1]].batch, j.output)

LinksAreConsumed ==
  \A l \in links : <<traces[l[1]].batch, traces[l[2]].batch>> \in consumption

\* The links as a search walks them.
Walked(direction) ==
  IF direction = "forward" THEN links ELSE {<<l[2], l[1]>> : l \in links}

\* Unless it was cut or disturbed, a search is right so far.
DirectionKnows(problem, no, direction, s) ==
  /\ DOMAIN s.nodes \subseteq DOMAIN traces
  /\ \A i \in 1..Len(s.queue) : s.queue[i].trace \in DOMAIN traces
  /\ no \notin disturbed =>
       /\ \A t \in DOMAIN s.nodes : s.nodes[t] = traces[t].stock
       /\ ~s.cut => RightSearch(Walked(direction), problem, DOMAIN s.nodes, s.queue)

SearchKnows(j) ==
  /\ j.problem \in DOMAIN traces /\ j.no \in DOMAIN assessments
  /\ assessments[j.no].status = "CALCULATING" /\ assessments[j.no].listed = {}
  /\ \A d \in Directions : DirectionKnows(j.problem, j.no, d, j.search[d])

IsLocked(n) == n \in Stocked => row[n] = "LOCKED"

Settled(n) == n \in skipped \/ IsLocked(n)

\* What is listed is to be frozen yet, or is locked, or was skipped; and what
\* is to be marked is locked.
FreezeKnows(j) ==
  /\ j.no \in DOMAIN assessments /\ assessments[j.no].status = "CALCULATING"
  /\ j.stage = "freeze" =>
       /\ j.todo # << >>
       /\ \A i \in 1..Len(j.todo) : j.todo[i] \in assessments[j.no].listed
       /\ \A n \in assessments[j.no].listed :
            Settled(n) \/ \E i \in 1..Len(j.todo) : j.todo[i] = n
       /\ \A i \in 1..Len(j.frozen) : IsLocked(j.frozen[i])
  /\ j.stage # "freeze" => \A n \in assessments[j.no].listed : Settled(n)
  /\ j.stage = "mark" => \A i \in 1..Len(j.todo) : IsLocked(j.todo[i])

Holds(c) == job[c].op = "assess" /\ job[c].stage # "create"

JobKnows(j) ==
  /\ j.op = "trace" => TraceKnows(j)
  /\ j.op = "assess" /\ j.stage = "create" =>
       j.problem \in DOMAIN traces /\ j.no <= Len(assessments) + 1
  /\ j.op = "assess" /\ j.stage = "search" => SearchKnows(j)
  /\ j.op = "assess" /\ j.stage \in {"freeze", "mark", "complete"} => FreezeKnows(j)

JobsKnow == \A c \in Clients : JobKnows(job[c])

\* Each assessment has one request at work on it.
OneHolder ==
  \A c, d \in Clients : Holds(c) /\ Holds(d) /\ job[c].no = job[d].no => c = d

AssessmentsHold ==
  \A a \in DOMAIN assessments :
    /\ assessments[a].sound => assessments[a].listed = assessments[a].due
    /\ assessments[a].status = "COMPLETED" =>
         \A n \in assessments[a].listed : Settled(n)

LockedIsListed ==
  \A n \in Stocked : row[n] = "LOCKED" =>
    \E a \in DOMAIN assessments : n \in assessments[a].listed

FrozenIsLocked ==
  \A t \in DOMAIN traces : traces[t].frozen => IsLocked(traces[t].batch)

RecallSound ==
  /\ LinksAreConsumed /\ OneHolder /\ AssessmentsHold /\ LockedIsListed /\ FrozenIsLocked

RecallInv ==
  /\ RecallTypeOK
  /\ job \in [Clients -> RecallJobs]
  /\ JobsKnow
  /\ RecallSound

-----------------------------------------------------------------------------
(* Records *)

LEMMA KindsOfRecallJobs ==
  ASSUME NEW j \in RecallJobs
  PROVE  /\ j.op \in {"none", "trace", "assess"}
         /\ j.op = "none" => j = NoJob
         /\ j.op = "trace" => j \in TraceJobs
         /\ j.op = "assess" /\ j.stage = "create" => j \in CreateJobs
         /\ j.op = "assess" /\ j.stage = "search" => j \in SearchJobs
         /\ j.op = "assess" /\ j.stage \in {"freeze", "mark", "complete"} => j \in FreezeJobs
         /\ j.op = "assess" => j.stage \in {"create", "search", "freeze", "mark", "complete"}
BY DEF RecallJobs, TraceJobs, CreateJobs, SearchJobs, FreezeJobs, NoJob

LEMMA TracesAreRows ==
  ASSUME RecallTypeOK
  PROVE  /\ traces \in Seq(TraceRow) /\ Len(traces) \in Nat
         /\ DOMAIN traces = 1..Len(traces) /\ IsFiniteSet(DOMAIN traces)
         /\ \A t \in DOMAIN traces : /\ traces[t] \in TraceRow /\ t \in Numbers
                                     /\ traces[t].batch \in Numbers
         /\ \A l \in links : /\ l[1] \in DOMAIN traces /\ l[2] \in DOMAIN traces
                             /\ l = <<l[1], l[2]>>
<1>1. traces \in Seq(TraceRow)
  BY DEF RecallTypeOK, TraceRow, Numbers, StockOf, Materials
<1>2. Len(traces) \in Nat /\ DOMAIN traces = 1..Len(traces)
  BY <1>1
<1>3. \A t \in DOMAIN traces : traces[t] \in TraceRow
  BY <1>1, <1>2
<1>4. \A t \in DOMAIN traces : traces[t].batch \in Numbers
  BY <1>3 DEF TraceRow
<1>5. IsFiniteSet(1..Len(traces))
  BY <1>2, FS_Interval
<1>6. \A l \in links : l \in (DOMAIN traces) \X (DOMAIN traces)
  BY DEF RecallTypeOK
<1> QED
  BY <1>1, <1>2, <1>3, <1>4, <1>5, <1>6 DEF Numbers

LEMMA AssessmentsAreRows ==
  ASSUME RecallTypeOK
  PROVE  /\ assessments \in Seq(AssessmentRow) /\ Len(assessments) \in Nat
         /\ DOMAIN assessments = 1..Len(assessments)
         /\ \A a \in DOMAIN assessments : assessments[a] \in AssessmentRow
<1>1. assessments \in Seq(AssessmentRow)
  BY DEF RecallTypeOK, AssessmentRow
<1> QED
  BY <1>1

\* The elements of a set in a sequence.
LEMMA SequenceOfSet ==
  ASSUME NEW S, IsFiniteSet(S)
  PROVE  /\ SetToSeq(S) \in Seq(S) /\ Len(SetToSeq(S)) = Cardinality(S)
         /\ Cardinality(S) \in Nat
         /\ \A i \in 1..Cardinality(S) : SetToSeq(S)[i] \in S
         /\ \A x \in S : \E i \in 1..Cardinality(S) : SetToSeq(S)[i] = x
<1>1. Cardinality(S) \in Nat
  BY FS_CardinalityType
<1>2. \E f \in [1..Cardinality(S) -> S] : IsInjective(f)
  <2>1. ExistsBijection(1..Cardinality(S), S)
    BY FS_CardinalityType
  <2> QED
    BY <2>1 DEF ExistsBijection, Bijection, Injection
<1>3. PICK f : f = SetToSeq(S)
  OBVIOUS
<1>4. f \in [1..Cardinality(S) -> S] /\ IsInjective(f)
  BY <1>2, <1>3 DEF SetToSeq
<1>5. f \in Seq(S) /\ Len(f) = Cardinality(S)
  BY <1>1, <1>4
<1>6. f \in Injection(1..Cardinality(S), S)
  BY <1>4 DEF Injection
<1>7. Cardinality(1..Cardinality(S)) = Cardinality(S)
  BY <1>1, FS_Interval
<1>8. f \in Surjection(1..Cardinality(S), S)
  BY <1>6, <1>7, FS_Injection
<1>9. \A x \in S : \E i \in 1..Cardinality(S) : f[i] = x
  BY <1>8 DEF Surjection
<1> QED
  BY <1>1, <1>3, <1>4, <1>5, <1>9

-----------------------------------------------------------------------------
(* What a step of another request leaves as it was *)

\* Traces keep their batches, consumption and locks stay, and what a search
\* relies on changes only where it is noted as disturbed.
Onward ==
  /\ \A t \in DOMAIN traces : t \in DOMAIN traces' /\ traces'[t].batch = traces[t].batch
  /\ consumption \subseteq consumption'
  /\ \A n \in Stocked : row[n] = "LOCKED" => row'[n] = "LOCKED"
  /\ skipped \subseteq skipped' /\ disturbed \subseteq disturbed'
  /\ Len(assessments) <= Len(assessments')
  /\ \A a \in DOMAIN assessments :
       assessments[a].status = "CALCULATING" /\ a \notin disturbed' =>
         links' = links /\ \A t \in DOMAIN traces : traces'[t].stock = traces[t].stock

SameAssessment(a) ==
  /\ a \in DOMAIN assessments => a \in DOMAIN assessments'
  /\ a \in DOMAIN assessments => assessments'[a].status = assessments[a].status
  /\ a \in DOMAIN assessments => assessments'[a].listed = assessments[a].listed

HoldsOne(j) == j.op = "assess" /\ j.stage # "create"

LEMMA TraceKnowsOn ==
  ASSUME RecallInv, Onward, NEW j \in TraceJobs, TraceKnows(j)
  PROVE  TraceKnows(j)'
<1>1. ASSUME NEW b, NEW t \in DOMAIN traces, Consumed(b, t)
      PROVE  Consumed(b, t)' /\ t \in DOMAIN traces' /\ traces'[t].batch = traces[t].batch
  BY <1>1 DEF Onward, Consumed
<1>2. j.stage = "link" => j.output # 0
  BY DEF TraceKnows
<1>3. consumption \subseteq consumption'
  BY DEF Onward
<1>4. j.output = 0 => \A i \in 1..Len(j.todo) :
                        i # 1 => <<j.todo[i], j.todo[1]>> \in consumption'
  BY <1>3 DEF TraceKnows
<1>5. j.output # 0 => /\ j.output \in DOMAIN traces'
                      /\ \A i \in 1..Len(j.todo) :
                           i # 1 \/ j.stage # "link" => Consumed(j.todo[i], j.output)'
  BY <1>1 DEF TraceKnows, Onward
<1>6. ASSUME j.stage = "link"
      PROVE  /\ j.todo[1] \in DOMAIN traces'
             /\ <<traces'[j.todo[1]].batch, traces'[j.output].batch>> \in consumption'
  <2>1. /\ j.todo[1] \in DOMAIN traces /\ j.output \in DOMAIN traces
        /\ <<traces[j.todo[1]].batch, traces[j.output].batch>> \in consumption
    BY <1>2, <1>6 DEF TraceKnows, Consumed
  <2>2. /\ j.todo[1] \in DOMAIN traces' /\ traces'[j.todo[1]].batch = traces[j.todo[1]].batch
        /\ traces'[j.output].batch = traces[j.output].batch
    BY <2>1 DEF Onward
  <2> QED
    BY <1>3, <2>1, <2>2
<1>7. j.output # 0 => /\ j.output \in DOMAIN traces'
                      /\ \A i \in 1..Len(j.todo) : i # 1 \/ j.stage # "link" =>
                           <<j.todo[i], traces'[j.output].batch>> \in consumption'
  BY <1>5 DEF Consumed
<1>8. j.todo # << >> /\ (j.output = 0 => j.stage # "link")
  BY DEF TraceKnows
<1> QED
  BY <1>4, <1>6, <1>7, <1>8 DEF TraceKnows, Consumed

LEMMA DirectionKnowsOn ==
  ASSUME RecallInv, Onward, NEW problem, NEW no \in DOMAIN assessments, NEW direction,
         NEW s, assessments[no].status = "CALCULATING",
         DirectionKnows(problem, no, direction, s)
  PROVE  DirectionKnows(problem, no, direction, s)'
<1>1. /\ DOMAIN s.nodes \subseteq DOMAIN traces'
      /\ \A i \in 1..Len(s.queue) : s.queue[i].trace \in DOMAIN traces'
  BY DEF Onward, DirectionKnows
<1>2. ASSUME no \notin disturbed'
      PROVE  /\ \A t \in DOMAIN s.nodes : s.nodes[t] = traces'[t].stock
             /\ ~s.cut => RightSearch(Walked(direction)', problem, DOMAIN s.nodes, s.queue)
  <2>1. /\ no \notin disturbed /\ links' = links
        /\ \A t \in DOMAIN traces : traces'[t].stock = traces[t].stock
    BY <1>2 DEF Onward
  <2>2. Walked(direction)' = Walked(direction)
    BY <2>1 DEF Walked
  <2> QED
    BY <2>1, <2>2 DEF DirectionKnows
<1> QED
  BY <1>1, <1>2 DEF DirectionKnows, RightSearch, AtLevel, AtEnd

LEMMA SearchKnowsOn ==
  ASSUME RecallInv, Onward, NEW j \in SearchJobs, SearchKnows(j), SameAssessment(j.no)
  PROVE  SearchKnows(j)'
<1>1. j.problem \in DOMAIN traces' /\ j.no \in DOMAIN assessments
  BY DEF SearchKnows, Onward
<1>2. \A d \in Directions : DirectionKnows(j.problem, j.no, d, j.search[d])'
  BY <1>1, DirectionKnowsOn DEF SearchKnows
<1> QED
  BY <1>1, <1>2 DEF SearchKnows, SameAssessment

LEMMA SettledOn ==
  ASSUME Onward, NEW n
  PROVE  /\ IsLocked(n) => IsLocked(n)'
         /\ Settled(n) => Settled(n)'
BY DEF Onward, IsLocked, Settled

LEMMA FreezeKnowsOn ==
  ASSUME RecallInv, Onward, NEW j \in FreezeJobs, FreezeKnows(j), SameAssessment(j.no)
  PROVE  FreezeKnows(j)'
<1>1. j.no \in DOMAIN assessments' /\ assessments'[j.no].listed = assessments[j.no].listed
      /\ assessments'[j.no].status = "CALCULATING"
  BY DEF FreezeKnows, SameAssessment
<1>2. j.stage = "freeze" =>
       /\ j.todo # << >>
       /\ \A i \in 1..Len(j.todo) : j.todo[i] \in assessments'[j.no].listed
       /\ \A n \in assessments'[j.no].listed :
            Settled(n)' \/ \E i \in 1..Len(j.todo) : j.todo[i] = n
       /\ \A i \in 1..Len(j.frozen) : IsLocked(j.frozen[i])'
  BY <1>1, SettledOn DEF FreezeKnows
<1>3. /\ j.stage # "freeze" => \A n \in assessments'[j.no].listed : Settled(n)'
      /\ j.stage = "mark" => \A i \in 1..Len(j.todo) : IsLocked(j.todo[i])'
  BY <1>1, SettledOn DEF FreezeKnows
<1> QED
  BY <1>1, <1>2, <1>3 DEF FreezeKnows

LEMMA JobKnowsOn ==
  ASSUME RecallInv, Onward, NEW j \in RecallJobs, JobKnows(j),
         HoldsOne(j) => SameAssessment(j.no)
  PROVE  JobKnows(j)'
<1>1. CASE j.op = "trace"
  BY <1>1, KindsOfRecallJobs, TraceKnowsOn DEF JobKnows
<1>2. CASE j.op = "assess" /\ j.stage = "create"
  <2>1. j \in CreateJobs
    BY <1>2, KindsOfRecallJobs
  <2>2. j.problem \in DOMAIN traces' /\ j.no <= Len(assessments') + 1
    <3>1. j.no \in Nat /\ j.no <= Len(assessments) + 1 /\ j.problem \in DOMAIN traces
      BY <1>2, <2>1 DEF JobKnows, CreateJobs, Numbers
    <3>2. Len(assessments) \in Nat /\ Len(assessments) <= Len(assessments')
      BY AssessmentsAreRows DEF RecallInv, Onward
    <3>3. Len(assessments') \in Int
      BY AssessmentsAreRows DEF RecallInv, Onward
    <3> QED
      BY <3>1, <3>2, <3>3 DEF Onward
  <2> QED
    BY <1>2, <2>2 DEF JobKnows
<1>3. CASE j.op = "assess" /\ j.stage = "search"
  BY <1>3, KindsOfRecallJobs, SearchKnowsOn DEF JobKnows, HoldsOne
<1>4. CASE j.op = "assess" /\ j.stage \in {"freeze", "mark", "complete"}
  BY <1>4, KindsOfRecallJobs, FreezeKnowsOn DEF JobKnows, HoldsOne
<1>5. CASE j.op = "none"
  BY <1>5 DEF JobKnows
<1> QED
  BY <1>1, <1>2, <1>3, <1>4, <1>5, KindsOfRecallJobs

LEMMA RecallStepKeeps ==
  ASSUME RecallInv, Onward, NEW c \in Clients, NEW j \in RecallJobs,
         job' = [job EXCEPT ![c] = j], RecallTypeOK', JobKnows(j)',
         \A d \in Clients \ {c} : Holds(d) => SameAssessment(job[d].no),
         HoldsOne(j) => \A d \in Clients \ {c} : Holds(d) => job[d].no # j.no,
         LinksAreConsumed', AssessmentsHold', LockedIsListed', FrozenIsLocked'
  PROVE  RecallInv'
<1>1. job' \in [Clients -> RecallJobs]
  BY DEF RecallInv
<1>2. job'[c] = j /\ \A d \in Clients \ {c} : job'[d] = job[d]
  BY DEF RecallInv
<1>3. JobsKnow'
  <2>1. ASSUME NEW d \in Clients \ {c} PROVE JobKnows(job[d])'
    <3>1. PICK k : k = job[d]
      OBVIOUS
    <3>2. k \in RecallJobs /\ JobKnows(k) /\ (HoldsOne(k) => SameAssessment(k.no))
      BY <3>1 DEF RecallInv, JobsKnow, Holds, HoldsOne
    <3>3. JobKnows(k)'
      BY <3>2, JobKnowsOn
    <3>4. job'[d] = k
      BY <1>2, <3>1
    <3> QED
      BY <3>3, <3>4
  <2> QED
    BY <1>2, <2>1 DEF JobsKnow
<1>4. OneHolder'
  <2> SUFFICES ASSUME NEW d \in Clients, NEW e \in Clients, Holds(d)', Holds(e)',
                      job'[d].no = job'[e].no
               PROVE  d = e
    BY DEF OneHolder
  <2>1. CASE d # c /\ e # c
    BY <1>2, <2>1 DEF RecallInv, RecallSound, OneHolder, Holds
  <2>2. CASE d = c /\ e # c
    BY <1>2, <2>2 DEF Holds, HoldsOne
  <2>3. CASE d # c /\ e = c
    BY <1>2, <2>3 DEF Holds, HoldsOne
  <2> QED
    BY <2>1, <2>2, <2>3
<1> QED
  BY <1>1, <1>3, <1>4 DEF RecallInv, RecallSound

\* A request that leaves while the others see what they saw.
LEMMA IdleStepKeeps ==
  ASSUME RecallInv, Onward, job' = job, RecallTypeOK',
         \A d \in Clients : Holds(d) => SameAssessment(job[d].no),
         LinksAreConsumed', AssessmentsHold', LockedIsListed', FrozenIsLocked'
  PROVE  RecallInv'
<1>1. JobsKnow'
  <2>1. ASSUME NEW d \in Clients PROVE JobKnows(job[d])'
    <3>1. PICK k : k = job[d]
      OBVIOUS
    <3>2. k \in RecallJobs /\ JobKnows(k) /\ (HoldsOne(k) => SameAssessment(k.no))
      BY <3>1 DEF RecallInv, JobsKnow, Holds, HoldsOne
    <3>3. JobKnows(k)'
      BY <3>2, JobKnowsOn
    <3>4. job'[d] = k
      BY <3>1
    <3> QED
      BY <3>3, <3>4
  <2> QED
    BY <2>1 DEF JobsKnow
<1> QED
  BY <1>1 DEF RecallInv, RecallSound, OneHolder, Holds

\* Nothing that was written changes.
Quiet == UNCHANGED recallData

LEMMA QuietIs ==
  ASSUME RecallInv, Quiet
  PROVE  /\ Onward /\ RecallTypeOK' /\ \A a : SameAssessment(a)
         /\ LinksAreConsumed' /\ AssessmentsHold' /\ LockedIsListed' /\ FrozenIsLocked'
<1>1. /\ traces' = traces /\ links' = links /\ row' = row /\ assessments' = assessments
      /\ consumption' = consumption /\ disturbed' = disturbed /\ skipped' = skipped
  BY DEF Quiet, recallData, recallDocs, recallPast
<1>2. Onward
  BY <1>1, AssessmentsAreRows DEF Onward, RecallInv
<1>3. RecallTypeOK' /\ \A a : SameAssessment(a)
  BY <1>1 DEF RecallInv, RecallTypeOK, SameAssessment
<1>4. LinksAreConsumed' /\ AssessmentsHold' /\ LockedIsListed' /\ FrozenIsLocked'
  BY <1>1 DEF RecallInv, RecallSound, LinksAreConsumed, AssessmentsHold, LockedIsListed,
              FrozenIsLocked, Settled, IsLocked
<1> QED
  BY <1>2, <1>3, <1>4

LEMMA QuietRecallKeeps ==
  ASSUME RecallInv, Quiet, NEW c \in Clients, NEW j \in RecallJobs,
         job' = [job EXCEPT ![c] = j], JobKnows(j),
         HoldsOne(j) => Holds(c) /\ job[c].no = j.no
  PROVE  RecallInv'
<1>1. JobKnows(j)'
  BY QuietIs, JobKnowsOn
<1>2. HoldsOne(j) => \A d \in Clients \ {c} : Holds(d) => job[d].no # j.no
  BY DEF RecallInv, RecallSound, OneHolder
<1> QED
  BY <1>1, <1>2, QuietIs, RecallStepKeeps

LEMMA NoRecallJob ==
  NoJob \in RecallJobs /\ JobKnows(NoJob) /\ JobKnows(NoJob)' /\ ~HoldsOne(NoJob)
BY DEF RecallJobs, JobKnows, HoldsOne, NoJob

-----------------------------------------------------------------------------
(* The steps of a production that is traced *)

LEMMA RowsKeepTypes ==
  ASSUME RecallInv, traces' \in Seq(TraceRow), Len(traces) <= Len(traces'),
         links' \subseteq (DOMAIN traces') \X (DOMAIN traces'),
         row' = row, assessments' = assessments
  PROVE  RecallTypeOK'
<1>1. /\ DOMAIN traces = 1..Len(traces) /\ DOMAIN traces' = 1..Len(traces')
      /\ Len(traces) \in Nat /\ Len(traces') \in Nat
  BY TracesAreRows DEF RecallInv
<1>2. DOMAIN traces \subseteq DOMAIN traces'
  BY <1>1
<1>3. assessments' \in Seq(AssessmentRow')
  <2>1. /\ assessments \in Seq(AssessmentRow) /\ DOMAIN assessments = 1..Len(assessments)
        /\ \A a \in DOMAIN assessments : assessments[a] \in AssessmentRow
    BY AssessmentsAreRows DEF RecallInv
  <2>2. AssessmentRow \subseteq AssessmentRow'
    BY <1>2 DEF AssessmentRow
  <2>3. \A a \in 1..Len(assessments) : assessments[a] \in AssessmentRow'
    BY <2>1, <2>2
  <2>4. PICK S : S = AssessmentRow'
    OBVIOUS
  <2>5. assessments \in Seq(S)
    BY <2>1, <2>3, <2>4
  <2> QED
    BY <2>4, <2>5
<1>4. row \in [Stocked -> {"AVAILABLE", "LOCKED"}]
  BY DEF RecallInv, RecallTypeOK
<1> QED
  BY <1>3, <1>4 DEF RecallTypeOK, TraceRow, AssessmentRow, Numbers, StockOf, Materials

\* The rest of a list of batches, and a trace in front of it.
LEMMA RestOfBatches ==
  ASSUME NEW S, NEW q \in Seq(S), q # << >>, NEW t
  PROVE  /\ q[1] \in S /\ Head(q) = q[1] /\ Tail(q) \in Seq(S)
         /\ Len(q) \in Nat \ {0} /\ Len(Tail(q)) = Len(q) - 1
         /\ \A i \in 1..Len(Tail(q)) : /\ i + 1 \in 1..Len(q) /\ i + 1 # 1
                                       /\ Tail(q)[i] = q[i + 1]
         /\ t \in S => <<t>> \o Tail(q) \in Seq(S)
         /\ Len(<<t>> \o Tail(q)) = Len(q) /\ <<t>> \o Tail(q) # << >>
         /\ (<<t>> \o Tail(q))[1] = t
         /\ \A i \in 1..Len(q) : i # 1 => (<<t>> \o Tail(q))[i] = q[i]
<1>1. Len(q) \in Nat \ {0} /\ Tail(q) \in Seq(S) /\ Len(Tail(q)) = Len(q) - 1
      /\ \A i \in 1..Len(Tail(q)) : Tail(q)[i] = q[i + 1]
  OBVIOUS
<1>2. PICK r : r = Tail(q)
  OBVIOUS
<1>3. /\ Len(<<t>> \o r) = Len(q) /\ (<<t>> \o r)[1] = t
      /\ \A i \in 1..Len(q) : i # 1 => (<<t>> \o r)[i] = r[i - 1]
      /\ t \in S => <<t>> \o r \in Seq(S)
  BY <1>1, <1>2
<1>4. \A i \in 1..Len(q) : i # 1 => i - 1 \in 1..Len(r) /\ (i - 1) + 1 = i
  BY <1>1, <1>2
<1>5. \A i \in 1..Len(q) : i # 1 => (<<t>> \o r)[i] = q[i]
  BY <1>1, <1>2, <1>3, <1>4
<1> QED
  BY <1>1, <1>2, <1>3, <1>5

\* The first batch has the trace t.
GivenTrace(j, t) ==
  IF j.output = 0 THEN [j EXCEPT !.stage = "find", !.todo = Tail(@), !.output = t]
                  ELSE [j EXCEPT !.stage = "link", !.todo = <<t>> \o Tail(@)]

LEMMA GivenTraceKnows ==
  ASSUME NEW j \in TraceJobs, TraceKnows(j)', j.stage # "link",
         NEW t \in Numbers, t \in DOMAIN traces', traces'[t].batch = j.todo[1]
  PROVE  /\ GivenTrace(j, t) \in TraceJobs
         /\ GivenTrace(j, t).todo # << >> => JobKnows(GivenTrace(j, t))'
<1>1. /\ j.todo \in Seq(Numbers) /\ j.todo # << >> /\ t # 0
      /\ j = [op |-> "trace", stage |-> j.stage, material |-> j.material, code |-> j.code,
              todo |-> j.todo, output |-> j.output]
      /\ j.material \in Materials /\ j.code \in Nat /\ j.output \in Nat
  BY DEF TraceJobs, TraceKnows, Numbers
<1>2. PICK r : r = Tail(j.todo)
  OBVIOUS
<1>3. PICK s : s = <<t>> \o Tail(j.todo)
  OBVIOUS
<1>4. /\ j.todo[1] \in Numbers /\ r \in Seq(Numbers) /\ s \in Seq(Numbers) /\ s # << >>
      /\ \A i \in 1..Len(r) : i + 1 \in 1..Len(j.todo) /\ i + 1 # 1 /\ r[i] = j.todo[i + 1]
      /\ Len(s) = Len(j.todo) /\ s[1] = t
      /\ \A i \in 1..Len(j.todo) : i # 1 => s[i] = j.todo[i]
  BY <1>1, <1>2, <1>3, RestOfBatches
<1>5. CASE j.output = 0
  <2>1. PICK k : k = [op |-> "trace", stage |-> "find", material |-> j.material,
                      code |-> j.code, todo |-> r, output |-> t]
    OBVIOUS
  <2>2. k = GivenTrace(j, t)
    BY <1>2, <1>5, <2>1 DEF GivenTrace, TraceJobs
  <2>3. k \in TraceJobs
    BY <1>1, <1>4, <2>1 DEF TraceJobs, Numbers
  <2>4. \A i \in 1..Len(r) : <<r[i], traces'[t].batch>> \in consumption'
    BY <1>4, <1>5 DEF TraceKnows
  <2>5. k.todo # << >> => TraceKnows(k)'
    BY <1>1, <2>1, <2>4 DEF TraceKnows, Consumed
  <2> QED
    BY <2>1, <2>2, <2>3, <2>5 DEF JobKnows
<1>6. CASE j.output # 0
  <2>1. PICK k : k = [op |-> "trace", stage |-> "link", material |-> j.material,
                      code |-> j.code, todo |-> s, output |-> j.output]
    OBVIOUS
  <2>2. k = GivenTrace(j, t)
    BY <1>3, <1>6, <2>1 DEF GivenTrace, TraceJobs
  <2>3. k \in TraceJobs
    BY <1>1, <1>4, <2>1 DEF TraceJobs, Numbers
  <2>4. /\ j.output \in DOMAIN traces'
        /\ \A i \in 1..Len(j.todo) : <<j.todo[i], traces'[j.output].batch>> \in consumption'
    BY <1>6 DEF TraceKnows, Consumed
  <2>5. 1 \in 1..Len(j.todo)
    BY <1>1
  <2>6. <<traces'[t].batch, traces'[j.output].batch>> \in consumption'
    BY <2>4, <2>5
  <2>7. \A i \in 1..Len(s) : i # 1 => <<s[i], traces'[j.output].batch>> \in consumption'
    BY <1>4, <2>4
  <2>8. TraceKnows(k)'
    BY <1>4, <1>6, <2>1, <2>4, <2>6, <2>7 DEF TraceKnows, Consumed
  <2> QED
    BY <2>1, <2>2, <2>3, <2>8 DEF JobKnows
<1> QED
  BY <1>5, <1>6

LEMMA ReportProductionKeepsRecall ==
  ASSUME RecallInv, NEW c \in Clients, NEW p \in Productions, ReportProduction(c, p)
  PROVE  RecallInv'
<1>1. /\ traces' = traces /\ links' = links /\ row' = row /\ assessments' = assessments
      /\ disturbed' = disturbed /\ skipped' = skipped
      /\ consumption' = consumption \cup {<<b, p.output>> : b \in Range(p.inputs)}
  BY DEF ReportProduction, recallDocs
<1>2. PICK s : s = <<p.output>> \o p.inputs
  OBVIOUS
<1>3. PICK j : j = [op |-> "trace", stage |-> "find", material |-> p.material, code |-> 0,
                    todo |-> s, output |-> 0]
  OBVIOUS
<1>4. job' = [job EXCEPT ![c] = j]
  BY <1>2, <1>3 DEF ReportProduction, Accept
<1>5. p.output \in Numbers /\ p.inputs \in Seq(Numbers)
  BY ProductionsAssumption DEF Numbers
<1>6. /\ s \in Seq(Numbers) /\ s # << >> /\ Len(s) = Len(p.inputs) + 1 /\ s[1] = p.output
      /\ \A i \in 1..Len(s) : i # 1 => i - 1 \in 1..Len(p.inputs) /\ s[i] = p.inputs[i - 1]
  BY <1>2, <1>5
<1>7. \A i \in 1..Len(p.inputs) : p.inputs[i] \in Range(p.inputs)
  BY <1>5 DEF Range
<1>8. \A i \in 1..Len(s) : i # 1 => <<s[i], s[1]>> \in consumption'
  BY <1>1, <1>6, <1>7
<1>9. j \in TraceJobs /\ j \in RecallJobs
  BY <1>3, <1>6 DEF TraceJobs, RecallJobs, Materials
<1>10. JobKnows(j)'
  <2>1. TraceKnows(j)'
    BY <1>3, <1>6, <1>8 DEF TraceKnows
  <2> QED
    BY <1>3, <2>1 DEF JobKnows
<1>11. Onward
  BY <1>1, AssessmentsAreRows DEF Onward, RecallInv
<1>12. RecallTypeOK' /\ \A a : SameAssessment(a)
  BY <1>1 DEF RecallInv, RecallTypeOK, SameAssessment
<1>13. LinksAreConsumed' /\ AssessmentsHold' /\ LockedIsListed' /\ FrozenIsLocked'
  <2>1. LinksAreConsumed'
    BY <1>1 DEF RecallInv, RecallSound, LinksAreConsumed
  <2> QED
    BY <1>1, <2>1 DEF RecallInv, RecallSound, AssessmentsHold, LockedIsListed,
                      FrozenIsLocked, Settled, IsLocked
<1>14. ~HoldsOne(j)
  BY <1>3 DEF HoldsOne
<1> QED
  BY <1>4, <1>9, <1>10, <1>11, <1>12, <1>13, <1>14, RecallStepKeeps

\* A request that is at work on a production.
LEMMA TracingJob ==
  ASSUME RecallInv, NEW c \in Clients, job[c].op = "trace"
  PROVE  /\ job[c] \in TraceJobs /\ TraceKnows(job[c]) /\ ~HoldsOne(job[c])
         /\ job[c].todo \in Seq(Numbers) /\ job[c].todo # << >>
         /\ Head(job[c].todo) = job[c].todo[1] /\ job[c].todo[1] \in Numbers
<1>1. PICK j : j = job[c]
  OBVIOUS
<1>2. j \in RecallJobs /\ JobKnows(j) /\ j.op = "trace"
  BY <1>1 DEF RecallInv, JobsKnow
<1>3. j \in TraceJobs /\ TraceKnows(j) /\ ~HoldsOne(j)
  BY <1>2, KindsOfRecallJobs DEF JobKnows, HoldsOne
<1>4. j.todo \in Seq(Numbers) /\ j.todo # << >>
  BY <1>3 DEF TraceJobs, TraceKnows
<1>5. Head(j.todo) = j.todo[1] /\ j.todo[1] \in Numbers
  BY <1>4, RestOfBatches
<1> QED
  BY <1>1, <1>3, <1>4, <1>5

LEMMA FindTraceKeepsRecall ==
  ASSUME RecallInv, NEW c \in Clients, FindTrace(c)
  PROVE  RecallInv'
<1>1. Quiet /\ job[c].op = "trace" /\ job[c].stage = "find"
  BY DEF FindTrace, At, Quiet
<1>2. PICK j : j = job[c]
  OBVIOUS
<1>3. /\ j \in TraceJobs /\ TraceKnows(j) /\ j.stage = "find"
      /\ Head(j.todo) = j.todo[1] /\ j.todo[1] \in Numbers
  BY <1>1, <1>2, TracingJob
<1>4. CASE TracesOf(Head(j.todo)) = {}
  <2>1. PICK k : k = [j EXCEPT !.stage = "count"]
    OBVIOUS
  <2>2. job' = [job EXCEPT ![c] = k]
    BY <1>2, <1>4, <2>1 DEF FindTrace, Continue
  <2>3. k \in TraceJobs /\ k.op = "trace" /\ k.stage = "count" /\ k.todo = j.todo
        /\ k.output = j.output
    BY <1>3, <2>1 DEF TraceJobs
  <2>4. TraceKnows(k)
    BY <1>3, <2>3 DEF TraceKnows
  <2>5. k \in RecallJobs /\ JobKnows(k) /\ ~HoldsOne(k)
    BY <2>3, <2>4 DEF RecallJobs, JobKnows, HoldsOne
  <2> QED
    BY <1>1, <2>2, <2>5, QuietRecallKeeps
<1>5. CASE TracesOf(Head(j.todo)) # {}
  <2>1. PICK t \in TracesOf(Head(j.todo)) : Proceed(c, WithTrace(c, t))
    BY <1>2, <1>5 DEF FindTrace
  <2>2. t \in DOMAIN traces /\ traces[t].batch = j.todo[1] /\ t \in Numbers
    BY <1>3, <2>1, TracesAreRows DEF TracesOf, RecallInv
  <2>3. PICK k : k = GivenTrace(j, t)
    OBVIOUS
  <2>4. Proceed(c, k)
    BY <1>2, <2>1, <2>3 DEF GivenTrace, WithTrace
  <2>5. traces' = traces /\ TraceKnows(j)'
    <3>1. traces' = traces /\ Onward
      BY <1>1, QuietIs DEF Quiet, recallData, recallDocs
    <3> QED
      BY <1>3, <3>1, TraceKnowsOn
  <2>6. k \in TraceJobs /\ (k.todo # << >> => JobKnows(k)')
    BY <1>3, <2>2, <2>3, <2>5, GivenTraceKnows
  <2>7. CASE k.todo = << >>
    <3>1. job' = [job EXCEPT ![c] = NoJob]
      BY <2>4, <2>7 DEF Proceed, Reply, Continue
    <3> QED
      BY <1>1, <3>1, NoRecallJob, QuietRecallKeeps
  <2>8. CASE k.todo # << >>
    <3>1. job' = [job EXCEPT ![c] = k]
      BY <2>4, <2>8 DEF Proceed, Continue
    <3>2. k \in RecallJobs /\ JobKnows(k)' /\ ~HoldsOne(k)
      BY <2>6, <2>8 DEF RecallJobs, HoldsOne, TraceJobs
    <3> QED
      BY <1>1, <3>1, <3>2, QuietIs, RecallStepKeeps
  <2> QED
    BY <2>7, <2>8
<1> QED
  BY <1>4, <1>5

LEMMA CountTracesKeepsRecall ==
  ASSUME RecallInv, NEW c \in Clients, CountTraces(c)
  PROVE  RecallInv'
<1>1. Quiet /\ job[c].op = "trace" /\ job[c].stage = "count"
  BY DEF CountTraces, At, Quiet
<1>2. PICK j : j = job[c]
  OBVIOUS
<1>3. j \in TraceJobs /\ TraceKnows(j) /\ j.stage = "count"
  BY <1>1, <1>2, TracingJob
<1>4. PICK n : n = NextCode(j.material)
  OBVIOUS
<1>5. n \in Nat
  <2>1. IsFiniteSet({t \in DOMAIN traces : traces[t].material = j.material})
    BY TracesAreRows, FS_Subset DEF RecallInv
  <2> QED
    BY <1>4, <2>1, FS_CardinalityType DEF NextCode
<1>6. PICK k : k = [j EXCEPT !.stage = "insert", !.code = n]
  OBVIOUS
<1>7. job' = [job EXCEPT ![c] = k]
  BY <1>2, <1>4, <1>6 DEF CountTraces, Continue
<1>8. k \in TraceJobs /\ k.op = "trace" /\ k.stage = "insert" /\ k.todo = j.todo
      /\ k.output = j.output
  BY <1>3, <1>5, <1>6 DEF TraceJobs
<1>9. TraceKnows(k)
  BY <1>3, <1>8 DEF TraceKnows
<1>10. k \in RecallJobs /\ JobKnows(k) /\ ~HoldsOne(k)
  BY <1>8, <1>9 DEF RecallJobs, JobKnows, HoldsOne
<1> QED
  BY <1>1, <1>7, <1>10, QuietRecallKeeps

\* Traces or links were written, and it was noted.
Rewritten ==
  /\ traces' \in Seq(TraceRow) /\ Len(traces) <= Len(traces')
  /\ \A t \in DOMAIN traces : traces'[t].batch = traces[t].batch
  /\ links \subseteq links' /\ links' \subseteq (DOMAIN traces') \X (DOMAIN traces')
  /\ \A l \in links' : l \in links \/ <<traces'[l[1]].batch, traces'[l[2]].batch>> \in consumption
  /\ \A t \in DOMAIN traces' : traces'[t].frozen =>
       (t \in DOMAIN traces /\ traces[t].frozen) \/ IsLocked(traces'[t].batch)
  /\ row' = row /\ assessments' = assessments /\ consumption' = consumption
  /\ skipped' = skipped /\ Disturb

LEMMA RewrittenIs ==
  ASSUME RecallInv, Rewritten
  PROVE  /\ Onward /\ RecallTypeOK' /\ \A a : SameAssessment(a)
         /\ LinksAreConsumed' /\ AssessmentsHold' /\ LockedIsListed' /\ FrozenIsLocked'
<1>1. /\ DOMAIN traces = 1..Len(traces) /\ Len(traces) \in Nat
      /\ \A l \in links : l[1] \in DOMAIN traces /\ l[2] \in DOMAIN traces
  BY TracesAreRows DEF RecallInv
<1>2. DOMAIN traces' = 1..Len(traces') /\ Len(traces') \in Nat
  BY DEF Rewritten
<1>3. DOMAIN traces \subseteq DOMAIN traces'
  BY <1>1, <1>2 DEF Rewritten
<1>4. /\ row' = row /\ assessments' = assessments /\ consumption' = consumption
      /\ skipped' = skipped
  BY DEF Rewritten
<1>5. disturbed' = disturbed \cup {a \in DOMAIN assessments :
                                     assessments[a].status = "CALCULATING"}
  BY DEF Rewritten, Disturb
<1>6. \A t \in DOMAIN traces : t \in DOMAIN traces' /\ traces'[t].batch = traces[t].batch
  BY <1>3 DEF Rewritten
<1>7. Onward
  BY <1>4, <1>5, <1>6, AssessmentsAreRows DEF Onward, RecallInv
<1>8. RecallTypeOK'
  BY RowsKeepTypes DEF Rewritten
<1>9. \A a : SameAssessment(a)
  BY <1>4 DEF SameAssessment
<1>10. LinksAreConsumed'
  <2> SUFFICES ASSUME NEW l \in links'
               PROVE  <<traces'[l[1]].batch, traces'[l[2]].batch>> \in consumption
    BY <1>4 DEF LinksAreConsumed
  <2>1. CASE l \in links
    <3>1. <<traces[l[1]].batch, traces[l[2]].batch>> \in consumption
      BY <2>1 DEF RecallInv, RecallSound, LinksAreConsumed
    <3> QED
      BY <1>1, <1>6, <2>1, <3>1
  <2> QED
    BY <2>1 DEF Rewritten
<1>11. AssessmentsHold' /\ LockedIsListed'
  BY <1>4 DEF RecallInv, RecallSound, AssessmentsHold, LockedIsListed, Settled, IsLocked
<1>12. FrozenIsLocked'
  <2> SUFFICES ASSUME NEW t \in DOMAIN traces', traces'[t].frozen
               PROVE  IsLocked(traces'[t].batch)
    BY <1>4 DEF FrozenIsLocked, IsLocked
  <2>1. CASE t \in DOMAIN traces /\ traces[t].frozen
    BY <1>6, <2>1 DEF RecallInv, RecallSound, FrozenIsLocked
  <2> QED
    BY <2>1 DEF Rewritten
<1> QED
  BY <1>7, <1>8, <1>9, <1>10, <1>11, <1>12

LEMMA RewritingKeeps ==
  ASSUME RecallInv, Rewritten, NEW c \in Clients, NEW j \in RecallJobs,
         job' = [job EXCEPT ![c] = j], JobKnows(j)',
         HoldsOne(j) => Holds(c) /\ job[c].no = j.no
  PROVE  RecallInv'
<1>1. HoldsOne(j) => \A d \in Clients \ {c} : Holds(d) => job[d].no # j.no
  BY DEF RecallInv, RecallSound, OneHolder
<1> QED
  BY <1>1, RewrittenIs, RecallStepKeeps

LEMMA InsertTraceKeepsRecall ==
  ASSUME RecallInv, NEW c \in Clients, InsertTrace(c)
  PROVE  RecallInv'
<1>1. /\ links' = links /\ row' = row /\ assessments' = assessments
      /\ consumption' = consumption /\ skipped' = skipped
      /\ job[c].op = "trace" /\ job[c].stage = "insert"
  BY DEF InsertTrace, At
<1>2. CASE CodeIsTaken(job[c].material, job[c].code)
  <2>1. Quiet /\ job' = [job EXCEPT ![c] = NoJob]
    BY <1>1, <1>2 DEF InsertTrace, Reply, Continue, Quiet, recallData, recallDocs, recallPast
  <2> QED
    BY <2>1, NoRecallJob, QuietRecallKeeps
<1>3. CASE ~CodeIsTaken(job[c].material, job[c].code)
  <2>1. PICK j : j = job[c]
    OBVIOUS
  <2>2. /\ j \in TraceJobs /\ TraceKnows(j) /\ j.stage = "insert"
        /\ Head(j.todo) = j.todo[1] /\ j.todo[1] \in Numbers
    BY <1>1, <2>1, TracingJob
  <2>3. PICK new : new = [batch |-> j.todo[1], material |-> j.material, code |-> j.code,
                          stock |-> "IN_STOCK", frozen |-> FALSE]
    OBVIOUS
  <2>4. /\ traces' = Append(traces, new) /\ Disturb
        /\ Proceed(c, WithTrace(c, Len(traces) + 1))
    BY <1>3, <2>1, <2>2, <2>3 DEF InsertTrace
  <2>5. new \in TraceRow
    BY <2>2, <2>3 DEF TraceRow, TraceJobs, StockOf
  <2>6. /\ traces \in Seq(TraceRow) /\ Len(traces) \in Nat /\ DOMAIN traces = 1..Len(traces)
        /\ links \subseteq (DOMAIN traces) \X (DOMAIN traces)
    BY TracesAreRows DEF RecallInv, RecallTypeOK
  <2>7. /\ traces' \in Seq(TraceRow) /\ Len(traces') = Len(traces) + 1
        /\ DOMAIN traces' = 1..(Len(traces) + 1)
        /\ \A t \in DOMAIN traces : traces'[t] = traces[t]
        /\ traces'[Len(traces) + 1] = new
    BY <2>4, <2>5, <2>6
  <2>8. Rewritten
    <3>1. \A t \in DOMAIN traces' : t \in DOMAIN traces \/ t = Len(traces) + 1
      BY <2>6, <2>7
    <3>2. links' \subseteq (DOMAIN traces') \X (DOMAIN traces') /\ Len(traces) <= Len(traces')
      BY <1>1, <2>6, <2>7
    <3>3. \A t \in DOMAIN traces' : traces'[t].frozen => t \in DOMAIN traces /\ traces[t].frozen
      BY <2>3, <2>7, <3>1
    <3> QED
      BY <1>1, <2>4, <2>7, <3>2, <3>3 DEF Rewritten
  <2>9. PICK t \in Numbers : t = Len(traces) + 1
    BY <2>6 DEF Numbers
  <2>10. t \in DOMAIN traces' /\ traces'[t].batch = j.todo[1]
    BY <2>3, <2>6, <2>7, <2>9
  <2>11. PICK k : k = GivenTrace(j, t)
    OBVIOUS
  <2>12. Proceed(c, k)
    BY <2>1, <2>4, <2>9, <2>11 DEF GivenTrace, WithTrace
  <2>13. TraceKnows(j)'
    BY <2>2, <2>8, RewrittenIs, TraceKnowsOn
  <2>14. k \in TraceJobs /\ (k.todo # << >> => JobKnows(k)')
    BY <2>2, <2>10, <2>11, <2>13, GivenTraceKnows
  <2>15. CASE k.todo = << >>
    <3>1. job' = [job EXCEPT ![c] = NoJob]
      BY <2>12, <2>15 DEF Proceed, Reply, Continue
    <3> QED
      BY <2>8, <3>1, NoRecallJob, RewritingKeeps
  <2>16. CASE k.todo # << >>
    <3>1. job' = [job EXCEPT ![c] = k]
      BY <2>12, <2>16 DEF Proceed, Continue
    <3>2. k \in RecallJobs /\ JobKnows(k)' /\ ~HoldsOne(k)
      BY <2>14, <2>16 DEF RecallJobs, HoldsOne, TraceJobs
    <3> QED
      BY <2>8, <3>1, <3>2, RewritingKeeps
  <2> QED
    BY <2>15, <2>16
<1> QED
  BY <1>2, <1>3

LEMMA LinkTraceKeepsRecall ==
  ASSUME RecallInv, NEW c \in Clients, LinkTrace(c)
  PROVE  RecallInv'
<1>1. /\ traces' = traces /\ row' = row /\ assessments' = assessments
      /\ consumption' = consumption /\ skipped' = skipped /\ Disturb
      /\ job[c].op = "trace" /\ job[c].stage = "link"
  BY DEF LinkTrace, At
<1>2. PICK j : j = job[c]
  OBVIOUS
<1>3. /\ j \in TraceJobs /\ TraceKnows(j) /\ j.stage = "link" /\ j.todo \in Seq(Numbers)
      /\ j.todo # << >> /\ Head(j.todo) = j.todo[1]
  BY <1>1, <1>2, TracingJob
<1>4. /\ j.todo[1] \in DOMAIN traces /\ j.output \in DOMAIN traces /\ j.output # 0
      /\ <<traces[j.todo[1]].batch, traces[j.output].batch>> \in consumption
  BY <1>3 DEF TraceKnows, Consumed
<1>5. PICK l : l = <<j.todo[1], j.output>>
  OBVIOUS
<1>6. links' = links \cup {l}
  BY <1>2, <1>3, <1>5 DEF LinkTrace
<1>7. l \in (DOMAIN traces) \X (DOMAIN traces)
      /\ <<traces[l[1]].batch, traces[l[2]].batch>> \in consumption
  BY <1>4, <1>5
<1>8. Rewritten
  <2>1. /\ traces \in Seq(TraceRow) /\ Len(traces) \in Nat
        /\ links \subseteq (DOMAIN traces) \X (DOMAIN traces)
    BY TracesAreRows DEF RecallInv, RecallTypeOK
  <2>2. Len(traces) <= Len(traces') /\ links' \subseteq (DOMAIN traces') \X (DOMAIN traces')
    BY <1>1, <1>6, <1>7, <2>1
  <2>3. \A k \in links' : k \in links \/ <<traces'[k[1]].batch, traces'[k[2]].batch>> \in consumption
    BY <1>1, <1>6, <1>7
  <2> QED
    BY <1>1, <1>6, <2>1, <2>2, <2>3 DEF Rewritten
<1>9. PICK r : r = Tail(j.todo)
  OBVIOUS
<1>10. /\ r \in Seq(Numbers)
       /\ \A i \in 1..Len(r) : i + 1 \in 1..Len(j.todo) /\ i + 1 # 1 /\ r[i] = j.todo[i + 1]
  BY <1>3, <1>9, RestOfBatches
<1>11. PICK k : k = [op |-> "trace", stage |-> "find", material |-> j.material,
                     code |-> j.code, todo |-> r, output |-> j.output]
  OBVIOUS
<1>12. k = [j EXCEPT !.stage = "find", !.todo = Tail(@)]
  <2>1. j \in TraceJobs /\ Tail(j.todo) = r
    BY <1>3, <1>9
  <2>2. PICK m : m = [j EXCEPT !.stage = "find", !.todo = r]
    OBVIOUS
  <2>3. m = [op |-> "trace", stage |-> "find", material |-> j.material,
             code |-> j.code, todo |-> r, output |-> j.output]
    BY <2>1, <2>2 DEF TraceJobs
  <2> QED
    BY <1>11, <2>1, <2>2, <2>3
<1>13. Proceed(c, k)
  BY <1>2, <1>12 DEF LinkTrace
<1>14. k \in TraceJobs /\ ~HoldsOne(k)
  BY <1>3, <1>10, <1>11 DEF TraceJobs, HoldsOne
<1>15. k.todo # << >> => JobKnows(k)'
  <2>1. \A i \in 1..Len(r) : <<r[i], traces'[j.output].batch>> \in consumption'
    BY <1>1, <1>3, <1>4, <1>10 DEF TraceKnows, Consumed
  <2>2. k.todo # << >> => TraceKnows(k)'
    BY <1>1, <1>4, <1>11, <2>1 DEF TraceKnows, Consumed
  <2> QED
    BY <1>11, <2>2 DEF JobKnows
<1>16. CASE k.todo = << >>
  <2>1. job' = [job EXCEPT ![c] = NoJob]
    BY <1>13, <1>16 DEF Proceed, Reply, Continue
  <2> QED
    BY <1>8, <2>1, NoRecallJob, RewritingKeeps
<1>17. CASE k.todo # << >>
  <2>1. job' = [job EXCEPT ![c] = k]
    BY <1>13, <1>17 DEF Proceed, Continue
  <2>2. k \in RecallJobs /\ JobKnows(k)'
    BY <1>14, <1>15, <1>17 DEF RecallJobs
  <2> QED
    BY <1>8, <1>14, <2>1, <2>2, RewritingKeeps
<1> QED
  BY <1>16, <1>17

LEMMA StockInKeepsRecall ==
  ASSUME RecallInv, NEW t \in DOMAIN traces, StockIn(t)
  PROVE  RecallInv'
<1>1. /\ links' = links /\ row' = row /\ assessments' = assessments
      /\ consumption' = consumption /\ skipped' = skipped /\ Disturb /\ job' = job
      /\ traces' = [traces EXCEPT ![t].stock = "IN_STOCK"]
  BY DEF StockIn, Once
<1>2. /\ traces \in Seq(TraceRow) /\ Len(traces) \in Nat /\ DOMAIN traces = 1..Len(traces)
      /\ links \subseteq (DOMAIN traces) \X (DOMAIN traces)
      /\ \A u \in DOMAIN traces : traces[u] \in TraceRow
  BY TracesAreRows DEF RecallInv, RecallTypeOK
<1>3. PICK new : new = [traces[t] EXCEPT !.stock = "IN_STOCK"]
  OBVIOUS
<1>4. new \in TraceRow /\ new.batch = traces[t].batch /\ new.frozen = traces[t].frozen
  BY <1>2, <1>3 DEF TraceRow, StockOf
<1>5. traces' = [traces EXCEPT ![t] = new]
  BY <1>1, <1>3
<1>6. traces' \in Seq(TraceRow) /\ Len(traces') = Len(traces) /\ DOMAIN traces' = DOMAIN traces
      /\ \A u \in DOMAIN traces : traces'[u] = IF u = t THEN new ELSE traces[u]
  BY <1>2, <1>4, <1>5
<1>7. Rewritten
  <2>1. \A u \in DOMAIN traces : /\ traces'[u].batch = traces[u].batch
                                 /\ traces'[u].frozen => traces[u].frozen
    BY <1>4, <1>6
  <2>2. Len(traces) <= Len(traces') /\ links' \subseteq (DOMAIN traces') \X (DOMAIN traces')
    BY <1>1, <1>2, <1>6
  <2> QED
    BY <1>1, <1>6, <2>1, <2>2 DEF Rewritten
<1> QED
  BY <1>1, <1>7, RewrittenIs, IdleStepKeeps

-----------------------------------------------------------------------------
(* The searches *)

LEMMA NeighboursAreSteps ==
  ASSUME RecallTypeOK, NEW direction \in Directions, NEW v
  PROVE  /\ \A u : u \in Neighbours(direction, v) <=>
                   \E r \in Walked(direction) : r[1] = v /\ r[2] = u
         /\ Neighbours(direction, v) \subseteq DOMAIN traces
         /\ \A r \in Walked(direction) : r[1] \in DOMAIN traces /\ r[2] \in DOMAIN traces
<1>1. \A l \in links : l[1] \in DOMAIN traces /\ l[2] \in DOMAIN traces
  BY TracesAreRows
<1>2. CASE direction = "forward"
  BY <1>1, <1>2 DEF Neighbours, Walked
<1>3. CASE direction = "backward"
  <2>1. PICK R : R = {<<l[2], l[1]>> : l \in links}
    OBVIOUS
  <2>2. \A r \in R : \E l \in links : r[1] = l[2] /\ r[2] = l[1]
    BY <2>1
  <2>3. ASSUME NEW l \in links PROVE \E r \in R : r[1] = l[2] /\ r[2] = l[1]
    <3>1. PICK r : r = <<l[2], l[1]>>
      OBVIOUS
    <3>2. r \in R /\ r[1] = l[2] /\ r[2] = l[1]
      BY <2>1, <3>1
    <3> QED
      BY <3>2
  <2>4. Walked(direction) = R /\ Neighbours(direction, v) = {l[1] : l \in {k \in links : k[2] = v}}
    BY <1>3, <2>1 DEF Neighbours, Walked
  <2> QED
    BY <1>1, <2>2, <2>3, <2>4
<1> QED
  BY <1>2, <1>3 DEF Directions

\* What a search has been at, with the trace v.
Visited(s, v) == [t \in DOMAIN s.nodes \cup {v} |->
                    IF t \in DOMAIN s.nodes THEN s.nodes[t] ELSE traces[t].stock]

\* The neighbours it has not been at, as entries of the queue.
NewNext(direction, s, v) == Neighbours(direction, v) \ (DOMAIN s.nodes \cup {v})

Queued(next, depth) ==
  [i \in 1..Cardinality(next) |-> [trace |-> SetToSeq(next)[i], depth |-> depth]]

LEMMA TurnedCut ==
  ASSUME NEW direction, NEW s, Cardinality(DOMAIN s.nodes) >= MaxNodes
  PROVE  Turned(direction, s) = [s EXCEPT !.queue = << >>, !.cut = TRUE]
BY DEF Turned

LEMMA TurnedDrops ==
  ASSUME NEW direction, NEW s, NEW at, at = Head(s.queue),
         ~(Cardinality(DOMAIN s.nodes) >= MaxNodes),
         at.trace \in DOMAIN s.nodes \/ TooDeep(at.depth)
  PROVE  Turned(direction, s) = [s EXCEPT !.queue = Tail(@)]
BY DEF Turned

\* The search s is to visit at, and goes on with the queue w and the nodes f.
Visits(direction, s, at, w, f) ==
  /\ at = Head(s.queue) /\ ~(Cardinality(DOMAIN s.nodes) >= MaxNodes)
  /\ ~(at.trace \in DOMAIN s.nodes \/ TooDeep(at.depth))
  /\ w = Tail(s.queue) \o Queued(NewNext(direction, s, at.trace), at.depth + 1)
  /\ f = Visited(s, at.trace)

LEMMA TurnedVisits ==
  ASSUME NEW direction, NEW s \in Searches, NEW at, NEW w, NEW f,
         Visits(direction, s, at, w, f)
  PROVE  Turned(direction, s) = [queue |-> w, nodes |-> f, cut |-> s.cut]
<1>1. DOMAIN Visited(s, at.trace) = DOMAIN s.nodes \cup {at.trace}
  BY DEF Visited
<1>2. Turned(direction, s) = [s EXCEPT !.nodes = f, !.queue = w]
  BY <1>1 DEF Turned, NewNext, Visited, Queued, Visits
<1> QED
  BY <1>2 DEF Searches

LEMMA QueuedIs ==
  ASSUME NEW next, IsFiniteSet(next), next \subseteq Numbers, NEW depth \in Nat
  PROVE  /\ Queued(next, depth) \in Seq(Entries)
         /\ \A i \in 1..Len(Queued(next, depth)) : /\ Queued(next, depth)[i].depth = depth
                                                   /\ Queued(next, depth)[i].trace \in next
         /\ \A u \in next : \E i \in 1..Len(Queued(next, depth)) :
                              Queued(next, depth)[i].trace = u
<1>1. PICK s : s = SetToSeq(next)
  OBVIOUS
<1>2. PICK n \in Nat : n = Cardinality(next)
  BY SequenceOfSet
<1>3. PICK x : x = [i \in 1..n |-> [trace |-> s[i], depth |-> depth]]
  OBVIOUS
<1>4. (\A i \in 1..n : s[i] \in next) /\ \A u \in next : \E i \in 1..n : s[i] = u
  BY <1>1, <1>2, SequenceOfSet
<1>5. x \in Seq(Entries) /\ Len(x) = n
  <2>1. \A i \in 1..n : [trace |-> s[i], depth |-> depth] \in Entries
    BY <1>4 DEF Entries
  <2> QED
    BY <1>3, <2>1
<1>6. \A i \in 1..n : x[i].depth = depth /\ x[i].trace = s[i]
  BY <1>3
<1>7. x = Queued(next, depth)
  BY <1>1, <1>2, <1>3 DEF Queued
<1> QED
  BY <1>4, <1>5, <1>6, <1>7

\* A search, and what it keeps.
LEMMA FieldsOfSearch ==
  ASSUME NEW s \in Searches
  PROVE  /\ s.queue \in Seq(Entries) /\ DOMAIN s.nodes \subseteq Numbers
         /\ \A t \in DOMAIN s.nodes : s.nodes[t] \in StockOf
         /\ s.nodes \in UNION {[S -> StockOf] : S \in SUBSET Numbers} /\ s.cut \in BOOLEAN
<1>1. /\ s.queue \in Seq(Entries) /\ s.cut \in BOOLEAN
      /\ s.nodes \in UNION {[S -> StockOf] : S \in SUBSET Numbers}
  BY DEF Searches
<1>2. PICK S \in SUBSET Numbers : s.nodes \in [S -> StockOf]
  BY <1>1
<1> QED
  BY <1>1, <1>2

LEMMA SearchOf ==
  ASSUME NEW q \in Seq(Entries), NEW S \in SUBSET Numbers, NEW f \in [S -> StockOf],
         NEW cut \in BOOLEAN
  PROVE  [queue |-> q, nodes |-> f, cut |-> cut] \in Searches
<1>1. f \in UNION {[T -> StockOf] : T \in SUBSET Numbers}
  OBVIOUS
<1> QED
  BY <1>1 DEF Searches

LEMMA TurnedKnows ==
  ASSUME RecallInv, NEW problem, NEW no, NEW direction \in Directions, NEW s \in Searches,
         s.queue # << >>, DirectionKnows(problem, no, direction, s)
  PROVE  /\ Turned(direction, s) \in Searches
         /\ DirectionKnows(problem, no, direction, Turned(direction, s))
<1>1. PICK q : q = s.queue
  OBVIOUS
<1>2. PICK at : at = Head(q)
  OBVIOUS
<1>3. /\ q \in Seq(Entries) /\ q # << >> /\ DOMAIN s.nodes \subseteq Numbers
      /\ s.cut \in BOOLEAN /\ s.nodes \in UNION {[S -> StockOf] : S \in SUBSET Numbers}
      /\ \A t \in DOMAIN s.nodes : s.nodes[t] \in StockOf
  BY <1>1, FieldsOfSearch
<1>4. /\ Len(q) \in Nat \ {0} /\ at = q[1] /\ at \in Entries /\ 1 \in 1..Len(q)
      /\ Tail(q) \in Seq(Entries) /\ Len(Tail(q)) = Len(q) - 1
      /\ Follows(q, Tail(q), << >>)
  BY <1>2, <1>3, TailFollows
<1>5. at.trace \in Numbers /\ at.depth \in Nat /\ at.trace \in DOMAIN traces
  BY <1>1, <1>4 DEF Entries, DirectionKnows
<1>6. \A i \in 1..Len(q) : q[i].trace \in DOMAIN traces
  BY <1>1 DEF DirectionKnows
<1>7. PICK new : new = Turned(direction, s)
  OBVIOUS
<1>8. s = [queue |-> q, nodes |-> s.nodes, cut |-> s.cut]
  BY <1>1 DEF Searches
<1>9. CASE Cardinality(DOMAIN s.nodes) >= MaxNodes
  <2>1. new = [s EXCEPT !.queue = << >>, !.cut = TRUE]
    BY <1>7, <1>9, TurnedCut
  <2>2. new.queue = << >> /\ new.cut = TRUE /\ new.nodes = s.nodes /\ new \in Searches
    <3>1. << >> \in Seq(Entries) /\ TRUE \in BOOLEAN
      OBVIOUS
    <3>2. new = [queue |-> << >>, nodes |-> s.nodes, cut |-> TRUE]
      BY <2>1 DEF Searches
    <3> QED
      BY <1>3, <3>1, <3>2 DEF Searches
  <2>3. DirectionKnows(problem, no, direction, new)
    BY <2>2 DEF DirectionKnows
  <2> QED
    BY <1>7, <2>2, <2>3
<1>10. CASE /\ ~(Cardinality(DOMAIN s.nodes) >= MaxNodes)
            /\ at.trace \in DOMAIN s.nodes \/ TooDeep(at.depth)
  <2>1. PICK w : w = Tail(q)
    OBVIOUS
  <2>2. new = [s EXCEPT !.queue = w]
    BY <1>1, <1>2, <1>7, <1>10, <2>1, TurnedDrops
  <2>3. new.queue = w /\ new.cut = s.cut /\ new.nodes = s.nodes /\ new \in Searches
    BY <1>4, <2>1, <2>2 DEF Searches
  <2>4. \A i \in 1..Len(w) : w[i].trace \in DOMAIN traces
    <3>1. \A i \in 1..Len(w) : i + 1 \in 1..Len(q) /\ w[i] = q[i + 1]
      BY <1>3, <1>4, <2>1
    <3> QED
      BY <1>6, <3>1
  <2>5. at.trace \in DOMAIN s.nodes \/ at.depth > MaxDepth
    BY <1>10 DEF TooDeep
  <2>6. ASSUME no \notin disturbed, ~s.cut
        PROVE  RightSearch(Walked(direction), problem, DOMAIN s.nodes, w)
    <3>1. RightSearch(Walked(direction), problem, DOMAIN s.nodes, q)
      BY <1>1, <2>6 DEF DirectionKnows
    <3> QED
      BY <1>4, <2>1, <2>5, <3>1, DroppingKeeps
  <2>7. DirectionKnows(problem, no, direction, new)
    BY <2>3, <2>4, <2>6 DEF DirectionKnows
  <2> QED
    BY <1>7, <2>3, <2>7
<1>11. CASE /\ ~(Cardinality(DOMAIN s.nodes) >= MaxNodes)
            /\ ~(at.trace \in DOMAIN s.nodes \/ TooDeep(at.depth))
  <2>1. PICK next : next = NewNext(direction, s, at.trace)
    OBVIOUS
  <2>2. /\ next \subseteq DOMAIN traces /\ next \subseteq Numbers /\ IsFiniteSet(next)
        /\ next \subseteq Neighbours(direction, at.trace)
    <3>1. /\ IsFiniteSet(DOMAIN traces) /\ DOMAIN traces \subseteq Numbers
          /\ Neighbours(direction, at.trace) \subseteq DOMAIN traces
      BY TracesAreRows, NeighboursAreSteps DEF RecallInv
    <3>2. next \subseteq Neighbours(direction, at.trace)
      BY <2>1 DEF NewNext
    <3> QED
      BY <3>1, <3>2, FS_Subset
  <2>3. PICK x : x = Queued(next, at.depth + 1)
    OBVIOUS
  <2>4. at.depth + 1 \in Nat
    BY <1>5
  <2>5. /\ x \in Seq(Entries)
        /\ \A i \in 1..Len(x) : x[i].depth = at.depth + 1 /\ x[i].trace \in next
        /\ \A u \in next : \E i \in 1..Len(x) : x[i].trace = u
    BY <2>2, <2>3, <2>4, QueuedIs
  <2>6. PICK w : w = Tail(q) \o x
    OBVIOUS
  <2>7. w \in Seq(Entries) /\ Follows(q, w, x)
    BY <1>3, <2>5, <2>6, JoinFollows
  <2>8. PICK f : f = Visited(s, at.trace)
    OBVIOUS
  <2>9. /\ DOMAIN f = DOMAIN s.nodes \cup {at.trace}
        /\ \A t \in DOMAIN f : f[t] = IF t \in DOMAIN s.nodes THEN s.nodes[t] ELSE traces[t].stock
    BY <2>8 DEF Visited
  <2>10. f \in [DOMAIN s.nodes \cup {at.trace} -> StockOf]
    <3>1. traces[at.trace].stock \in StockOf
      <4>1. traces[at.trace] \in TraceRow
        BY <1>5, TracesAreRows DEF RecallInv
      <4> QED
        BY <4>1 DEF TraceRow
    <3>2. \A t \in DOMAIN s.nodes \cup {at.trace} :
            (IF t \in DOMAIN s.nodes THEN s.nodes[t] ELSE traces[t].stock) \in StockOf
      BY <1>3, <3>1
    <3> QED
      BY <2>8, <3>2 DEF Visited
  <2>11. new = [queue |-> w, nodes |-> f, cut |-> s.cut]
    <3>1. at = Head(s.queue)
      BY <1>1, <1>2
    <3>2. w = Tail(s.queue) \o Queued(NewNext(direction, s, at.trace), at.depth + 1)
      BY <1>1, <2>1, <2>3, <2>6
    <3>3. Visits(direction, s, at, w, f)
      BY <1>11, <2>8, <3>1, <3>2 DEF Visits
    <3>4. Turned(direction, s) = [queue |-> w, nodes |-> f, cut |-> s.cut]
      BY <3>3, TurnedVisits
    <3> QED
      BY <1>7, <3>4
  <2>13. new \in Searches
    <3>1. DOMAIN s.nodes \cup {at.trace} \in SUBSET Numbers
      BY <1>3, <1>5
    <3> QED
      BY <1>3, <2>7, <2>10, <2>11, <3>1, SearchOf
  <2>14. \A i \in 1..Len(w) : w[i].trace \in DOMAIN traces
    <3>1. \A k \in 1..Len(w) : \/ \E i \in 1..Len(q) : w[k] = q[i]
                               \/ \E i \in 1..Len(x) : w[k] = x[i]
      BY <2>7, FollowsElements
    <3>2. \A i \in 1..Len(x) : x[i].trace \in DOMAIN traces
      BY <2>2, <2>5
    <3> QED
      BY <1>6, <3>1, <3>2
  <2>15. DOMAIN f \subseteq DOMAIN traces
    BY <1>5, <2>9 DEF DirectionKnows
  <2>16. no \notin disturbed => \A t \in DOMAIN f : f[t] = traces[t].stock
    BY <2>9 DEF DirectionKnows
  <2>17. ASSUME no \notin disturbed, ~s.cut
         PROVE  RightSearch(Walked(direction), problem, DOMAIN f, w)
    <3>1. RightSearch(Walked(direction), problem, DOMAIN s.nodes, q)
      BY <1>1, <2>17 DEF DirectionKnows
    <3>2. q[1].depth \in 0..MaxDepth
      BY <1>4, <1>5, <1>11, LimitsAssumption DEF TooDeep
    <3>3. \A u : u \in Neighbours(direction, at.trace) <=>
                 \E r \in Walked(direction) : r[1] = at.trace /\ r[2] = u
      BY NeighboursAreSteps DEF RecallInv
    <3>4. \A i \in 1..Len(x) : /\ x[i].depth = q[1].depth + 1
                               /\ \E r \in Walked(direction) : /\ r[1] = q[1].trace
                                                               /\ r[2] = x[i].trace
      BY <1>4, <2>2, <2>5, <3>3
    <3>5. \A r \in Walked(direction) : r[1] = q[1].trace =>
            r[2] \in DOMAIN s.nodes \cup {q[1].trace} \/ \E i \in 1..Len(x) : x[i].trace = r[2]
      <4> TAKE r \in Walked(direction)
      <4> HAVE r[1] = q[1].trace
      <4>1. r[2] \in Neighbours(direction, at.trace)
        BY <1>4, <3>3
      <4>2. r[2] \in next \/ r[2] \in DOMAIN s.nodes \cup {at.trace}
        BY <2>1, <4>1 DEF NewNext
      <4> QED
        BY <1>4, <2>5, <4>2
    <3>6. RightSearch(Walked(direction), problem, DOMAIN s.nodes \cup {q[1].trace}, w)
      <4>1. PICK rel : rel = Walked(direction)
        OBVIOUS
      <4>2. PICK n : n = DOMAIN s.nodes
        OBVIOUS
      <4>3. RightSearch(rel, problem, n, q)
        BY <3>1, <4>1, <4>2
      <4>4. \A i \in 1..Len(x) : /\ x[i].depth = q[1].depth + 1
                                 /\ \E r \in rel : r[1] = q[1].trace /\ r[2] = x[i].trace
        BY <3>4, <4>1
      <4>5. \A r \in rel : r[1] = q[1].trace =>
              r[2] \in n \cup {q[1].trace} \/ \E i \in 1..Len(x) : x[i].trace = r[2]
        BY <3>5, <4>1, <4>2
      <4>6. Follows(q, w, x)
        BY <2>7
      <4>7. RightSearch(rel, problem, n \cup {q[1].trace}, w)
        BY <3>2, <4>3, <4>4, <4>5, <4>6, VisitingKeeps
      <4> QED
        BY <4>1, <4>2, <4>7
    <3> QED
      BY <1>4, <2>9, <3>6
  <2>18. DirectionKnows(problem, no, direction, new)
    BY <2>11, <2>14, <2>15, <2>16, <2>17 DEF DirectionKnows
  <2> QED
    BY <1>7, <2>13, <2>18
<1> QED
  BY <1>9, <1>10, <1>11

-----------------------------------------------------------------------------
(* The steps of an assessment *)

LEMMA AssessRecallKeepsRecall ==
  ASSUME RecallInv, NEW c \in Clients, NEW t \in DOMAIN traces, AssessRecall(c, t)
  PROVE  RecallInv'
<1>1. Len(assessments) \in Nat /\ t \in Numbers
  BY AssessmentsAreRows, TracesAreRows DEF RecallInv
<1>2. PICK n \in Numbers : n = Len(assessments) + 1
  BY <1>1 DEF Numbers
<1>3. PICK j : j = [op |-> "assess", stage |-> "create", problem |-> t, no |-> n]
  OBVIOUS
<1>4. Quiet /\ job' = [job EXCEPT ![c] = j]
  BY <1>2, <1>3 DEF AssessRecall, Accept, Quiet
<1>5. j \in RecallJobs /\ ~HoldsOne(j)
  BY <1>1, <1>3 DEF RecallJobs, CreateJobs, HoldsOne
<1>6. n <= Len(assessments) + 1
  BY <1>1, <1>2
<1>7. JobKnows(j)
  BY <1>3, <1>6 DEF JobKnows
<1> QED
  BY <1>4, <1>5, <1>7, QuietRecallKeeps

\* The assessment of a request is not settled yet.
LEMMA HolderKnows ==
  ASSUME RecallInv, NEW d \in Clients, Holds(d)
  PROVE  /\ job[d].no \in DOMAIN assessments
         /\ assessments[job[d].no].status = "CALCULATING"
<1>1. PICK j : j = job[d]
  OBVIOUS
<1>2. j \in RecallJobs /\ JobKnows(j) /\ j.op = "assess" /\ j.stage # "create"
  BY <1>1 DEF RecallInv, JobsKnow, Holds
<1>3. j.stage \in {"search", "freeze", "mark", "complete"}
  BY <1>2, KindsOfRecallJobs
<1>4. CASE j.stage = "search"
  BY <1>1, <1>2, <1>4 DEF JobKnows, SearchKnows
<1>5. CASE j.stage \in {"freeze", "mark", "complete"}
  BY <1>1, <1>2, <1>5 DEF JobKnows, FreezeKnows
<1> QED
  BY <1>3, <1>4, <1>5

\* What an assessment is made with.
NewAssessment == [status |-> "CALCULATING", listed |-> {}, due |-> {}, sound |-> FALSE]

Begun(problem) ==
  [d \in Directions |-> [queue |-> <<[trace |-> problem, depth |-> 0]>>,
                         nodes |-> << >>, cut |-> FALSE]]

LEMMA BegunKnows ==
  ASSUME RecallInv, NEW problem \in DOMAIN traces, NEW no
  PROVE  /\ Begun(problem) \in [Directions -> Searches]
         /\ traces' = traces =>
              \A d \in Directions : DirectionKnows(problem, no, d, Begun(problem)[d])'
<1>1. problem \in Numbers
  BY TracesAreRows DEF RecallInv
<1>2. PICK q : q = <<[trace |-> problem, depth |-> 0]>>
  OBVIOUS
<1>3. PICK f : f = << >>
  OBVIOUS
<1>4. DOMAIN f = {} /\ f \in [{} -> StockOf]
  BY <1>3
<1>5. /\ q \in Seq(Entries) /\ Len(q) = 1 /\ q[1].trace = problem /\ q[1].depth = 0
  <2>1. [trace |-> problem, depth |-> 0] \in Entries
    BY <1>1 DEF Entries
  <2> QED
    BY <1>2, <2>1
<1>6. PICK s : s = [queue |-> q, nodes |-> f, cut |-> FALSE]
  OBVIOUS
<1>7. s \in Searches
  <2>1. {} \in SUBSET Numbers /\ FALSE \in BOOLEAN
    OBVIOUS
  <2> QED
    BY <1>4, <1>5, <1>6, <2>1, SearchOf
<1>8. Begun(problem) = [d \in Directions |-> s]
  BY <1>2, <1>3, <1>6 DEF Begun
<1>9. ASSUME NEW d \in Directions, traces' = traces
      PROVE  DirectionKnows(problem, no, d, s)'
  <2>1. \A i \in 1..Len(s.queue) : s.queue[i].trace \in DOMAIN traces'
    <3>1. s.queue = q /\ 1..1 = {1}
      BY <1>6
    <3>2. 1..Len(s.queue) = {1} /\ s.queue[1].trace = problem
      BY <1>5, <3>1
    <3> QED
      BY <1>9, <3>2
  <2>2. DOMAIN s.nodes = {} /\ s.queue = q
    BY <1>4, <1>6
  <2>3. RightSearch(Walked(d)', problem, {}, q)
    BY <1>5, SearchBegins
  <2> QED
    BY <2>1, <2>2, <2>3 DEF DirectionKnows, RightSearch, AtLevel, AtEnd
<1> QED
  BY <1>7, <1>8, <1>9

LEMMA CreateAssessmentKeepsRecall ==
  ASSUME RecallInv, NEW c \in Clients, CreateAssessment(c)
  PROVE  RecallInv'
<1>1. /\ traces' = traces /\ links' = links /\ row' = row
      /\ consumption' = consumption /\ skipped' = skipped /\ disturbed' = disturbed
      /\ job[c].op = "assess" /\ job[c].stage = "create"
  BY DEF CreateAssessment, At, recallPast
<1>2. CASE job[c].no \in DOMAIN assessments
  <2>1. Quiet /\ job' = [job EXCEPT ![c] = NoJob]
    BY <1>1, <1>2 DEF CreateAssessment, Reply, Continue, Quiet, recallData, recallDocs, recallPast
  <2> QED
    BY <2>1, NoRecallJob, QuietRecallKeeps
<1>3. CASE job[c].no \notin DOMAIN assessments
  <2>1. PICK problem : problem = job[c].problem
    OBVIOUS
  <2>2. PICK no : no = job[c].no
    OBVIOUS
  <2>3. problem \in DOMAIN traces /\ no \in Numbers /\ no <= Len(assessments) + 1
    <3>1. PICK i : i = job[c]
      OBVIOUS
    <3>2. i \in RecallJobs /\ JobKnows(i) /\ i.op = "assess" /\ i.stage = "create"
      BY <1>1, <3>1 DEF RecallInv, JobsKnow
    <3>3. i \in CreateJobs
      BY <3>2, KindsOfRecallJobs
    <3> QED
      BY <2>1, <2>2, <3>1, <3>2, <3>3 DEF JobKnows, CreateJobs
  <2>4. /\ assessments \in Seq(AssessmentRow) /\ Len(assessments) \in Nat
        /\ DOMAIN assessments = 1..Len(assessments)
    BY AssessmentsAreRows DEF RecallInv
  <2>5. no = Len(assessments) + 1
    BY <1>3, <2>2, <2>3, <2>4 DEF Numbers
  <2>6. PICK new : new = NewAssessment
    OBVIOUS
  <2>7. assessments' = Append(assessments, new)
    BY <1>3, <2>6 DEF CreateAssessment, NewAssessment
  <2>8. new \in AssessmentRow /\ new.status = "CALCULATING" /\ new.listed = {} /\ ~new.sound
    BY <2>6 DEF NewAssessment, AssessmentRow
  <2>9. /\ assessments' \in Seq(AssessmentRow) /\ Len(assessments') = no
        /\ DOMAIN assessments' = 1..no /\ assessments'[no] = new
        /\ \A a \in DOMAIN assessments : a \in DOMAIN assessments' /\ assessments'[a] = assessments[a]
        /\ \A a \in DOMAIN assessments' : a \in DOMAIN assessments \/ a = no
    BY <2>4, <2>5, <2>7, <2>8
  <2>10. PICK j : j = [op |-> "assess", stage |-> "search", problem |-> problem, no |-> no,
                       search |-> Begun(problem)]
    OBVIOUS
  <2>11. job' = [job EXCEPT ![c] = j]
    BY <1>3, <2>1, <2>2, <2>10 DEF CreateAssessment, Continue, Begun
  <2>12. /\ Begun(problem) \in [Directions -> Searches]
         /\ \A d \in Directions : DirectionKnows(problem, no, d, Begun(problem)[d])'
    BY <1>1, <2>3, BegunKnows
  <2>13. j \in SearchJobs /\ j \in RecallJobs
    <3>1. problem \in Numbers
      BY <2>3, TracesAreRows DEF RecallInv
    <3>2. j \in SearchJobs
      BY <2>3, <2>10, <2>12, <3>1 DEF SearchJobs
    <3> QED
      BY <3>2 DEF RecallJobs
  <2>14. JobKnows(j)'
    <3>1. problem \in DOMAIN traces' /\ no \in DOMAIN assessments'
      BY <1>1, <2>3, <2>9 DEF Numbers
    <3>2. SearchKnows(j)'
      BY <2>8, <2>9, <2>10, <2>12, <3>1 DEF SearchKnows
    <3> QED
      BY <2>10, <3>2 DEF JobKnows
  <2>15. Onward
    BY <1>1, <2>4, <2>5, <2>9 DEF Onward
  <2>16. RecallTypeOK'
    <3>1. AssessmentRow' = AssessmentRow
      BY <1>1 DEF AssessmentRow
    <3>2. assessments' \in Seq([status : {"CALCULATING", "COMPLETED", "FAILED"},
                          listed : SUBSET DOMAIN traces, due : SUBSET DOMAIN traces,
                          sound : BOOLEAN])
      BY <2>9 DEF AssessmentRow
    <3> QED
      BY <1>1, <3>2 DEF RecallInv, RecallTypeOK
  <2>17. \A a \in DOMAIN assessments : SameAssessment(a)
    BY <2>9 DEF SameAssessment
  <2>18. \A d \in Clients \ {c} : Holds(d) => /\ SameAssessment(job[d].no)
                                              /\ job[d].no # j.no
    BY <1>3, <2>2, <2>10, <2>17, HolderKnows
  <2>19. LinksAreConsumed' /\ FrozenIsLocked'
    BY <1>1 DEF RecallInv, RecallSound, LinksAreConsumed, FrozenIsLocked, IsLocked
  <2>20. AssessmentsHold'
    <3> SUFFICES ASSUME NEW a \in DOMAIN assessments'
                 PROVE  /\ assessments'[a].sound => assessments'[a].listed = assessments'[a].due
                        /\ assessments'[a].status = "COMPLETED" =>
                             \A n \in assessments'[a].listed : Settled(n)'
      BY DEF AssessmentsHold
    <3>1. CASE a \in DOMAIN assessments
      BY <1>1, <2>9, <3>1 DEF RecallInv, RecallSound, AssessmentsHold, Settled, IsLocked
    <3>2. CASE a = no
      BY <2>8, <2>9, <3>2
    <3> QED
      BY <2>9, <3>1, <3>2
  <2>21. LockedIsListed'
    BY <1>1, <2>9 DEF RecallInv, RecallSound, LockedIsListed
  <2> QED
    BY <2>11, <2>13, <2>14, <2>15, <2>16, <2>18, <2>19, <2>20, <2>21, RecallStepKeeps
<1> QED
  BY <1>2, <1>3

\* A request that searches.
LEMMA SearchingJob ==
  ASSUME RecallInv, NEW c \in Clients, job[c].op = "assess", job[c].stage = "search"
  PROVE  /\ job[c] \in SearchJobs /\ SearchKnows(job[c]) /\ Holds(c)
         /\ job[c].search \in [Directions -> Searches] /\ job[c].no \in Numbers
         /\ job[c].problem \in Numbers
<1>1. PICK j : j = job[c]
  OBVIOUS
<1>2. j \in RecallJobs /\ JobKnows(j) /\ j.op = "assess" /\ j.stage = "search"
  BY <1>1 DEF RecallInv, JobsKnow
<1>3. j \in SearchJobs /\ SearchKnows(j)
  BY <1>2, KindsOfRecallJobs DEF JobKnows
<1>4. Holds(c)
  BY <1>1, <1>2 DEF Holds
<1> QED
  BY <1>1, <1>3, <1>4 DEF SearchJobs

LEMMA SearchTracesKeepsRecall ==
  ASSUME RecallInv, NEW c \in Clients, NEW d \in Directions, SearchTraces(c, d)
  PROVE  RecallInv'
<1>1. /\ Quiet /\ job[c].op = "assess" /\ job[c].stage = "search"
      /\ job[c].search[d].queue # << >>
  BY DEF SearchTraces, At, Quiet
<1>2. PICK j : j = job[c]
  OBVIOUS
<1>3. /\ j \in SearchJobs /\ SearchKnows(j) /\ Holds(c) /\ j.no \in Numbers
      /\ j.search \in [Directions -> Searches] /\ j.problem \in Numbers
  BY <1>1, <1>2, SearchingJob
<1>4. PICK new : new = Turned(d, j.search[d])
  OBVIOUS
<1>5. new \in Searches /\ DirectionKnows(j.problem, j.no, d, new)
  <2>1. PICK s \in Searches : s = j.search[d]
    BY <1>3
  <2>2. s.queue # << >> /\ DirectionKnows(j.problem, j.no, d, s)
    BY <1>1, <1>2, <1>3, <2>1 DEF SearchKnows
  <2> QED
    BY <1>4, <2>1, <2>2, TurnedKnows
<1>6. PICK found : found = [j.search EXCEPT ![d] = new]
  OBVIOUS
<1>7. /\ found \in [Directions -> Searches] /\ found[d] = new
      /\ \A e \in Directions \ {d} : found[e] = j.search[e]
  BY <1>3, <1>5, <1>6
<1>8. PICK k : k = [op |-> "assess", stage |-> "search", problem |-> j.problem, no |-> j.no,
                    search |-> found]
  OBVIOUS
<1>9. k = [j EXCEPT !.search = found]
  <2>1. j \in SearchJobs
    BY <1>3
  <2> QED
    BY <1>8, <2>1 DEF SearchJobs
<1>10. job' = [job EXCEPT ![c] = k]
  <2>1. job' = [job EXCEPT ![c] = [j EXCEPT !.search[d] = Turned(d, @)]]
    BY <1>2 DEF SearchTraces, Continue
  <2>2. [j EXCEPT !.search[d] = Turned(d, @)] = [j EXCEPT !.search = found]
    BY <1>4, <1>6
  <2> QED
    BY <1>9, <2>1, <2>2
<1>11. k \in SearchJobs /\ k \in RecallJobs
  BY <1>3, <1>7, <1>8 DEF SearchJobs, RecallJobs
<1>12. JobKnows(k)
  <2>1. \A e \in Directions : DirectionKnows(j.problem, j.no, e, found[e])
    BY <1>3, <1>5, <1>7 DEF SearchKnows
  <2>2. SearchKnows(k)
    BY <1>3, <1>8, <2>1 DEF SearchKnows
  <2> QED
    BY <1>8, <2>2 DEF JobKnows
<1> QED
  BY <1>1, <1>2, <1>3, <1>8, <1>10, <1>11, <1>12, QuietRecallKeeps

\* Where all is traced, the traces reached are those of the batches reached.
LEMMA FoundIsAffected ==
  ASSUME RecallInv, TracedInFull, NEW problem \in DOMAIN traces
  PROVE  Affected(problem) =
           {u \in ReachIn(Walked("forward"), problem)[MaxDepth]
                    \cup ReachIn(Walked("backward"), problem)[MaxDepth] :
              traces[u].stock = "IN_STOCK"}
<1>1. PICK D : D = DOMAIN traces
  OBVIOUS
<1>2. PICK B : B = [t \in D |-> traces[t].batch]
  OBVIOUS
<1>3. PICK R : R = {<<l[2], l[1]>> : l \in links}
  OBVIOUS
<1>4. PICK U : U = {<<p[2], p[1]>> : p \in consumption}
  OBVIOUS
<1>5. \A t \in D : B[t] = traces[t].batch
  BY <1>2
<1>6. Walked("forward") = links /\ Walked("backward") = R
  BY <1>3 DEF Walked
<1>7. \A t, u \in D : B[t] = B[u] => t = u
  BY <1>1, <1>5 DEF TracedInFull
<1>8. \A l \in links : l[1] \in D /\ l[2] \in D /\ <<B[l[1]], B[l[2]]>> \in consumption
  <2>1. \A l \in links : l[1] \in D /\ l[2] \in D
    BY <1>1, TracesAreRows DEF RecallInv
  <2>2. \A l \in links : <<traces[l[1]].batch, traces[l[2]].batch>> \in consumption
    BY DEF RecallInv, RecallSound, LinksAreConsumed
  <2> QED
    BY <1>5, <2>1, <2>2
<1>9. \A p \in consumption : \E l \in links : B[l[1]] = p[1] /\ B[l[2]] = p[2]
  <2> TAKE p \in consumption
  <2>1. PICK l \in links : traces[l[1]].batch = p[1] /\ traces[l[2]].batch = p[2]
    BY DEF TracedInFull
  <2>2. l[1] \in D /\ l[2] \in D
    BY <1>8
  <2> QED
    BY <1>5, <2>1, <2>2
<1>10. \A r \in R : r[1] \in D /\ r[2] \in D /\ <<B[r[1]], B[r[2]]>> \in U
  <2> TAKE r \in R
  <2>1. PICK l \in links : r[1] = l[2] /\ r[2] = l[1]
    BY <1>3
  <2>2. PICK p \in consumption : p = <<B[l[1]], B[l[2]]>>
    BY <1>8
  <2>3. <<p[2], p[1]>> \in U
    BY <1>4
  <2> QED
    BY <1>8, <2>1, <2>2, <2>3
<1>11. \A p \in U : \E r \in R : B[r[1]] = p[1] /\ B[r[2]] = p[2]
  <2> TAKE p \in U
  <2>1. PICK q \in consumption : p[1] = q[2] /\ p[2] = q[1]
    BY <1>4
  <2>2. PICK l \in links : B[l[1]] = q[1] /\ B[l[2]] = q[2]
    BY <1>9
  <2>3. PICK r : r = <<l[2], l[1]>>
    OBVIOUS
  <2>4. r \in R /\ r[1] = l[2] /\ r[2] = l[1]
    BY <1>3, <2>3
  <2> QED
    BY <2>1, <2>2, <2>4
<1>12. PICK on : on = ReachIn(links, problem)[MaxDepth]
  OBVIOUS
<1>13. PICK back : back = ReachIn(R, problem)[MaxDepth]
  OBVIOUS
<1>14. MaxDepth \in Nat /\ problem \in D
  BY <1>1, LimitsAssumption
<1>15. PICK made : made = Within(consumption, B[problem])
  OBVIOUS
<1>16. PICK used : used = Within(U, B[problem])
  OBVIOUS
<1>17. \A u \in D : u \in on <=> B[u] \in made
  <2>1. made = ReachIn(consumption, B[problem])[MaxDepth]
    BY <1>15, WithinIsReach
  <2>2. \A n \in Nat : \A u \in D :
          u \in ReachIn(links, problem)[n] <=> B[u] \in ReachIn(consumption, B[problem])[n]
    BY <1>7, <1>8, <1>9, <1>14, BatchesReached
  <2> QED
    BY <1>12, <1>14, <2>1, <2>2
<1>18. \A u \in D : u \in back <=> B[u] \in used
  <2>1. used = ReachIn(U, B[problem])[MaxDepth]
    BY <1>16, WithinIsReach
  <2>2. \A n \in Nat : \A u \in D :
          u \in ReachIn(R, problem)[n] <=> B[u] \in ReachIn(U, B[problem])[n]
    BY <1>7, <1>10, <1>11, <1>14, BatchesReached
  <2> QED
    BY <1>13, <1>14, <2>1, <2>2
<1>19. on \subseteq D /\ back \subseteq D
  <2>1. \A n \in Nat : ReachIn(links, problem)[n] \subseteq D
    BY <1>8, <1>14, ReachStays
  <2>2. \A n \in Nat : ReachIn(R, problem)[n] \subseteq D
    BY <1>10, <1>14, ReachStays
  <2> QED
    BY <1>12, <1>13, <1>14, <2>1, <2>2
<1>20. Affected(problem) = {u \in D : traces[u].stock = "IN_STOCK" /\ B[u] \in made \cup used}
  <2>1. B[problem] = traces[problem].batch
    BY <1>5, <1>14
  <2>2. PICK all : all = made \cup used
    OBVIOUS
  <2>3. Affected(problem) = {u \in DOMAIN traces : traces[u].stock = "IN_STOCK" /\ traces[u].batch \in all}
    BY <1>4, <1>15, <1>16, <2>1, <2>2 DEF Affected
  <2> QED
    BY <1>1, <1>5, <2>2, <2>3
<1> QED
  BY <1>6, <1>12, <1>13, <1>17, <1>18, <1>19, <1>20

\* What a request lists of its searches.
ListedOf(back, on) ==
  {t \in DOMAIN back \cup DOMAIN on :
     (IF t \in DOMAIN back THEN back[t] ELSE on[t]) = "IN_STOCK"}

SoundOf(j) ==
  /\ \A d \in Directions : ~j.search[d].cut
  /\ j.no \notin disturbed /\ TracedInFull

\* If it was not cut or disturbed, and all was traced, it is what is due.
LEMMA ListedIsDue ==
  ASSUME RecallInv, NEW j \in SearchJobs, SearchKnows(j), SoundOf(j),
         \A d \in Directions : j.search[d].queue = << >>
  PROVE  ListedOf(j.search["backward"].nodes, j.search["forward"].nodes)
           = Affected(j.problem)
<1>1. "forward" \in Directions /\ "backward" \in Directions
  BY DEF Directions
<1>2. ASSUME NEW d \in Directions
      PROVE  /\ DOMAIN j.search[d].nodes = ReachIn(Walked(d), j.problem)[MaxDepth]
             /\ \A t \in DOMAIN j.search[d].nodes : j.search[d].nodes[t] = traces[t].stock
  <2>1. PICK s : s = j.search[d]
    OBVIOUS
  <2>2. DirectionKnows(j.problem, j.no, d, s) /\ s.queue = << >> /\ ~s.cut
    BY <2>1 DEF SearchKnows, SoundOf
  <2>3. /\ RightSearch(Walked(d), j.problem, DOMAIN s.nodes, s.queue)
        /\ \A t \in DOMAIN s.nodes : s.nodes[t] = traces[t].stock
    BY <2>2 DEF DirectionKnows, SoundOf
  <2>4. PICK q : q = s.queue
    OBVIOUS
  <2>5. Len(q) = 0 /\ RightSearch(Walked(d), j.problem, DOMAIN s.nodes, q)
    BY <2>2, <2>3, <2>4
  <2>6. DOMAIN s.nodes = ReachIn(Walked(d), j.problem)[MaxDepth]
    BY <2>5, SearchIsOver
  <2> QED
    BY <2>1, <2>3, <2>6
<1>3. PICK back : back = j.search["backward"].nodes
  OBVIOUS
<1>4. PICK on : on = j.search["forward"].nodes
  OBVIOUS
<1>5. /\ DOMAIN back = ReachIn(Walked("backward"), j.problem)[MaxDepth]
      /\ DOMAIN on = ReachIn(Walked("forward"), j.problem)[MaxDepth]
      /\ \A t \in DOMAIN back : back[t] = traces[t].stock
      /\ \A t \in DOMAIN on : on[t] = traces[t].stock
  BY <1>1, <1>2, <1>3, <1>4
<1>6. ListedOf(back, on) = {t \in DOMAIN on \cup DOMAIN back : traces[t].stock = "IN_STOCK"}
  BY <1>5 DEF ListedOf
<1>7. /\ j.problem \in DOMAIN traces /\ TracedInFull
  BY DEF SearchKnows, SoundOf
<1>8. Affected(j.problem) = {u \in DOMAIN on \cup DOMAIN back : traces[u].stock = "IN_STOCK"}
  BY <1>5, <1>7, FoundIsAffected
<1> QED
  BY <1>3, <1>4, <1>6, <1>8

\* One assessment is written.
Assessed(no, new) ==
  /\ no \in DOMAIN assessments /\ new \in AssessmentRow
  /\ assessments' = [assessments EXCEPT ![no] = new]
  /\ assessments[no].listed \subseteq new.listed
  /\ new.sound => new.listed = new.due
  /\ new.status = "COMPLETED" => \A n \in new.listed : Settled(n)
  /\ traces' = traces /\ links' = links /\ row' = row
  /\ consumption' = consumption /\ skipped' = skipped /\ disturbed' = disturbed

LEMMA AssessedIs ==
  ASSUME RecallInv, NEW no, NEW new, Assessed(no, new)
  PROVE  /\ Onward /\ RecallTypeOK' /\ \A a : a # no => SameAssessment(a)
         /\ assessments'[no] = new /\ DOMAIN assessments' = DOMAIN assessments
         /\ LinksAreConsumed' /\ AssessmentsHold' /\ LockedIsListed' /\ FrozenIsLocked'
<1>1. /\ traces' = traces /\ links' = links /\ row' = row
      /\ consumption' = consumption /\ skipped' = skipped /\ disturbed' = disturbed
      /\ no \in DOMAIN assessments /\ new \in AssessmentRow
      /\ assessments' = [assessments EXCEPT ![no] = new]
  BY DEF Assessed
<1>2. /\ assessments \in Seq(AssessmentRow) /\ Len(assessments) \in Nat
      /\ DOMAIN assessments = 1..Len(assessments)
  BY AssessmentsAreRows DEF RecallInv
<1>3. /\ assessments' \in Seq(AssessmentRow) /\ Len(assessments') = Len(assessments)
      /\ DOMAIN assessments' = DOMAIN assessments /\ assessments'[no] = new
      /\ \A a \in DOMAIN assessments : a # no => assessments'[a] = assessments[a]
  <2>1. PICK S : S = AssessmentRow
    OBVIOUS
  <2>2. assessments \in Seq(S) /\ new \in S
    BY <1>1, <1>2, <2>1
  <2>3. assessments' \in Seq(S) /\ Len(assessments') = Len(assessments)
    BY <1>1, <1>2, <2>2
  <2> QED
    BY <1>1, <1>2, <2>1, <2>3
<1>4. Onward
  BY <1>1, <1>2, <1>3 DEF Onward
<1>5. RecallTypeOK'
  <2>1. assessments' \in Seq([status : {"CALCULATING", "COMPLETED", "FAILED"},
                              listed : SUBSET DOMAIN traces, due : SUBSET DOMAIN traces,
                              sound : BOOLEAN])
    BY <1>3 DEF AssessmentRow
  <2> QED
    BY <1>1, <2>1 DEF RecallInv, RecallTypeOK
<1>6. \A a : a # no => SameAssessment(a)
  BY <1>3 DEF SameAssessment
<1>7. \A n : Settled(n)' <=> Settled(n)
  BY <1>1 DEF Settled, IsLocked
<1>8. LinksAreConsumed' /\ FrozenIsLocked'
  BY <1>1 DEF RecallInv, RecallSound, LinksAreConsumed, FrozenIsLocked, IsLocked
<1>9. AssessmentsHold'
  <2> SUFFICES ASSUME NEW a \in DOMAIN assessments'
               PROVE  /\ assessments'[a].sound => assessments'[a].listed = assessments'[a].due
                      /\ assessments'[a].status = "COMPLETED" =>
                           \A n \in assessments'[a].listed : Settled(n)'
    BY DEF AssessmentsHold
  <2>1. CASE a # no
    <3>1. assessments'[a] = assessments[a] /\ a \in DOMAIN assessments
      BY <1>3, <2>1
    <3> QED
      BY <1>7, <3>1 DEF RecallInv, RecallSound, AssessmentsHold
  <2>2. CASE a = no
    BY <1>3, <1>7, <2>2 DEF Assessed
  <2> QED
    BY <2>1, <2>2
<1>10. LockedIsListed'
  <2> SUFFICES ASSUME NEW n \in Stocked, row[n] = "LOCKED"
               PROVE  \E a \in DOMAIN assessments' : n \in assessments'[a].listed
    BY <1>1 DEF LockedIsListed
  <2>1. PICK a \in DOMAIN assessments : n \in assessments[a].listed
    BY DEF RecallInv, RecallSound, LockedIsListed
  <2>2. n \in assessments'[a].listed
    BY <1>3, <2>1 DEF Assessed
  <2> QED
    BY <1>3, <2>1, <2>2
<1> QED
  BY <1>3, <1>4, <1>5, <1>6, <1>8, <1>9, <1>10

LEMMA AssessedKeeps ==
  ASSUME RecallInv, NEW c \in Clients, Holds(c), NEW new, Assessed(job[c].no, new),
         NEW j \in RecallJobs, job' = [job EXCEPT ![c] = j], JobKnows(j)',
         HoldsOne(j) => job[c].no = j.no
  PROVE  RecallInv'
<1>1. \A d \in Clients \ {c} : Holds(d) => job[d].no # job[c].no
  BY DEF RecallInv, RecallSound, OneHolder
<1>2. \A d \in Clients \ {c} : Holds(d) => SameAssessment(job[d].no)
  BY <1>1, AssessedIs
<1> QED
  BY <1>1, <1>2, AssessedIs, RecallStepKeeps

LEMMA AssessmentFields ==
  ASSUME RecallInv, NEW a \in DOMAIN assessments
  PROVE  /\ assessments[a] \in AssessmentRow
         /\ assessments[a].listed \subseteq DOMAIN traces
         /\ assessments[a].sound => assessments[a].listed = assessments[a].due
<1>1. assessments[a] \in AssessmentRow
  BY AssessmentsAreRows DEF RecallInv
<1>2. assessments[a].listed \subseteq DOMAIN traces
  BY <1>1 DEF AssessmentRow
<1>3. assessments[a].sound => assessments[a].listed = assessments[a].due
  BY DEF RecallInv, RecallSound, AssessmentsHold
<1> QED
  BY <1>1, <1>2, <1>3

LEMMA ClassifyTracesKeepsRecall ==
  ASSUME RecallInv, NEW c \in Clients, ClassifyTraces(c)
  PROVE  RecallInv'
<1>1. PICK j : j = job[c]
  OBVIOUS
<1>2. PICK listed : listed = ListedOf(j.search["backward"].nodes, j.search["forward"].nodes)
  OBVIOUS
<1>3. PICK due : due = Affected(j.problem)
  OBVIOUS
<1>4. PICK sound \in BOOLEAN : sound <=> SoundOf(j)
  OBVIOUS
<1>5. PICK k : k = [op |-> "assess", no |-> j.no, todo |-> SetToSeq(listed), frozen |-> << >>,
                    stage |-> IF listed = {} THEN "complete" ELSE "freeze"]
  OBVIOUS
<1>6. /\ job[c].op = "assess" /\ job[c].stage = "search"
      /\ \A d \in Directions : j.search[d].queue = << >>
      /\ traces' = traces /\ links' = links /\ row' = row
      /\ consumption' = consumption /\ skipped' = skipped /\ disturbed' = disturbed
  BY <1>1 DEF ClassifyTraces, At, recallPast
<1>7. job' = [job EXCEPT ![c] = k]
  BY <1>1, <1>2, <1>5 DEF ClassifyTraces, Continue, ListedOf
<1>8. /\ j \in SearchJobs /\ SearchKnows(j) /\ Holds(c) /\ j.no \in Numbers
      /\ j.search \in [Directions -> Searches] /\ j.problem \in Numbers
  BY <1>1, <1>6, SearchingJob
<1>9. PICK new : new = [assessments[j.no] EXCEPT !.listed = listed, !.due = due, !.sound = sound]
  OBVIOUS
<1>10. /\ j.no \in DOMAIN assessments /\ assessments[j.no].status = "CALCULATING"
       /\ assessments[j.no].listed = {} /\ assessments[j.no] \in AssessmentRow
  BY <1>8, AssessmentFields DEF SearchKnows
<1>11. assessments' = [assessments EXCEPT ![j.no] = new]
  <2>1. assessments' = [assessments EXCEPT ![j.no].listed = listed, ![j.no].due = due,
                                           ![j.no].sound = SoundOf(j)]
    BY <1>1, <1>2, <1>3 DEF ClassifyTraces, SoundOf, ListedOf
  <2>2. SoundOf(j) = sound
    BY <1>4 DEF SoundOf
  <2>3. assessments' = [assessments EXCEPT ![j.no].listed = listed, ![j.no].due = due,
                                           ![j.no].sound = sound]
    BY <2>1, <2>2
  <2>4. DOMAIN assessments' = DOMAIN assessments
    BY <2>3
  <2> QED
    BY <1>9, <1>10, <2>3
<1>12. listed \subseteq DOMAIN traces /\ due \subseteq DOMAIN traces
  <2>1. "forward" \in Directions /\ "backward" \in Directions
    BY DEF Directions
  <2>2. \A d \in Directions : DOMAIN j.search[d].nodes \subseteq DOMAIN traces
    BY <1>8 DEF SearchKnows, DirectionKnows
  <2>3. listed \subseteq DOMAIN traces
    BY <1>2, <2>1, <2>2 DEF ListedOf
  <2>4. due \subseteq DOMAIN traces
    BY <1>3 DEF Affected
  <2> QED
    BY <2>3, <2>4
<1>13. /\ new \in AssessmentRow /\ new.listed = listed /\ new.due = due /\ new.sound = sound
       /\ new.status = "CALCULATING"
  BY <1>9, <1>10, <1>12 DEF AssessmentRow
<1>14. sound => listed = due
  BY <1>2, <1>3, <1>4, <1>6, <1>8, ListedIsDue
<1>15. Assessed(job[c].no, new)
  BY <1>1, <1>6, <1>10, <1>11, <1>13, <1>14 DEF Assessed
<1>16. /\ listed \subseteq Numbers /\ SetToSeq(listed) \in Seq(Numbers)
       /\ listed # {} => SetToSeq(listed) # << >>
       /\ \A i \in 1..Len(SetToSeq(listed)) : SetToSeq(listed)[i] \in listed
       /\ \A n \in listed : \E i \in 1..Len(SetToSeq(listed)) : SetToSeq(listed)[i] = n
  <2>1. IsFiniteSet(DOMAIN traces) /\ DOMAIN traces \subseteq Numbers
    BY TracesAreRows DEF RecallInv
  <2>2. IsFiniteSet(listed) /\ listed \subseteq Numbers
    BY <1>12, <2>1, FS_Subset
  <2>3. PICK s : s = SetToSeq(listed)
    OBVIOUS
  <2>4. PICK n \in Nat : n = Cardinality(listed)
    BY <2>2, SequenceOfSet
  <2>5. /\ s \in Seq(listed) /\ Len(s) = n /\ \A i \in 1..n : s[i] \in listed
        /\ \A x \in listed : \E i \in 1..n : s[i] = x
    BY <2>2, <2>3, <2>4, SequenceOfSet
  <2>6. s \in Seq(Numbers)
    BY <2>2, <2>5
  <2>7. listed # {} => s # << >>
    BY <2>5
  <2> QED
    BY <2>2, <2>3, <2>5, <2>6, <2>7
<1>17. k \in FreezeJobs /\ k \in RecallJobs
  <2>1. PICK s \in Seq(Numbers) : s = SetToSeq(listed)
    BY <1>16
  <2>2. << >> \in Seq(Numbers)
    OBVIOUS
  <2>3. k \in FreezeJobs
    BY <1>5, <1>8, <2>1, <2>2 DEF FreezeJobs
  <2> QED
    BY <2>3 DEF RecallJobs
<1>18. JobKnows(k)'
  <2>1. /\ assessments'[j.no] = new /\ DOMAIN assessments' = DOMAIN assessments
    BY <1>1, <1>15, AssessedIs
  <2>2. /\ k.no = j.no /\ k.todo = SetToSeq(listed) /\ Len(k.frozen) = 0
        /\ k.op = "assess" /\ k.stage = IF listed = {} THEN "complete" ELSE "freeze"
    BY <1>5
  <2>3. PICK s : s = SetToSeq(listed)
    OBVIOUS
  <2>4. /\ listed # {} => s # << >>
        /\ \A i \in 1..Len(s) : s[i] \in listed
        /\ \A n \in listed : \E i \in 1..Len(s) : s[i] = n
    BY <1>16, <2>3
  <2>5. k.stage = "freeze" => k.todo # << >>
    BY <2>2, <2>3, <2>4
  <2>6. k.stage # "freeze" => assessments'[k.no].listed = {} /\ k.stage = "complete"
    BY <1>13, <2>1, <2>2
  <2>7. /\ k.no \in DOMAIN assessments' /\ assessments'[k.no].status = "CALCULATING"
        /\ assessments'[k.no].listed = listed
    BY <1>10, <1>13, <2>1, <2>2
  <2>8. FreezeKnows(k)'
    BY <2>2, <2>3, <2>4, <2>5, <2>6, <2>7 DEF FreezeKnows
  <2> QED
    BY <2>2, <2>8 DEF JobKnows
<1> QED
  BY <1>1, <1>5, <1>7, <1>8, <1>15, <1>17, <1>18, AssessedKeeps

-----------------------------------------------------------------------------
(* The steps of the freeze *)

\* A request whose search is over.
LEMMA FreezingJob ==
  ASSUME RecallInv, NEW c \in Clients, job[c].op = "assess",
         job[c].stage \in {"freeze", "mark", "complete"}
  PROVE  /\ job[c] \in FreezeJobs /\ FreezeKnows(job[c]) /\ Holds(c)
         /\ job[c].todo \in Seq(Numbers) /\ job[c].frozen \in Seq(Numbers)
         /\ job[c].no \in Numbers
<1>1. PICK j : j = job[c]
  OBVIOUS
<1>2. j \in RecallJobs /\ JobKnows(j) /\ j.op = "assess"
      /\ j.stage \in {"freeze", "mark", "complete"}
  BY <1>1 DEF RecallInv, JobsKnow
<1>3. j \in FreezeJobs /\ FreezeKnows(j)
  BY <1>2, KindsOfRecallJobs DEF JobKnows
<1>4. Holds(c)
  BY <1>1, <1>2 DEF Holds
<1> QED
  BY <1>1, <1>3, <1>4 DEF FreezeJobs

\* Such a request, at another stage or with another list.
FreezeJob(no, stage, todo, frozen) ==
  [op |-> "assess", stage |-> stage, no |-> no, todo |-> todo, frozen |-> frozen]

LEMMA FreezeJobIs ==
  ASSUME NEW no \in Numbers, NEW stage \in {"freeze", "mark", "complete"},
         NEW todo \in Seq(Numbers), NEW frozen \in Seq(Numbers)
  PROVE  /\ FreezeJob(no, stage, todo, frozen) \in RecallJobs
         /\ FreezeJob(no, stage, todo, frozen) \in FreezeJobs
BY DEF FreezeJob, FreezeJobs, RecallJobs

\* The stock of one batch is locked, or skipped.
Locked(n, done) ==
  /\ row' = IF done /\ n \in Stocked THEN [row EXCEPT ![n] = "LOCKED"] ELSE row
  /\ skipped' = IF done THEN skipped ELSE skipped \cup {n}
  /\ \E a \in DOMAIN assessments : n \in assessments[a].listed
  /\ traces' = traces /\ links' = links /\ assessments' = assessments
  /\ consumption' = consumption /\ disturbed' = disturbed

LEMMA LockedIs ==
  ASSUME RecallInv, NEW n, NEW done \in BOOLEAN, Locked(n, done)
  PROVE  /\ Onward /\ RecallTypeOK' /\ \A a : SameAssessment(a)
         /\ Settled(n)' /\ (done => IsLocked(n)')
         /\ LinksAreConsumed' /\ AssessmentsHold' /\ LockedIsListed' /\ FrozenIsLocked'
<1>1. /\ traces' = traces /\ links' = links /\ assessments' = assessments
      /\ consumption' = consumption /\ disturbed' = disturbed
  BY DEF Locked
<1>2. row \in [Stocked -> {"AVAILABLE", "LOCKED"}]
  BY DEF RecallInv, RecallTypeOK
<1>3. row' \in [Stocked -> {"AVAILABLE", "LOCKED"}]
  BY <1>2 DEF Locked
<1>4. \A m \in Stocked : row'[m] = IF done /\ m = n THEN "LOCKED" ELSE row[m]
  BY <1>2 DEF Locked
<1>5. skipped \subseteq skipped' /\ (~done => n \in skipped')
  BY DEF Locked
<1>6. Onward
  BY <1>1, <1>4, <1>5, AssessmentsAreRows DEF Onward, RecallInv
<1>7. RecallTypeOK' /\ \A a : SameAssessment(a)
  BY <1>1, <1>3 DEF RecallInv, RecallTypeOK, SameAssessment
<1>8. Settled(n)' /\ (done => IsLocked(n)')
  BY <1>4, <1>5 DEF Settled, IsLocked
<1>9. LinksAreConsumed'
  BY <1>1 DEF RecallInv, RecallSound, LinksAreConsumed
<1>10. \A m : (IsLocked(m) => IsLocked(m)') /\ (Settled(m) => Settled(m)')
  BY <1>6, SettledOn
<1>11. AssessmentsHold'
  BY <1>1, <1>10 DEF RecallInv, RecallSound, AssessmentsHold
<1>12. FrozenIsLocked'
  BY <1>1, <1>10 DEF RecallInv, RecallSound, FrozenIsLocked
<1>13. LockedIsListed'
  <2> SUFFICES ASSUME NEW m \in Stocked, row'[m] = "LOCKED"
               PROVE  \E a \in DOMAIN assessments : m \in assessments[a].listed
    BY <1>1 DEF LockedIsListed
  <2>1. CASE m = n
    BY <2>1 DEF Locked
  <2>2. CASE m # n
    BY <1>4, <2>2 DEF RecallInv, RecallSound, LockedIsListed
  <2> QED
    BY <2>1, <2>2
<1> QED
  BY <1>6, <1>7, <1>8, <1>9, <1>11, <1>12, <1>13

LEMMA FreezeStockKeepsRecall ==
  ASSUME RecallInv, NEW c \in Clients, NEW done \in BOOLEAN, FreezeStock(c, done)
  PROVE  RecallInv'
<1>1. PICK j : j = job[c]
  OBVIOUS
<1>2. job[c].op = "assess" /\ job[c].stage = "freeze"
  BY DEF FreezeStock, At
<1>3. /\ j \in FreezeJobs /\ FreezeKnows(j) /\ Holds(c) /\ j.stage = "freeze"
      /\ j.todo \in Seq(Numbers) /\ j.frozen \in Seq(Numbers) /\ j.no \in Numbers
  BY <1>1, <1>2, FreezingJob
<1>4. PICK listed : listed = assessments[j.no].listed
  OBVIOUS
<1>5. /\ j.no \in DOMAIN assessments /\ assessments[j.no].status = "CALCULATING"
      /\ j.todo # << >> /\ \A i \in 1..Len(j.todo) : j.todo[i] \in listed
      /\ \A m \in listed : Settled(m) \/ \E i \in 1..Len(j.todo) : j.todo[i] = m
      /\ \A i \in 1..Len(j.frozen) : IsLocked(j.frozen[i])
  BY <1>3, <1>4 DEF FreezeKnows
<1>6. PICK n : n = Head(j.todo)
  OBVIOUS
<1>7. PICK rest : rest = Tail(j.todo)
  OBVIOUS
<1>8. PICK frozen : frozen = IF done THEN Append(j.frozen, n) ELSE j.frozen
  OBVIOUS
<1>9. /\ n = j.todo[1] /\ n \in Numbers /\ rest \in Seq(Numbers)
      /\ Len(j.todo) \in Nat \ {0} /\ Follows(j.todo, rest, << >>)
  <2>1. n = j.todo[1] /\ n \in Numbers /\ rest \in Seq(Numbers) /\ Len(j.todo) \in Nat \ {0}
    BY <1>3, <1>5, <1>6, <1>7, RestOfBatches
  <2>2. Follows(j.todo, rest, << >>)
    BY <1>3, <1>5, <1>7, TailFollows
  <2> QED
    BY <2>1, <2>2
<1>10. \A i \in 1..Len(rest) : i + 1 \in 1..Len(j.todo) /\ rest[i] = j.todo[i + 1]
  BY <1>3, <1>5, <1>7, RestOfBatches
<1>11. \A i \in 1..Len(j.todo) : i # 1 => \E k \in 1..Len(rest) : rest[k] = j.todo[i]
  BY <1>9, FollowsElements
<1>12. frozen \in Seq(Numbers) /\ \A i \in 1..Len(frozen) :
         (done /\ frozen[i] = n) \/ \E k \in 1..Len(j.frozen) : frozen[i] = j.frozen[k]
  <2>1. CASE done
    <3>1. /\ frozen \in Seq(Numbers) /\ Len(frozen) = Len(j.frozen) + 1
          /\ Len(j.frozen) \in Nat
          /\ \A i \in 1..Len(frozen) : frozen[i] = IF i = Len(frozen) THEN n ELSE j.frozen[i]
      BY <1>3, <1>8, <1>9, <2>1
    <3>2. \A i \in 1..Len(frozen) : i # Len(frozen) => i \in 1..Len(j.frozen)
      BY <3>1
    <3> QED
      BY <2>1, <3>1, <3>2
  <2>2. CASE ~done
    BY <1>3, <1>8, <2>2
  <2> QED
    BY <2>1, <2>2
<1>13. PICK k : k = IF rest # << >> THEN FreezeJob(j.no, "freeze", rest, frozen)
                    ELSE FreezeJob(j.no, "mark", frozen, << >>)
  OBVIOUS
<1>14. job' = [job EXCEPT ![c] = k]
  <2>1. job' = [job EXCEPT ![c] = IF rest # << >>
                       THEN [j EXCEPT !.todo = rest, !.frozen = frozen]
                       ELSE [j EXCEPT !.todo = frozen, !.frozen = << >>, !.stage = "mark"]]
    BY <1>1, <1>6, <1>7, <1>8 DEF FreezeStock, Continue
  <2>2. j \in FreezeJobs /\ j.stage = "freeze"
    BY <1>3
  <2>3. CASE rest # << >>
    <3>1. PICK m : m = [j EXCEPT !.todo = rest, !.frozen = frozen]
      OBVIOUS
    <3>2. m = [op |-> "assess", stage |-> "freeze", no |-> j.no, todo |-> rest, frozen |-> frozen]
      BY <2>2, <3>1 DEF FreezeJobs
    <3> QED
      BY <1>13, <2>1, <2>3, <3>1, <3>2 DEF FreezeJob
  <2>4. CASE rest = << >>
    <3>1. PICK m : m = [j EXCEPT !.todo = frozen, !.frozen = << >>, !.stage = "mark"]
      OBVIOUS
    <3>2. m = [op |-> "assess", stage |-> "mark", no |-> j.no, todo |-> frozen,
               frozen |-> << >>]
      BY <2>2, <3>1 DEF FreezeJobs
    <3> QED
      BY <1>13, <2>1, <2>4, <3>1, <3>2 DEF FreezeJob
  <2> QED
    BY <2>3, <2>4
<1>15. k \in RecallJobs /\ k.no = j.no /\ k.op = "assess"
  <2>1. << >> \in Seq(Numbers)
    OBVIOUS
  <2>2. /\ FreezeJob(j.no, "freeze", rest, frozen) \in RecallJobs
        /\ FreezeJob(j.no, "mark", frozen, << >>) \in RecallJobs
    BY <1>3, <1>9, <1>12, <2>1, FreezeJobIs
  <2>3. k \in RecallJobs
    BY <1>13, <2>2
  <2> QED
    BY <1>13, <2>3 DEF FreezeJob
<1>16. Locked(n, done)
  <2>1. n \in listed
    BY <1>5, <1>9
  <2>2. \E a \in DOMAIN assessments : n \in assessments[a].listed
    BY <1>4, <1>5, <2>1
  <2> QED
    BY <1>1, <1>6, <2>2 DEF FreezeStock, Locked
<1>17. \A m : (IsLocked(m) => IsLocked(m)') /\ (Settled(m) => Settled(m)')
  BY <1>16, LockedIs, SettledOn
<1>18. \A i \in 1..Len(frozen) : IsLocked(frozen[i])'
  <2>1. done => IsLocked(n)'
    BY <1>16, LockedIs
  <2> TAKE i \in 1..Len(frozen)
  <2>2. CASE done /\ frozen[i] = n
    BY <2>1, <2>2
  <2>3. CASE \E h \in 1..Len(j.frozen) : frozen[i] = j.frozen[h]
    BY <1>5, <1>17, <2>3
  <2> QED
    BY <1>12, <2>2, <2>3
<1>19. \A m \in listed : Settled(m)' \/ \E i \in 1..Len(rest) : rest[i] = m
  <2> TAKE m \in listed
  <2>1. CASE Settled(m)
    BY <1>17, <2>1
  <2>2. CASE ~Settled(m)
    <3>1. PICK i \in 1..Len(j.todo) : j.todo[i] = m
      BY <1>5, <2>2
    <3>2. CASE i = 1
      <4>1. m = n
        BY <1>9, <3>1, <3>2
      <4>2. Settled(n)'
        BY <1>16, LockedIs
      <4> QED
        BY <4>1, <4>2
    <3>3. CASE i # 1
      BY <1>11, <3>1, <3>3
    <3> QED
      BY <3>2, <3>3
  <2> QED
    BY <2>1, <2>2
<1>20. /\ assessments'[j.no].listed = listed /\ j.no \in DOMAIN assessments'
       /\ assessments'[j.no].status = "CALCULATING"
  BY <1>4, <1>5, <1>16 DEF Locked
<1>21. FreezeKnows(k)'
  <2>1. CASE rest # << >>
    <3>1. k.stage = "freeze" /\ k.todo = rest /\ k.frozen = frozen
      BY <1>13, <2>1 DEF FreezeJob
    <3>2. \A i \in 1..Len(rest) : rest[i] \in listed
      BY <1>5, <1>10
    <3> QED
      BY <1>15, <1>18, <1>19, <1>20, <2>1, <3>1, <3>2 DEF FreezeKnows
  <2>2. CASE rest = << >>
    <3>1. k.stage = "mark" /\ k.todo = frozen
      BY <1>13, <2>2 DEF FreezeJob
    <3>2. \A m \in listed : Settled(m)'
      <4>1. 1..Len(rest) = {}
        BY <2>2
      <4> QED
        BY <1>19, <4>1
    <3> QED
      BY <1>15, <1>18, <1>20, <3>1, <3>2 DEF FreezeKnows
  <2> QED
    BY <2>1, <2>2
<1>22. JobKnows(k)'
  <2>1. k.stage \in {"freeze", "mark"}
    BY <1>13 DEF FreezeJob
  <2> QED
    BY <1>15, <1>21, <2>1 DEF JobKnows
<1>23. \A d \in Clients \ {c} : Holds(d) => job[d].no # k.no
  BY <1>1, <1>3, <1>15 DEF RecallInv, RecallSound, OneHolder
<1> QED
  BY <1>14, <1>15, <1>16, <1>22, <1>23, LockedIs, RecallStepKeeps

LEMMA MarkFrozenKeepsRecall ==
  ASSUME RecallInv, NEW c \in Clients, MarkFrozen(c)
  PROVE  RecallInv'
<1>1. PICK j : j = job[c]
  OBVIOUS
<1>2. job[c].op = "assess" /\ job[c].stage = "mark" /\ j.todo # << >>
  BY <1>1 DEF MarkFrozen, At
<1>3. /\ j \in FreezeJobs /\ FreezeKnows(j) /\ Holds(c) /\ j.stage = "mark"
      /\ j.todo \in Seq(Numbers) /\ j.frozen \in Seq(Numbers) /\ j.no \in Numbers
  BY <1>1, <1>2, FreezingJob
<1>4. PICK listed : listed = assessments[j.no].listed
  OBVIOUS
<1>5. /\ j.no \in DOMAIN assessments /\ assessments[j.no].status = "CALCULATING"
      /\ \A m \in listed : Settled(m)
      /\ \A i \in 1..Len(j.todo) : IsLocked(j.todo[i])
  BY <1>3, <1>4 DEF FreezeKnows
<1>6. PICK n : n = Head(j.todo)
  OBVIOUS
<1>7. PICK rest : rest = Tail(j.todo)
  OBVIOUS
<1>8. /\ n = j.todo[1] /\ rest \in Seq(Numbers) /\ IsLocked(n)
      /\ \A i \in 1..Len(rest) : i + 1 \in 1..Len(j.todo) /\ rest[i] = j.todo[i + 1]
  BY <1>2, <1>3, <1>5, <1>6, <1>7, RestOfBatches
<1>9. PICK k : k = FreezeJob(j.no, "mark", rest, j.frozen)
  OBVIOUS
<1>10. job' = [job EXCEPT ![c] = k]
  <2>1. job' = [job EXCEPT ![c] = [j EXCEPT !.todo = rest]]
    BY <1>1, <1>7 DEF MarkFrozen, Continue
  <2>2. j \in FreezeJobs /\ j.stage = "mark"
    BY <1>3
  <2>3. PICK m : m = [j EXCEPT !.todo = rest]
    OBVIOUS
  <2>4. m = [op |-> "assess", stage |-> "mark", no |-> j.no, todo |-> rest, frozen |-> j.frozen]
    BY <2>2, <2>3 DEF FreezeJobs
  <2> QED
    BY <1>9, <2>1, <2>3, <2>4 DEF FreezeJob
<1>11. k \in RecallJobs /\ k.no = j.no /\ k.op = "assess" /\ k.stage = "mark" /\ k.todo = rest
  <2>1. k \in RecallJobs
    BY <1>3, <1>8, <1>9, FreezeJobIs
  <2> QED
    BY <1>9, <2>1 DEF FreezeJob
<1>12. \A i \in 1..Len(rest) : IsLocked(rest[i])
  BY <1>5, <1>8
<1>13. FreezeKnows(k)
  BY <1>4, <1>5, <1>11, <1>12 DEF FreezeKnows
<1>14. JobKnows(k)
  BY <1>11, <1>13 DEF JobKnows
<1>15. HoldsOne(k) => Holds(c) /\ job[c].no = k.no
  BY <1>1, <1>3, <1>11
<1>16. /\ links' = links /\ row' = row /\ assessments' = assessments
       /\ consumption' = consumption /\ skipped' = skipped
  BY DEF MarkFrozen
<1>17. CASE TracesOf(n) = {}
  <2>1. Quiet
    BY <1>1, <1>6, <1>16, <1>17 DEF MarkFrozen, Quiet, recallData, recallDocs, recallPast
  <2> QED
    BY <1>10, <1>11, <1>14, <1>15, <2>1, QuietRecallKeeps
<1>18. CASE TracesOf(n) # {}
  <2>1. Disturb
    BY <1>1, <1>6, <1>18 DEF MarkFrozen
  <2>2. PICK t \in TracesOf(n) :
          traces' = [traces EXCEPT ![t].stock = "FROZEN", ![t].frozen = TRUE]
    BY <1>1, <1>6, <1>18 DEF MarkFrozen
  <2>3. t \in DOMAIN traces /\ traces[t].batch = n
    BY <2>2 DEF TracesOf
  <2>4. /\ traces \in Seq(TraceRow) /\ Len(traces) \in Nat /\ DOMAIN traces = 1..Len(traces)
        /\ links \subseteq (DOMAIN traces) \X (DOMAIN traces)
        /\ \A u \in DOMAIN traces : traces[u] \in TraceRow
    BY TracesAreRows DEF RecallInv, RecallTypeOK
  <2>5. PICK new : new = [traces[t] EXCEPT !.stock = "FROZEN", !.frozen = TRUE]
    OBVIOUS
  <2>6. new \in TraceRow /\ new.batch = n
    BY <2>3, <2>4, <2>5 DEF TraceRow, StockOf
  <2>7. traces' = [traces EXCEPT ![t] = new]
    BY <2>2, <2>3, <2>5
  <2>8. traces' \in Seq(TraceRow) /\ Len(traces') = Len(traces) /\ DOMAIN traces' = DOMAIN traces
        /\ \A u \in DOMAIN traces : traces'[u] = IF u = t THEN new ELSE traces[u]
    BY <2>3, <2>4, <2>6, <2>7
  <2>9. Rewritten
    <3>1. \A u \in DOMAIN traces : traces'[u].batch = traces[u].batch
      BY <2>3, <2>6, <2>8
    <3>2. Len(traces) <= Len(traces') /\ links' \subseteq (DOMAIN traces') \X (DOMAIN traces')
      BY <1>16, <2>4, <2>8
    <3>3. \A u \in DOMAIN traces' : traces'[u].frozen =>
            (u \in DOMAIN traces /\ traces[u].frozen) \/ IsLocked(traces'[u].batch)
      BY <1>8, <2>6, <2>8
    <3> QED
      BY <1>16, <2>1, <2>8, <3>1, <3>2, <3>3 DEF Rewritten
  <2>10. JobKnows(k)'
    <3>1. HoldsOne(k) => SameAssessment(k.no)
      BY <2>9, RewrittenIs
    <3> QED
      BY <1>11, <1>14, <2>9, <3>1, RewrittenIs, JobKnowsOn
  <2> QED
    BY <1>10, <1>11, <1>15, <2>9, <2>10, RewritingKeeps
<1> QED
  BY <1>17, <1>18

LEMMA EndMarksKeepsRecall ==
  ASSUME RecallInv, NEW c \in Clients, EndMarks(c)
  PROVE  RecallInv'
<1>1. PICK j : j = job[c]
  OBVIOUS
<1>2. Quiet /\ job[c].op = "assess" /\ job[c].stage = "mark"
  BY DEF EndMarks, At, Quiet
<1>3. /\ j \in FreezeJobs /\ FreezeKnows(j) /\ Holds(c) /\ j.stage = "mark"
      /\ j.frozen \in Seq(Numbers) /\ j.no \in Numbers
  BY <1>1, <1>2, FreezingJob
<1>4. PICK k : k = FreezeJob(j.no, "complete", << >>, j.frozen)
  OBVIOUS
<1>5. job' = [job EXCEPT ![c] = k]
  <2>1. job' = [job EXCEPT ![c] = [j EXCEPT !.todo = << >>, !.stage = "complete"]]
    BY <1>1 DEF EndMarks, Continue
  <2>2. j \in FreezeJobs
    BY <1>3
  <2>3. PICK m : m = [j EXCEPT !.todo = << >>, !.stage = "complete"]
    OBVIOUS
  <2>4. m = [op |-> "assess", stage |-> "complete", no |-> j.no, todo |-> << >>,
             frozen |-> j.frozen]
    BY <2>2, <2>3 DEF FreezeJobs
  <2> QED
    BY <1>4, <2>1, <2>3, <2>4 DEF FreezeJob
<1>6. k \in RecallJobs /\ k.no = j.no /\ k.op = "assess" /\ k.stage = "complete"
  <2>1. << >> \in Seq(Numbers)
    OBVIOUS
  <2>2. k \in RecallJobs
    BY <1>3, <1>4, <2>1, FreezeJobIs
  <2> QED
    BY <1>4, <2>2 DEF FreezeJob
<1>7. FreezeKnows(k)
  BY <1>3, <1>6 DEF FreezeKnows
<1>8. JobKnows(k)
  BY <1>6, <1>7 DEF JobKnows
<1> QED
  BY <1>1, <1>2, <1>3, <1>5, <1>6, <1>8, QuietRecallKeeps

\* The last write of an assessment.
EndsAs(c, status) ==
  /\ Holds(c) /\ status \in {"COMPLETED", "FAILED"}
  /\ status = "COMPLETED" => \A n \in assessments[job[c].no].listed : Settled(n)
  /\ assessments' = [assessments EXCEPT ![job[c].no].status = status]
  /\ job' = [job EXCEPT ![c] = NoJob]
  /\ traces' = traces /\ links' = links /\ row' = row
  /\ consumption' = consumption /\ skipped' = skipped /\ disturbed' = disturbed

LEMMA EndKeeps ==
  ASSUME RecallInv, NEW c \in Clients, NEW status, EndsAs(c, status)
  PROVE  RecallInv'
<1>1. PICK no : no = job[c].no
  OBVIOUS
<1>2. no \in DOMAIN assessments /\ assessments[no] \in AssessmentRow
      /\ (assessments[no].sound => assessments[no].listed = assessments[no].due)
  BY <1>1, HolderKnows, AssessmentFields DEF EndsAs
<1>3. PICK new : new = [assessments[no] EXCEPT !.status = status]
  OBVIOUS
<1>4. /\ new \in AssessmentRow /\ new.status = status /\ new.sound = assessments[no].sound
      /\ new.listed = assessments[no].listed /\ new.due = assessments[no].due
  BY <1>2, <1>3 DEF AssessmentRow, EndsAs
<1>5. assessments' = [assessments EXCEPT ![no] = new]
  BY <1>1, <1>3 DEF EndsAs
<1>6. Assessed(job[c].no, new)
  BY <1>1, <1>2, <1>4, <1>5 DEF Assessed, EndsAs
<1> QED
  BY <1>6, NoRecallJob, AssessedKeeps DEF EndsAs

LEMMA CompleteRecallKeepsRecall ==
  ASSUME RecallInv, NEW c \in Clients, CompleteRecall(c)
  PROVE  RecallInv'
<1>1. job[c].op = "assess" /\ job[c].stage = "complete"
  BY DEF CompleteRecall, At
<1>2. FreezeKnows(job[c]) /\ Holds(c)
  BY <1>1, FreezingJob
<1>3. \A n \in assessments[job[c].no].listed : Settled(n)
  BY <1>1, <1>2 DEF FreezeKnows
<1>4. EndsAs(c, "COMPLETED")
  BY <1>2, <1>3 DEF EndsAs, CompleteRecall, Reply, Continue, recallPast
<1> QED
  BY <1>4, EndKeeps

LEMMA FailRecallKeepsRecall ==
  ASSUME RecallInv, NEW c \in Clients, FailRecall(c)
  PROVE  RecallInv'
<1>1. Holds(c)
  BY DEF FailRecall, At, Holds
<1>2. EndsAs(c, "FAILED")
  BY <1>1 DEF EndsAs, FailRecall, Reply, Continue, recallPast
<1> QED
  BY <1>2, EndKeeps

LEMMA RecallDieKeepsRecall ==
  ASSUME RecallInv, NEW c \in Clients, RecallDie(c)
  PROVE  RecallInv'
<1>1. Quiet /\ job' = [job EXCEPT ![c] = NoJob]
  BY DEF RecallDie, Reply, Continue, Quiet
<1> QED
  BY <1>1, NoRecallJob, QuietRecallKeeps

-----------------------------------------------------------------------------
(* The theorems *)

LEMMA RecallInitInv ==
  ASSUME ReqInit, RecallInit
  PROVE  RecallInv
<1>1. /\ traces = << >> /\ links = {} /\ assessments = << >> /\ disturbed = {}
      /\ row = [b \in Stocked |-> "AVAILABLE"] /\ consumption = {} /\ skipped = {}
      /\ job = [c \in Clients |-> NoJob]
  BY DEF RecallInit, ReqInit
<1>2. DOMAIN traces = {} /\ DOMAIN assessments = {}
  BY <1>1
<1>3. RecallTypeOK
  BY <1>1, <1>2 DEF RecallTypeOK
<1>4. job \in [Clients -> RecallJobs] /\ \A c \in Clients : job[c] = NoJob
  BY <1>1 DEF RecallJobs
<1>5. JobsKnow
  BY <1>4, NoRecallJob DEF JobsKnow
<1>6. OneHolder
  BY <1>4 DEF OneHolder, Holds, NoJob
<1>7. LinksAreConsumed /\ AssessmentsHold /\ FrozenIsLocked /\ LockedIsListed
  BY <1>1, <1>2 DEF LinksAreConsumed, AssessmentsHold, FrozenIsLocked, LockedIsListed
<1> QED
  BY <1>3, <1>4, <1>5, <1>6, <1>7 DEF RecallInv, RecallSound

LEMMA RecallNextInv ==
  ASSUME RecallInv, [RecallNext]_recallVars
  PROVE  RecallInv'
<1>1. CASE UNCHANGED recallVars
  <2>1. Quiet /\ job' = job
    BY <1>1 DEF recallVars, reqVars, Quiet
  <2> QED
    BY <2>1, QuietIs, IdleStepKeeps
<1>2. ASSUME NEW c \in Clients, NEW p \in Productions, ReportProduction(c, p) PROVE RecallInv'
  BY <1>2, ReportProductionKeepsRecall
<1>3. ASSUME NEW c \in Clients, FindTrace(c) \/ CountTraces(c) \/ InsertTrace(c) \/ LinkTrace(c)
      PROVE  RecallInv'
  BY <1>3, FindTraceKeepsRecall, CountTracesKeepsRecall, InsertTraceKeepsRecall,
     LinkTraceKeepsRecall
<1>4. ASSUME NEW c \in Clients, NEW t \in DOMAIN traces, AssessRecall(c, t) PROVE RecallInv'
  BY <1>4, AssessRecallKeepsRecall
<1>5. ASSUME NEW c \in Clients, NEW d \in Directions, SearchTraces(c, d) PROVE RecallInv'
  BY <1>5, SearchTracesKeepsRecall
<1>6. ASSUME NEW c \in Clients, CreateAssessment(c) \/ ClassifyTraces(c)
      PROVE  RecallInv'
  BY <1>6, CreateAssessmentKeepsRecall, ClassifyTracesKeepsRecall
<1>7. ASSUME NEW c \in Clients, NEW done \in BOOLEAN, FreezeStock(c, done) PROVE RecallInv'
  BY <1>7, FreezeStockKeepsRecall
<1>8. ASSUME NEW c \in Clients, MarkFrozen(c) \/ EndMarks(c) PROVE RecallInv'
  BY <1>8, MarkFrozenKeepsRecall, EndMarksKeepsRecall
<1>9. ASSUME NEW c \in Clients, CompleteRecall(c) \/ FailRecall(c) \/ RecallDie(c)
      PROVE  RecallInv'
  BY <1>9, CompleteRecallKeepsRecall, FailRecallKeepsRecall, RecallDieKeepsRecall
<1>10. ASSUME NEW t \in DOMAIN traces, StockIn(t) PROVE RecallInv'
  BY <1>10, StockInKeepsRecall
<1> QED
  BY <1>1, <1>2, <1>3, <1>4, <1>5, <1>6, <1>7, <1>8, <1>9, <1>10 DEF RecallNext

LEMMA RecallInvHolds == RecallSpec => []RecallInv
<1>1. ReqInit /\ RecallInit => RecallInv
  BY RecallInitInv
<1>2. RecallInv /\ [RecallNext]_recallVars => RecallInv'
  BY RecallNextInv
<1> QED
  BY <1>1, <1>2, PTL DEF RecallSpec

(***************************************************************************)
(* Traces, links, stock and assessments of a recall keep their types:      *)
(* links join traces there are, and an assessment lists traces there are.  *)
(***************************************************************************)
THEOREM RecallsAreTyped == RecallSpec => []RecallTypeOK
<1>1. RecallInv => RecallTypeOK
  BY DEF RecallInv
<1> QED
  BY <1>1, RecallInvHolds, PTL

LEMMA RecallInvIsComplete ==
  ASSUME RecallInv
  PROVE  RecallIsComplete
<1>1. ASSUME NEW a \in DOMAIN assessments, assessments[a].status = "COMPLETED"
      PROVE  /\ assessments[a].sound => assessments[a].listed = assessments[a].due
             /\ \A n \in assessments[a].listed \cap Stocked : n \in skipped \/ row[n] = "LOCKED"
  BY <1>1 DEF RecallInv, RecallSound, AssessmentsHold, Settled, IsLocked
<1>2. \A n \in Stocked : row[n] = "LOCKED" =>
        \E a \in DOMAIN assessments : n \in assessments[a].listed
  BY DEF RecallInv, RecallSound, LockedIsListed
<1>3. \A t \in DOMAIN traces : traces[t].frozen /\ traces[t].batch \in Stocked
        => row[traces[t].batch] = "LOCKED"
  BY DEF RecallInv, RecallSound, FrozenIsLocked, IsLocked
<1> QED
  BY <1>1, <1>2, <1>3 DEF RecallIsComplete

(***************************************************************************)
(* A recall that is COMPLETED has listed just the traces in stock of what  *)
(* was consumed for the problem or made of it, over MaxDepth productions,  *)
(* unless traces changed while it searched, or were not traced in full, or *)
(* were too many; the two breadth-first searches of assess miss no trace   *)
(* and add none.  What it listed is locked unless that failed, and nothing *)
(* else is.                                                                *)
(***************************************************************************)
THEOREM RecallFindsAll == RecallSpec => []RecallIsComplete
<1>1. RecallInv => RecallIsComplete
  BY RecallInvIsComplete
<1> QED
  BY <1>1, RecallInvHolds, PTL
=============================================================================
