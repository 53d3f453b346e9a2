-------------------------- MODULE ProductionProofs --------------------------
(***************************************************************************)
(* Theorems about the changes and the production of PLM and MES:           *)
(* EcnExecution, Operations and WorkOrderTree, for any number of plans,    *)
(* objects, versions, work orders, operations and requests.                *)
(***************************************************************************)
EXTENDS EcnExecution, Operations, WorkOrderTree, SumProofs

-----------------------------------------------------------------------------
(***************************************************************************)
(* What COMPLETED promises of a change notice and its items, how many      *)
(* versions of an object are active, and that an ended plan rests, for any *)
(* number of plans, objects, versions, work orders and requests.           *)
(*                                                                         *)
(* None of the three is inductive.  The invariant adds what a request in   *)
(* flight may rely on: the plan it works on has the status its stage began *)
(* from, unless the plan is contended (PlanIsHeld); what it is about to    *)
(* complete has been cloned (CloneIsBehind); the version it is about to    *)
(* clone, or to make active, is the only active one that is left, unless   *)
(* the object is excepted (VersionIsHeld); and what it has behind it is    *)
(* completed or failed (BehindIsDone).  That a version is cloned once      *)
(* needs the number of the clone to stay taken (NumbersAreTaken).          *)
(***************************************************************************)

USE DEF byHand

(* The requests in flight *)

ItemsJobs == [op : {"issue"}, plan : Plans, stage : {"items"}, objects : SUBSET Objects]
AssessJobs == [op : {"issue"}, plan : Plans, stage : {"assess"}]
OrdersJobs == [op : {"issue"}, plan : Plans, stage : {"orders"},
               affected : SUBSET WorkOrders]
EarlyJobs == [op : {"execute"}, plan : Plans, stage : {"check", "begin"}]
Asked == [WorkOrders -> [Kinds -> Ref]]
RunningJobs == [op : {"execute"}, plan : Plans, stage : {"item", "announce"},
                todo : SUBSET Objects, failed : BOOLEAN, affected : Asked]
ItemStages == {"read", "clone", "complete", "fail"}
BareJobs == [op : {"execute"}, plan : Plans, stage : {"read", "clone", "fail"},
             todo : SUBSET Objects, failed : BOOLEAN, affected : Asked,
             object : Objects]
MadeJobs == [op : {"execute"}, plan : Plans, stage : {"complete"},
             todo : SUBSET Objects, failed : BOOLEAN, affected : Asked,
             object : Objects, made : Versions]
ItemJobs == BareJobs \cup MadeJobs
RetryJobs == [op : {"retry"}, plan : Plans, stage : {"items", "plan"}]
CancelJobs == [op : {"cancelPlan"}, plan : Plans, stage : {"write"}]
ActivateJobs == [op : {"activate"}, object : Objects, version : Versions,
                 stage : {"others", "own"}]
WithdrawJobs == [op : {"withdraw"}, object : Objects, version : Versions,
                 to : {"INACTIVE", "OBSOLETE"}, stage : {"write"}]
CreateJobs == [op : {"create"}, of : Objects, number : Versions, to : Written,
               stage : {"write"}]
EditJobs == [op : {"edit"}, of : Objects, version : Versions,
             to : Written \cup {"none"}, number : 0..MaxVersion, stage : {"write"}]
PlanOps == {"issue", "execute", "retry", "cancelPlan"}
PlanJobs == ItemsJobs \cup AssessJobs \cup OrdersJobs \cup EarlyJobs
            \cup RunningJobs \cup ItemJobs \cup RetryJobs \cup CancelJobs
VersionJobs == ActivateJobs \cup WithdrawJobs
HandJobs == CreateJobs \cup EditJobs
EcnJobs == PlanJobs \cup VersionJobs \cup HandJobs \cup {NoJob}

\* Client c serves a request on plan p; the request executes items, or one item.
Serves(c, p) == job[c].op \in PlanOps /\ job[c].plan = p
AtItem(j) == j.op = "execute" /\ j.stage \in ItemStages
Runs(j) == AtItem(j) \/ (j.op = "execute" /\ j.stage = "item")

-----------------------------------------------------------------------------
(* The invariant *)

OnePerPlan ==
  \A p \in Plans \ contended : \A c, d \in Clients :
    Serves(c, p) /\ Serves(d, p) => c = d

\* Until the items of a plan are saved there are none, and they are saved once.
SavesItems(c, p) == At(c, "issue", "items") /\ job[c].plan = p

NoItemsYet ==
  /\ \A p \in Plans : plan[p] = "none" => ItemsOf(p) = {}
  /\ \A c \in Clients, p \in Plans : SavesItems(c, p) =>
       ItemsOf(p) = {} /\ \A d \in Clients : SavesItems(d, p) => c = d

ServedIsIssued ==
  \A c \in Clients, p \in Plans : Serves(c, p) => plan[p] # "none"

\* What a request still has to do are items of its plan.
TodoIsItems ==
  \A c \in Clients :
    /\ Runs(job[c]) => job[c].todo \subseteq ItemsOf(job[c].plan)
    /\ AtItem(job[c]) => job[c].object \in job[c].todo

\* The status a request found its plan in, by what it still has to write.
HeldStatus(j) ==
  {s \in PlanStatus :
     /\ j.op = "issue" /\ j.stage = "items" => s = "PENDING"
     /\ j.op = "execute" /\ j.stage \in {"check", "begin"} => s = "PENDING"
     /\ Runs(j) => s = "IN_PROGRESS"
     /\ j.op = "retry" => s = "FAILED"
     /\ j.op = "cancelPlan" => s \in {"PENDING", "FAILED"}}

PlanIsHeld ==
  \A p \in Plans \ contended, c \in Clients :
    Serves(c, p) => plan[p] \in HeldStatus(job[c])

\* Every item but those in S is completed.
DoneIn(f, S) == \A o \in Objects \ S : f[o] # NoItem => f[o].status = "COMPLETED"

BehindIsDone ==
  \A p \in Plans \ contended, c \in Clients :
    Serves(c, p) /\ Runs(job[c]) /\ ~job[c].failed => DoneIn(item[p], job[c].todo)

CompletedIsDone ==
  \A p \in Plans \ contended : plan[p] = "COMPLETED" => DoneIn(item[p], {})

\* The version client c clones in its item, and whether it was cloned.
SourceOf(j) == item[j.plan][j.object].source

CloneIsBehind ==
  \A c \in Clients : At(c, "execute", "complete")
                        => clones[job[c].object][SourceOf(job[c])] > 0

ItemsAreCloned ==
  \A p \in Plans : \A o \in ItemsOf(p) :
    item[p][o].status = "COMPLETED" => clones[o][item[p][o].source] > 0

\* What an item names, and what was cloned, are rows or were rows once.
ItemsNameRows ==
  \A p \in Plans : \A o \in ItemsOf(p) : version[o][item[p][o].source] # "none"

ClonesNameRows ==
  \A o \in Objects, v \in Versions : clones[o][v] > 0 => version[o][v] # "none"

\* The number of a clone is taken, and it bars a second one.
HasNext(o, v) == \E u \in Existing(o) : number[o][u] = number[o][v] + 1

NumbersAreTaken ==
  /\ ClonesNameRows
  /\ \A o \in Objects \ renumbered, v \in Versions :
       clones[o][v] <= 1 /\ (clones[o][v] > 0 => HasNext(o, v))

\* The objects whose active versions are not kept to one.
Excepted == overlapped \cup handWritten

VersionIsHeld ==
  \A c \in Clients :
    /\ At(c, "execute", "clone") /\ job[c].object \notin Excepted
         => ActiveVersions(job[c].object) \subseteq {SourceOf(job[c])}
    /\ At(c, "activate", "own") /\ job[c].object \notin Excepted
         => ActiveVersions(job[c].object) \subseteq {job[c].version}

AtMostOneActive ==
  \A o \in Objects \ Excepted : \A u, v \in ActiveVersions(o) : u = v

PlansSound ==
  ServedIsIssued /\ NoItemsYet /\ OnePerPlan /\ PlanIsHeld /\ BehindIsDone /\ CompletedIsDone
ItemsSound == TodoIsItems /\ CloneIsBehind /\ ItemsAreCloned /\ ItemsNameRows
VersionsSound == NumbersAreTaken /\ VersionIsHeld /\ AtMostOneActive

EcnInv ==
  /\ EcnTypeOK
  /\ job \in [Clients -> EcnJobs]
  /\ PlansSound /\ ItemsSound /\ VersionsSound

-----------------------------------------------------------------------------
(* Lemmas on the data *)

\* An item with its status written is still one, of the same version.
LEMMA ItemIsTyped ==
  ASSUME NEW f \in [Objects -> Item \cup {NoItem}], NEW o \in Objects,
         f[o] # NoItem, NEW s \in {"PENDING", "COMPLETED", "FAILED"},
         NEW g, g = [f EXCEPT ![o].status = s]
  PROVE  /\ g \in [Objects -> Item \cup {NoItem}]
         /\ g[o] \in Item /\ g[o] # NoItem
         /\ g[o].source = f[o].source /\ g[o].status = s
         /\ \A n \in Objects \ {o} : g[n] = f[n]
<1>1. f[o] \in Item
  OBVIOUS
<1>2. [f[o] EXCEPT !.status = s] \in Item
  BY <1>1 DEF Item
<1>3. \A i \in Item : i # NoItem
  BY DEF Item, NoItem
<1>4. [f[o] EXCEPT !.status = s].source = f[o].source /\ [f[o] EXCEPT !.status = s].status = s
  BY <1>1 DEF Item
<1> QED
  BY <1>2, <1>3, <1>4

-----------------------------------------------------------------------------
(* Lemmas on the requests in flight *)

LEMMA EcnJobStays ==
  ASSUME NEW c \in Clients, NEW j \in EcnJobs,
         job \in [Clients -> EcnJobs], job' = [job EXCEPT ![c] = j]
  PROVE  /\ job' \in [Clients -> EcnJobs]
         /\ job'[c] = j
         /\ \A d \in Clients \ {c} : job'[d] = job[d]
OBVIOUS

LEMMA KindsOfJobs ==
  ASSUME NEW j \in EcnJobs
  PROVE  /\ j.op = "issue" => j \in ItemsJobs \cup AssessJobs \cup OrdersJobs
         /\ j.op = "issue" /\ j.stage = "items" => j \in ItemsJobs
         /\ j.op = "issue" /\ j.stage = "orders" => j \in OrdersJobs
         /\ j.op = "execute" => j \in EarlyJobs \cup RunningJobs \cup ItemJobs
         /\ j.op = "execute" /\ j.stage \in {"item", "announce"} => j \in RunningJobs
         /\ AtItem(j) => j \in ItemJobs
         /\ j.op = "retry" => j \in RetryJobs
         /\ j.op = "cancelPlan" => j \in CancelJobs
         /\ j.op = "activate" => j \in ActivateJobs
         /\ j.op = "withdraw" => j \in WithdrawJobs
         /\ j.op = "create" => j \in CreateJobs
         /\ j.op = "edit" => j \in EditJobs
         /\ j.op = "execute" /\ j.stage \in {"read", "clone"} => j \in BareJobs
         /\ j.op = "execute" /\ j.stage = "complete" => j \in MadeJobs
BY DEF EcnJobs, PlanJobs, VersionJobs, HandJobs, ItemsJobs, AssessJobs, OrdersJobs,
       EarlyJobs, RunningJobs, ItemJobs, BareJobs, MadeJobs, RetryJobs, CancelJobs,
       ActivateJobs, WithdrawJobs, CreateJobs, EditJobs, AtItem, ItemStages, NoJob

LEMMA PlanJobsServe ==
  ASSUME NEW j \in EcnJobs, j.op \in PlanOps
  PROVE  j.plan \in Plans /\ j # NoJob /\ "plan" \in DOMAIN j
<1>1. j \in PlanJobs
  BY DEF PlanOps, EcnJobs, VersionJobs, HandJobs, ActivateJobs, WithdrawJobs,
         CreateJobs, EditJobs, NoJob
<1>2. NoJob.op \notin PlanOps
  BY DEF NoJob, PlanOps
<1> QED
  BY <1>1, <1>2 DEF PlanJobs, ItemsJobs, AssessJobs, OrdersJobs, EarlyJobs,
       RunningJobs, ItemJobs, BareJobs, MadeJobs, RetryJobs, CancelJobs

LEMMA ObjectJobsName ==
  ASSUME NEW j \in EcnJobs, AtItem(j) \/ j.op \in {"activate", "withdraw"}
  PROVE  j.object \in Objects /\ j # NoJob /\ "object" \in DOMAIN j
<1>1. j \in ItemJobs \cup VersionJobs
  BY KindsOfJobs DEF VersionJobs
<1>2. NoJob.op \notin {"activate", "withdraw", "execute"}
  BY DEF NoJob
<1> QED
  BY <1>1, <1>2 DEF ItemJobs, BareJobs, MadeJobs, VersionJobs, ActivateJobs,
                    WithdrawJobs, AtItem

\* The record of a request that starts an item.
LEMMA StartedIsJob ==
  ASSUME NEW p \in Plans, NEW todo \in SUBSET Objects, NEW failed \in BOOLEAN,
         NEW affected \in Asked, NEW s \in {"read", "clone", "fail"}, NEW o \in Objects
  PROVE  LET j == ExecutingItem(p, o, s, todo, failed, affected)
         IN /\ j \in ItemJobs
            /\ j.op = "execute" /\ j.plan = p /\ j.stage = s /\ j.todo = todo
            /\ j.failed = failed /\ j.affected = affected /\ j.object = o
BY DEF ExecutingItem, ItemJobs, BareJobs

-----------------------------------------------------------------------------
(* Steps on plans *)

\* A request that serves a plan writes it, and its items, and goes on or ends.
LEMMA PlanStepKeeps ==
  ASSUME EcnInv, NEW c \in Clients, NEW p \in Plans, Serves(c, p),
         NEW j \in EcnJobs, j.op \in PlanOps => j.plan = p,
         ~(j.op = "issue" /\ j.stage = "items"),
         NEW s \in PlanStatus, s # "none",
         NEW f \in [Objects -> Item \cup {NoItem}],
         \/ At(c, "issue", "items")
         \/ \A o \in Objects : item[p][o] = NoItem => f[o] = NoItem,
         p \notin contended =>
           /\ j.op \in PlanOps => s \in HeldStatus(j)
           /\ j.op \in PlanOps /\ Runs(j) /\ ~j.failed => DoneIn(f, j.todo)
           /\ s = "COMPLETED" => DoneIn(f, {}),
         job' = [job EXCEPT ![c] = j], contended' = contended,
         plan'[p] = s, \A q \in Plans \ {p} : plan'[q] = plan[q],
         item'[p] = f, \A q \in Plans \ {p} : item'[q] = item[q]
  PROVE  PlansSound'
<1>1. /\ job' \in [Clients -> EcnJobs] /\ job'[c] = j
      /\ \A d \in Clients \ {c} : job'[d] = job[d]
  BY EcnJobStays DEF EcnInv
<1>2. /\ plan'[p] = s /\ \A q \in Plans \ {p} : plan'[q] = plan[q]
      /\ item'[p] = f /\ \A q \in Plans \ {p} : item'[q] = item[q]
  OBVIOUS
<1>3. \A d \in Clients \ {c}, q \in Plans : Serves(d, q)' <=> Serves(d, q)
  BY <1>1 DEF Serves
<1>4. \A q \in Plans : Serves(c, q)' => q = p
  BY <1>1 DEF Serves
<1>5. p \notin contended => \A d \in Clients \ {c} : ~Serves(d, p)
  BY DEF EcnInv, PlansSound, OnePerPlan
<1>6. OnePerPlan'
  BY <1>3, <1>4, <1>5 DEF EcnInv, PlansSound, OnePerPlan
<1>7. PlanIsHeld'
  <2> SUFFICES ASSUME NEW q \in Plans \ contended, NEW d \in Clients, Serves(d, q)'
               PROVE  plan'[q] \in HeldStatus(job'[d])
    BY DEF PlanIsHeld
  <2>1. CASE d = c
    BY <1>1, <1>2, <1>4, <2>1 DEF Serves
  <2>2. CASE d # c
    BY <1>1, <1>2, <1>3, <1>5, <2>2 DEF EcnInv, PlansSound, PlanIsHeld
  <2> QED
    BY <2>1, <2>2
<1>8. BehindIsDone'
  <2> SUFFICES ASSUME NEW q \in Plans \ contended, NEW d \in Clients, Serves(d, q)',
                      Runs(job'[d]), ~job'[d].failed
               PROVE  DoneIn(item'[q], job'[d].todo)
    BY DEF BehindIsDone
  <2>1. CASE d = c
    BY <1>1, <1>2, <1>4, <2>1 DEF Serves
  <2>2. CASE d # c
    BY <1>1, <1>2, <1>3, <1>5, <2>2 DEF EcnInv, PlansSound, BehindIsDone
  <2> QED
    BY <2>1, <2>2
<1>9. CompletedIsDone'
  <2> SUFFICES ASSUME NEW q \in Plans \ contended, plan'[q] = "COMPLETED"
               PROVE  DoneIn(item'[q], {})
    BY DEF CompletedIsDone
  <2> QED
    BY <1>2 DEF EcnInv, PlansSound, CompletedIsDone
<1>10. NoItemsYet'
  <2>1. \A q \in Plans : plan'[q] = "none" => ItemsOf(q)' = {}
    BY <1>2 DEF EcnInv, PlansSound, NoItemsYet, ItemsOf
  <2>2. ASSUME NEW d \in Clients, NEW q \in Plans, SavesItems(d, q)'
        PROVE  ItemsOf(q)' = {} /\ \A e \in Clients : SavesItems(e, q)' => d = e
    <3>1. \A e \in Clients : SavesItems(e, q)' => e # c /\ SavesItems(e, q)
      BY <1>1 DEF SavesItems, At
    <3>2. ItemsOf(q) = {} /\ \A e \in Clients : SavesItems(e, q) => d = e
      BY <2>2, <3>1 DEF EcnInv, PlansSound, NoItemsYet
    <3>3. ItemsOf(q)' = {}
      <4>1. CASE q # p
        BY <1>2, <3>2, <4>1 DEF ItemsOf
      <4>2. CASE q = p
        <5>1. ~At(c, "issue", "items")
          BY <2>2, <3>1, <3>2, <4>2 DEF SavesItems, Serves
        <5>2. \A o \in Objects : item[p][o] = NoItem
          BY <3>2, <4>2 DEF ItemsOf
        <5> QED
          BY <1>2, <4>2, <5>1, <5>2 DEF ItemsOf
      <4> QED
        BY <4>1, <4>2
    <3> QED
      BY <3>1, <3>2, <3>3
  <2> QED
    BY <2>1, <2>2 DEF NoItemsYet
<1>11. ServedIsIssued'
  BY <1>2, <1>3, <1>4 DEF EcnInv, PlansSound, ServedIsIssued
<1> QED
  BY <1>6, <1>7, <1>8, <1>9, <1>10, <1>11 DEF PlansSound

\* A request on plan p is accepted, and may begin with writing the plan.
LEMMA PlanRequestKeeps ==
  ASSUME EcnInv, NEW c \in Clients, NEW p \in Plans, NEW j \in EcnJobs,
         j.op \in PlanOps, j.plan = p, On(c, p, j), ~Runs(j),
         NEW s \in PlanStatus, s # "COMPLETED" \/ s = plan[p], s \in HeldStatus(j),
         plan'[p] = s, \A q \in Plans \ {p} : plan'[q] = plan[q], s # "none",
         j.op = "issue" => plan[p] = "none",
         item' = item
  PROVE  PlansSound'
<1>1. /\ job' \in [Clients -> EcnJobs] /\ job'[c] = j
      /\ \A d \in Clients \ {c} : job'[d] = job[d]
  BY EcnJobStays DEF EcnInv, On, Accept
<1>2. /\ plan'[p] = s /\ \A q \in Plans \ {p} : plan'[q] = plan[q]
  OBVIOUS
<1>3. \A d \in Clients \ {c}, q \in Plans : Serves(d, q)' <=> Serves(d, q)
  BY <1>1 DEF Serves
<1>4. \A q \in Plans : Serves(c, q)' <=> q = p
  BY <1>1 DEF Serves
<1>5. /\ contended \subseteq contended'
      /\ p \notin contended' => \A d \in Clients \ {c} : ~Serves(d, p)
  <2>1. \A d \in Clients : Serves(d, p) =>
          job[d] # NoJob /\ "plan" \in DOMAIN job[d] /\ job[d].plan = p
    BY PlanJobsServe DEF Serves, EcnInv
  <2> QED
    BY <2>1 DEF On
<1>6. OnePerPlan'
  BY <1>3, <1>4, <1>5 DEF EcnInv, PlansSound, OnePerPlan
<1>7. PlanIsHeld'
  BY <1>1, <1>2, <1>3, <1>4, <1>5 DEF EcnInv, PlansSound, PlanIsHeld
<1>8. BehindIsDone'
  BY <1>1, <1>3, <1>4, <1>5 DEF EcnInv, PlansSound, BehindIsDone
<1>9. CompletedIsDone'
  BY <1>2, <1>5 DEF EcnInv, PlansSound, CompletedIsDone
<1>10. NoItemsYet'
  <2>1. \A q \in Plans : ItemsOf(q)' = ItemsOf(q)
    BY DEF ItemsOf
  <2>2. \A q \in Plans : plan'[q] = "none" => ItemsOf(q)' = {}
    BY <1>2, <2>1 DEF EcnInv, PlansSound, NoItemsYet
  <2>3. ASSUME NEW d \in Clients, NEW q \in Plans, SavesItems(d, q)'
        PROVE  ItemsOf(q)' = {} /\ \A e \in Clients : SavesItems(e, q)' => d = e
    <3>1. \A e \in Clients \ {c} : SavesItems(e, q)' <=> SavesItems(e, q)
      BY <1>1 DEF SavesItems, At
    <3>2. SavesItems(c, q)' => j.op = "issue" /\ q = p
      BY <1>1 DEF SavesItems, At
    <3>3. j.op = "issue" => \A e \in Clients : ~SavesItems(e, p)
      BY DEF EcnInv, PlansSound, ServedIsIssued, Serves, SavesItems, At, PlanOps
    <3> QED
      BY <2>1, <2>3, <3>1, <3>2, <3>3 DEF EcnInv, PlansSound, NoItemsYet
  <2> QED
    BY <2>2, <2>3 DEF NoItemsYet
<1>11. ServedIsIssued'
  BY <1>2, <1>3, <1>4 DEF EcnInv, PlansSound, ServedIsIssued
<1> QED
  BY <1>6, <1>7, <1>8, <1>9, <1>10, <1>11 DEF PlansSound

\* A step of a request on versions, or the end of any request.
LEMMA OtherJobKeepsPlans ==
  ASSUME EcnInv, NEW c \in Clients, NEW j \in EcnJobs, j.op \notin PlanOps,
         job' = [job EXCEPT ![c] = j], UNCHANGED <<plan, item, contended>>
  PROVE  PlansSound'
<1>1. /\ job' \in [Clients -> EcnJobs] /\ job'[c] = j
      /\ \A d \in Clients \ {c} : job'[d] = job[d]
  BY EcnJobStays DEF EcnInv
<1>2. \A d \in Clients, q \in Plans : Serves(d, q)' => d # c /\ Serves(d, q)
  BY <1>1 DEF Serves
<1>3. \A d \in Clients, q \in Plans : SavesItems(d, q)' => d # c /\ SavesItems(d, q)
  BY <1>1 DEF SavesItems, At, PlanOps
<1>4. \A q \in Plans : ItemsOf(q)' = ItemsOf(q)
  BY DEF ItemsOf
<1>5. OnePerPlan' /\ CompletedIsDone'
  BY <1>2 DEF EcnInv, PlansSound, OnePerPlan, CompletedIsDone
<1>6. PlanIsHeld' /\ BehindIsDone'
  BY <1>1, <1>2 DEF EcnInv, PlansSound, PlanIsHeld, BehindIsDone
<1>7. NoItemsYet' /\ ServedIsIssued'
  BY <1>2, <1>3, <1>4 DEF EcnInv, PlansSound, NoItemsYet, ServedIsIssued
<1> QED
  BY <1>5, <1>6, <1>7 DEF PlansSound

-----------------------------------------------------------------------------
(* Steps on items and on versions *)

\* No item is taken away from a plan, and none changes the version it names.
ItemsStay ==
  \A p \in Plans, o \in Objects : item[p][o] # NoItem =>
    item'[p][o] # NoItem /\ item'[p][o].source = item[p][o].source

\* What a request in flight relies on, for the request j of a client.
TodoOf(j) ==
  /\ Runs(j) => j.todo \subseteq ItemsOf(j.plan)
  /\ AtItem(j) => j.object \in j.todo
ClonedOf(j) ==
  j.op = "execute" /\ j.stage = "complete" => clones[j.object][SourceOf(j)] > 0
VersionOf(j) ==
  /\ j.op = "execute" /\ j.stage = "clone" /\ j.object \notin Excepted
       => ActiveVersions(j.object) \subseteq {SourceOf(j)}
  /\ j.op = "activate" /\ j.stage = "own" /\ j.object \notin Excepted
       => ActiveVersions(j.object) \subseteq {j.version}

LEMMA RelianceIsPerJob ==
  /\ TodoIsItems <=> \A c \in Clients : TodoOf(job[c])
  /\ CloneIsBehind <=> \A c \in Clients : ClonedOf(job[c])
  /\ VersionIsHeld <=> \A c \in Clients : VersionOf(job[c])
BY DEF TodoIsItems, TodoOf, CloneIsBehind, ClonedOf, VersionIsHeld, VersionOf, At

LEMMA AtItemNamesItem ==
  ASSUME EcnInv, NEW c \in Clients, AtItem(job[c])
  PROVE  /\ job[c].plan \in Plans /\ job[c].object \in Objects
         /\ item[job[c].plan][job[c].object] # NoItem
         /\ item[job[c].plan][job[c].object] \in Item
         /\ SourceOf(job[c]) \in Versions
<1>1. job[c] \in ItemJobs
  BY KindsOfJobs DEF EcnInv
<1>2. job[c].plan \in Plans /\ job[c].object \in Objects
  BY <1>1 DEF ItemJobs, BareJobs, MadeJobs
<1>3. job[c].object \in ItemsOf(job[c].plan)
  BY DEF EcnInv, ItemsSound, TodoIsItems, Runs
<1> QED
  BY <1>2, <1>3 DEF ItemsOf, EcnInv, EcnTypeOK, Item, SourceOf

LEMMA RequestsKeepItems ==
  ASSUME EcnInv, ItemsStay, NEW c \in Clients, NEW j \in EcnJobs,
         job' = [job EXCEPT ![c] = j],
         \A o \in Objects, v \in Versions : clones[o][v] > 0 => clones'[o][v] > 0,
         Runs(j) => \A o \in j.todo : item'[j.plan][o] # NoItem,
         AtItem(j) => j.object \in j.todo,
         j.op = "execute" /\ j.stage = "complete"
           => clones'[j.object][item'[j.plan][j.object].source] > 0
  PROVE  TodoIsItems' /\ CloneIsBehind'
<1>1. /\ job' \in [Clients -> EcnJobs] /\ job'[c] = j
      /\ \A d \in Clients \ {c} : job'[d] = job[d]
  BY EcnJobStays DEF EcnInv
<1>2. Runs(j) => j.todo \subseteq Objects
  BY KindsOfJobs DEF Runs, RunningJobs, ItemJobs, BareJobs, MadeJobs
<1>3. ASSUME NEW d \in Clients
      PROVE  /\ Runs(job'[d]) => \A o \in job'[d].todo :
                  o \in Objects /\ item'[job'[d].plan][o] # NoItem
             /\ AtItem(job'[d]) => job'[d].object \in job'[d].todo
  <2>1. CASE d = c
    BY <1>1, <1>2, <2>1
  <2>2. CASE d # c
    <3>1. job'[d] = job[d]
      BY <1>1, <2>2
    <3>2. Runs(job[d]) => job[d].plan \in Plans
      BY PlanJobsServe DEF Runs, AtItem, EcnInv, PlanOps
    <3>3. TodoOf(job[d])
      BY RelianceIsPerJob DEF EcnInv, ItemsSound
    <3> QED
      BY <3>1, <3>2, <3>3 DEF TodoOf, ItemsOf, ItemsStay
  <2> QED
    BY <2>1, <2>2
<1>4. ASSUME NEW d \in Clients, job'[d].op = "execute", job'[d].stage = "complete"
      PROVE  clones'[job'[d].object][item'[job'[d].plan][job'[d].object].source] > 0
  <2>1. CASE d = c
    BY <1>1, <1>4, <2>1
  <2>2. CASE d # c
    <3>1. job'[d] = job[d] /\ AtItem(job[d]) /\ At(d, "execute", "complete")
      BY <1>1, <1>4, <2>2 DEF AtItem, ItemStages, At
    <3>2. clones[job[d].object][SourceOf(job[d])] > 0
      BY <3>1 DEF EcnInv, ItemsSound, CloneIsBehind
    <3> QED
      BY SMTT(30), <3>1, <3>2, AtItemNamesItem DEF ItemsStay, SourceOf
  <2> QED
    BY <2>1, <2>2
<1>5. TodoIsItems'
  BY <1>3 DEF TodoIsItems, ItemsOf
<1>6. CloneIsBehind'
  BY <1>4 DEF CloneIsBehind, At, SourceOf
<1> QED
  BY <1>5, <1>6

\* A step that writes no version.
LEMMA VersionsStayHeld ==
  ASSUME EcnInv, ItemsStay, NEW c \in Clients, NEW j \in EcnJobs,
         job' = [job EXCEPT ![c] = j],
         UNCHANGED <<version, number, clones, overlapped, byHand>>,
         j.op = "execute" /\ j.stage = "clone" /\ j.object \notin Excepted
           => ActiveVersions(j.object) \subseteq {item'[j.plan][j.object].source},
         ~(j.op = "activate" /\ j.stage = "own")
  PROVE  VersionsSound'
<1>1. /\ job' \in [Clients -> EcnJobs] /\ job'[c] = j
      /\ \A d \in Clients \ {c} : job'[d] = job[d]
  BY EcnJobStays DEF EcnInv
<1>2. NumbersAreTaken' /\ AtMostOneActive'
  BY DEF EcnInv, VersionsSound, NumbersAreTaken, ClonesNameRows, HasNext, Existing,
         AtMostOneActive, ActiveVersions, Excepted
<1>3. VersionIsHeld'
  <2> SUFFICES ASSUME NEW d \in Clients, job'[d].object \notin Excepted
               PROVE  /\ job'[d].op = "execute" /\ job'[d].stage = "clone"
                           => ActiveVersions(job'[d].object)
                                \subseteq {item'[job'[d].plan][job'[d].object].source}
                      /\ job'[d].op = "activate" /\ job'[d].stage = "own"
                           => ActiveVersions(job'[d].object) \subseteq {job'[d].version}
    BY DEF VersionIsHeld, At, SourceOf, ActiveVersions, Excepted
  <2>1. CASE d = c
    BY <1>1, <2>1
  <2>2. CASE d # c
    <3>1. job'[d] = job[d] /\ VersionOf(job[d])
      BY <1>1, <2>2, RelianceIsPerJob DEF EcnInv, VersionsSound
    <3>2. job[d].op = "execute" /\ job[d].stage = "clone" => AtItem(job[d])
      BY DEF AtItem, ItemStages
    <3> QED
      BY <3>1, <3>2, AtItemNamesItem DEF VersionOf, ItemsStay, SourceOf
  <2> QED
    BY <2>1, <2>2
<1> QED
  BY <1>2, <1>3 DEF VersionsSound

\* A step that writes the versions of an object.
LEMMA VersionsWrittenHeld ==
  ASSUME EcnInv, NEW c \in Clients, NEW j \in EcnJobs, NEW o \in Objects,
         NEW f \in [Versions -> VersionStatus],
         job' = [job EXCEPT ![c] = j], item' = item,
         version' = [version EXCEPT ![o] = f], Writes(c, o), NumbersAreTaken',
         handWritten' = handWritten,
         o \notin Excepted =>
           \A u, v \in Versions : f[u] = "ACTIVE" /\ f[v] = "ACTIVE" => u = v,
         ~(j.op = "execute" /\ j.stage = "clone"),
         j.op = "activate" =>
           j.object = o /\ \A u \in Versions : f[u] = "ACTIVE" => u = j.version
  PROVE  VersionsSound'
<1>1. /\ job' \in [Clients -> EcnJobs] /\ job'[c] = j
      /\ \A d \in Clients \ {c} : job'[d] = job[d]
  BY EcnJobStays DEF EcnInv
<1>2. /\ version'[o] = f /\ \A q \in Objects \ {o} : version'[q] = version[q]
      /\ overlapped \subseteq overlapped'
  BY DEF EcnInv, EcnTypeOK, Writes
<1>3. AtMostOneActive'
  BY <1>2 DEF EcnInv, VersionsSound, AtMostOneActive, ActiveVersions, Excepted
<1>4. VersionIsHeld'
  <2> SUFFICES ASSUME NEW d \in Clients, job'[d].object \notin Excepted'
               PROVE  /\ job'[d].op = "execute" /\ job'[d].stage = "clone"
                           => \A u \in Versions : version'[job'[d].object][u] = "ACTIVE"
                                => u = item[job'[d].plan][job'[d].object].source
                      /\ job'[d].op = "activate" /\ job'[d].stage = "own"
                           => \A u \in Versions : version'[job'[d].object][u] = "ACTIVE"
                                                    => u = job'[d].version
    BY DEF VersionIsHeld, At, SourceOf, ActiveVersions
  <2>1. CASE d = c
    BY <1>1, <1>2, <2>1
  <2>2. CASE d # c
    <3>1. job'[d] = job[d] /\ VersionOf(job[d])
      BY <1>1, <2>2, RelianceIsPerJob DEF EcnInv, VersionsSound
    <3>2. AtItem(job[d]) \/ job[d].op = "activate"
            => job[d].object \in Objects /\ job[d].object # o
      <4> SUFFICES ASSUME AtItem(job[d]) \/ job[d].op = "activate"
                   PROVE  job[d].object \in Objects /\ job[d].object # o
        OBVIOUS
      <4>1. job[d].object \in Objects /\ job[d] # NoJob /\ "object" \in DOMAIN job[d]
        BY ObjectJobsName DEF EcnInv
      <4> QED
        BY <2>2, <3>1, <4>1 DEF Writes, Excepted
    <3>3. job[d].op = "execute" /\ job[d].stage = "clone" => AtItem(job[d])
      BY DEF AtItem, ItemStages
    <3> QED
      BY SMTT(30), <1>2, <3>1, <3>2, <3>3 DEF VersionOf, SourceOf, ActiveVersions, Excepted
  <2> QED
    BY <2>1, <2>2
<1> QED
  BY <1>3, <1>4 DEF VersionsSound

LEMMA NoJobIsIdle ==
  NoJob \in EcnJobs /\ NoJob.op = "none" /\ NoJob.op \notin PlanOps /\ ~Runs(NoJob)
BY DEF NoJob, EcnJobs, PlanOps, Runs, AtItem

\* A step that writes neither items nor versions, and does not begin an item.
LEMMA QuietStepKeeps ==
  ASSUME EcnInv, NEW c \in Clients, NEW j \in EcnJobs,
         job' = [job EXCEPT ![c] = j],
         ~Runs(j), ~(j.op = "activate" /\ j.stage = "own"),
         UNCHANGED <<version, number, clones, item, overlapped, byHand>>
  PROVE  ItemsSound' /\ VersionsSound'
<1>1. ItemsStay
  BY DEF ItemsStay
<1>2. ~(j.op = "execute" /\ j.stage \in {"clone", "complete"})
  BY DEF Runs, AtItem, ItemStages
<1>3. ItemsAreCloned' /\ ItemsNameRows'
  BY DEF EcnInv, ItemsSound, ItemsAreCloned, ItemsNameRows, ItemsOf
<1>4. TodoIsItems' /\ CloneIsBehind'
  BY <1>1, <1>2, RequestsKeepItems DEF Runs
<1>5. VersionsSound'
  BY <1>1, <1>2, VersionsStayHeld
<1> QED
  BY <1>3, <1>4, <1>5 DEF ItemsSound

\* A request that ends without a write to plans, items or versions.
LEMMA EndKeeps ==
  ASSUME EcnInv, NEW c \in Clients, job' = [job EXCEPT ![c] = NoJob],
         UNCHANGED <<version, number, clones, plan, item, contended, overlapped,
                     byHand>>
  PROVE  job' \in [Clients -> EcnJobs] /\ PlansSound' /\ ItemsSound' /\ VersionsSound'
BY NoJobIsIdle, OtherJobKeepsPlans, QuietStepKeeps, EcnJobStays DEF EcnInv

\* A request that goes on with its plan as it is.
LEMMA GoOnKeeps ==
  ASSUME EcnInv, NEW c \in Clients, NEW p \in Plans, Serves(c, p),
         NEW j \in EcnJobs, j.op \in PlanOps, j.plan = p, ~Runs(j),
         ~(j.op = "issue" /\ j.stage = "items"),
         p \notin contended => plan[p] \in HeldStatus(j),
         job' = [job EXCEPT ![c] = j],
         UNCHANGED <<version, number, clones, plan, item, contended, overlapped,
                     byHand>>
  PROVE  job' \in [Clients -> EcnJobs] /\ PlansSound' /\ ItemsSound' /\ VersionsSound'
<1>1. plan[p] \in PlanStatus /\ item[p] \in [Objects -> Item \cup {NoItem}]
  BY DEF EcnInv, EcnTypeOK
<1>2. p \notin contended => (plan[p] = "COMPLETED" => DoneIn(item[p], {}))
  BY DEF EcnInv, PlansSound, CompletedIsDone
<1>3. ~(j.op = "activate" /\ j.stage = "own") /\ plan[p] # "none"
  BY DEF PlanOps, EcnInv, PlansSound, ServedIsIssued
<1>4. PlansSound'
  BY <1>1, <1>2, <1>3, PlanStepKeeps
<1> QED
  BY <1>3, <1>4, QuietStepKeeps, EcnJobStays DEF EcnInv

-----------------------------------------------------------------------------
(* The steps of a notice that is issued *)

LEMMA IssueNoticeKeeps ==
  ASSUME EcnInv, NEW c \in Clients, NEW p \in Plans, NEW S \in SUBSET Objects,
         IssueNotice(c, p, S)
  PROVE  EcnInv'
<1> DEFINE j == [op |-> "issue", plan |-> p, stage |-> "items", objects |-> S]
<1>1. /\ j \in EcnJobs /\ j.op = "issue" /\ j.stage = "items" /\ j.plan = p
  BY DEF EcnJobs, PlanJobs, ItemsJobs
<1>2. /\ plan[p] = "none" /\ On(c, p, j) /\ plan' = [plan EXCEPT ![p] = "PENDING"]
      /\ UNCHANGED <<version, number, clones, item, assessment, wip, uses, sent,
                     overlapped, byHand>>
  BY DEF IssueNotice
<1> HIDE DEF j
<1>3. job' = [job EXCEPT ![c] = j] /\ contended' \subseteq contended \cup {p}
  BY <1>2 DEF On, Accept
<1>4. EcnTypeOK'
  BY <1>2, <1>3 DEF EcnInv, EcnTypeOK, PlanStatus
<1>5. "PENDING" \in HeldStatus(j) /\ j.op \in PlanOps /\ ~Runs(j)
  BY <1>1 DEF HeldStatus, PlanOps, Runs, AtItem, PlanStatus
<1>6. plan'[p] = "PENDING" /\ \A q \in Plans \ {p} : plan'[q] = plan[q]
  BY <1>2 DEF EcnInv, EcnTypeOK
<1>7. PlansSound'
  BY <1>1, <1>2, <1>5, <1>6, PlanRequestKeeps DEF PlanStatus
<1> QED
  BY <1>1, <1>2, <1>3, <1>4, <1>5, <1>7, QuietStepKeeps, EcnJobStays DEF EcnInv

\* The request of client c at a stage of an operation on plans.
LEMMA AtServes ==
  ASSUME EcnInv, NEW c \in Clients, job[c].op \in PlanOps
  PROVE  /\ job[c].plan \in Plans /\ Serves(c, job[c].plan)
         /\ plan[job[c].plan] # "none"
         /\ job[c].plan \notin contended => plan[job[c].plan] \in HeldStatus(job[c])
BY PlanJobsServe DEF Serves, EcnInv, PlansSound, ServedIsIssued, PlanIsHeld

LEMMA SaveItemsKeeps ==
  ASSUME EcnInv, NEW c \in Clients, SaveItems(c)
  PROVE  EcnInv'
<1> DEFINE p == job[c].plan
           S == {o \in job[c].objects : ActiveVersions(o) # {}}
           s == IF S = {} THEN "COMPLETED" ELSE plan[p]
           j == [op |-> "issue", plan |-> p, stage |-> "assess"]
<1>0. PICK newest \in [S -> Versions] :
        /\ \A o \in S : HasLatest(o, newest[o], ActiveVersions(o))
        /\ item' = [item EXCEPT ![p] = [o \in Objects |->
             IF o \in S THEN [source |-> newest[o], status |-> "PENDING"] ELSE NoItem]]
  BY DEF SaveItems
<1> DEFINE f == [o \in Objects |->
                   IF o \in S THEN [source |-> newest[o], status |-> "PENDING"]
                   ELSE NoItem]
<1>1. job[c].op \in PlanOps /\ job[c] \in ItemsJobs /\ SavesItems(c, p)
  BY KindsOfJobs DEF SaveItems, At, PlanOps, SavesItems, EcnInv
<1>2. /\ p \in Plans /\ Serves(c, p) /\ plan[p] # "none" /\ S \subseteq Objects
  BY <1>1, AtServes DEF ItemsJobs
<1>3. f \in [Objects -> Item \cup {NoItem}]
  BY <1>2 DEF Item
<1>4. /\ j \in EcnJobs /\ j.op = "issue" /\ j.stage = "assess" /\ j.plan = p
  BY <1>2 DEF EcnJobs, PlanJobs, AssessJobs
<1>5. s \in PlanStatus /\ s # "none" /\ plan' = [plan EXCEPT ![p] = s]
  BY <1>2 DEF SaveItems, EcnInv, EcnTypeOK, PlanStatus
<1>6. /\ item' = [item EXCEPT ![p] = f] /\ job' = [job EXCEPT ![c] = j]
      /\ UNCHANGED <<version, number, clones, assessment, wip, uses, sent, contended,
                     overlapped, byHand>>
  BY <1>0 DEF SaveItems, Continue
<1>7. p \notin contended /\ s = "COMPLETED" => DoneIn(f, {})
  <2>1. p \notin contended => plan[p] = "PENDING"
    <3>1. HeldStatus(job[c]) = {"PENDING"}
      BY <1>1 DEF HeldStatus, SavesItems, At, Runs, AtItem, PlanStatus
    <3> QED
      BY <1>1, <3>1, AtServes
  <2>2. S = {} => DoneIn(f, {})
    BY DEF DoneIn
  <2> QED
    BY <2>1, <2>2
<1>8. \A o \in Objects : item[p][o] = NoItem
  BY <1>1, <1>2 DEF EcnInv, PlansSound, NoItemsYet, ItemsOf
<1>9. \A o \in Objects : f[o].status # "COMPLETED"
  BY DEF NoItem
<1>18. \A o \in Objects : f[o] # NoItem => version[o][f[o].source] = "ACTIVE"
  BY <1>0 DEF HasLatest, ActiveVersions
<1> HIDE DEF s, f, j, S
<1>10. j.op \in PlanOps /\ ~Runs(j) /\ HeldStatus(j) = PlanStatus
  BY <1>4 DEF PlanOps, Runs, AtItem, HeldStatus
<1>11. At(c, "issue", "items")
  BY DEF SaveItems
<1> HIDE DEF p
<1>12. /\ plan'[p] = s /\ \A q \in Plans \ {p} : plan'[q] = plan[q]
       /\ item'[p] = f /\ \A q \in Plans \ {p} : item'[q] = item[q]
  BY <1>2, <1>5, <1>6 DEF EcnInv, EcnTypeOK
<1>13. PlansSound'
  <2>1. p \notin contended =>
           /\ j.op \in PlanOps => s \in HeldStatus(j)
           /\ j.op \in PlanOps /\ Runs(j) /\ ~j.failed => DoneIn(f, j.todo)
           /\ s = "COMPLETED" => DoneIn(f, {})
    BY <1>5, <1>7, <1>10
  <2>2. j.op \in PlanOps => j.plan = p
    BY <1>4
  <2>3. ~(j.op = "issue" /\ j.stage = "items")
    BY <1>4
  <2> QED
    BY <1>2, <1>3, <1>4, <1>5, <1>6, <1>11, <1>12, <2>1, <2>2, <2>3, PlanStepKeeps
<1>14. ItemsStay
  BY <1>2, <1>6, <1>8 DEF ItemsStay, EcnInv, EcnTypeOK
<1>15. TodoIsItems' /\ CloneIsBehind' /\ VersionsSound'
  BY <1>4, <1>6, <1>10, <1>14, RequestsKeepItems, VersionsStayHeld DEF Runs
<1>16. ItemsAreCloned' /\ ItemsNameRows'
  BY <1>2, <1>6, <1>9, <1>18
     DEF EcnInv, EcnTypeOK, ItemsSound, ItemsAreCloned, ItemsNameRows, ItemsOf
<1>17. EcnTypeOK' /\ job' \in [Clients -> EcnJobs]
  BY <1>3, <1>4, <1>5, <1>6, EcnJobStays DEF EcnInv, EcnTypeOK
<1> QED
  BY <1>13, <1>15, <1>16, <1>17 DEF EcnInv, ItemsSound

LEMMA AssessKeeps ==
  ASSUME EcnInv, NEW c \in Clients, Assess(c)
  PROVE  EcnInv'
<1> DEFINE p == job[c].plan
           affected == {w \in WorkOrders : \E o \in ItemsOf(p) :
                          uses[w][KindOf[o]] =
                            [object |-> o, version |-> item[p][o].source]}
           j == [op |-> "issue", plan |-> p, stage |-> "orders",
                 affected |-> affected]
<1>1. p \in Plans /\ Serves(c, p) /\ plan[p] \in PlanStatus
  BY AtServes DEF Assess, At, PlanOps, EcnInv, EcnTypeOK
<1>2. /\ j \in EcnJobs /\ j.op = "issue" /\ j.stage = "orders" /\ j.plan = p
  BY <1>1 DEF EcnJobs, PlanJobs, OrdersJobs
<1>3. /\ job' = [job EXCEPT ![c] = j]
      /\ assessment' = [assessment EXCEPT ![p] = "PENDING"]
      /\ UNCHANGED <<version, number, clones, plan, item, wip, uses, sent, contended,
                     overlapped, byHand>>
  BY DEF Assess, Continue
<1> HIDE DEF j, p
<1>4. j.op \in PlanOps /\ ~Runs(j) /\ HeldStatus(j) = PlanStatus
  BY <1>2 DEF PlanOps, Runs, AtItem, HeldStatus
<1>5. job' \in [Clients -> EcnJobs] /\ PlansSound' /\ ItemsSound' /\ VersionsSound'
  BY <1>1, <1>2, <1>3, <1>4, GoOnKeeps
<1>6. EcnTypeOK'
  BY <1>1, <1>3 DEF EcnInv, EcnTypeOK
<1> QED
  BY <1>5, <1>6 DEF EcnInv

LEMMA SuggestOrdersKeeps ==
  ASSUME EcnInv, NEW c \in Clients, SuggestOrders(c)
  PROVE  EcnInv'
<1>1. job[c] \in OrdersJobs
  BY KindsOfJobs DEF SuggestOrders, At, EcnInv
<1>2. PICK s \in [job[c].affected -> Suggestion] : wip' = [wip EXCEPT ![job[c].plan] = s]
  BY DEF SuggestOrders
<1>3. /\ job' = [job EXCEPT ![c] = NoJob]
      /\ UNCHANGED <<version, number, clones, plan, item, assessment, uses, sent,
                     contended, overlapped, byHand>>
  BY DEF SuggestOrders, Reply, Continue
<1>4. EcnTypeOK'
  BY <1>1, <1>2, <1>3 DEF EcnInv, EcnTypeOK, OrdersJobs
<1> QED
  BY <1>3, <1>4, EndKeeps DEF EcnInv

-----------------------------------------------------------------------------
(* The steps of an execution *)

\* A request is accepted on a plan it finds in the status it relies on.
LEMMA PlanReadKeeps ==
  ASSUME EcnInv, NEW c \in Clients, NEW p \in Plans, NEW j \in EcnJobs,
         j.op \in PlanOps, j.op # "issue", j.plan = p, On(c, p, j), ~Runs(j),
         plan[p] # "none", plan[p] \in HeldStatus(j),
         UNCHANGED <<version, number, clones, plan, item, assessment, wip, uses, sent,
                     overlapped, byHand>>
  PROVE  EcnInv'
<1>1. plan[p] \in PlanStatus /\ ~(j.op = "activate" /\ j.stage = "own")
  BY DEF EcnInv, EcnTypeOK, PlanOps
<1>2. job' = [job EXCEPT ![c] = j] /\ contended' \subseteq contended \cup {p}
  BY DEF On, Accept
<1>3. PlansSound'
  BY <1>1, PlanRequestKeeps
<1>4. ItemsSound' /\ VersionsSound' /\ job' \in [Clients -> EcnJobs]
  BY <1>1, <1>2, QuietStepKeeps, EcnJobStays DEF EcnInv
<1>5. EcnTypeOK'
  BY <1>2 DEF EcnInv, EcnTypeOK
<1> QED
  BY <1>3, <1>4, <1>5 DEF EcnInv

LEMMA EarlyIsJob ==
  ASSUME NEW p \in Plans, NEW stage \in {"check", "begin"}
  PROVE  LET j == [op |-> "execute", plan |-> p, stage |-> stage]
         IN /\ j \in EcnJobs /\ j.op \in PlanOps /\ j.op # "issue" /\ j.plan = p
            /\ ~Runs(j) /\ HeldStatus(j) = {"PENDING"}
<1> DEFINE j == [op |-> "execute", plan |-> p, stage |-> stage]
<1>1. j \in EarlyJobs
  BY DEF EarlyJobs
<1>2. j \in EcnJobs
  BY <1>1 DEF EcnJobs, PlanJobs
<1>3. ~Runs(j)
  BY DEF Runs, AtItem, ItemStages
<1>4. HeldStatus(j) = {"PENDING"}
  BY <1>3 DEF HeldStatus, PlanStatus
<1> QED
  BY <1>2, <1>3, <1>4 DEF PlanOps

LEMMA TriggerKeeps ==
  ASSUME EcnInv, NEW c \in Clients, NEW p \in Plans, Trigger(c, p)
  PROVE  EcnInv'
<1> DEFINE j == [op |-> "execute", plan |-> p, stage |-> "check"]
<1>1. /\ plan[p] = "PENDING" /\ On(c, p, j)
      /\ UNCHANGED <<version, number, clones, plan, item, assessment, wip, uses, sent,
                     overlapped, byHand>>
  BY DEF Trigger, Executable
<1>2. /\ j \in EcnJobs /\ j.op \in PlanOps /\ j.op # "issue" /\ j.plan = p
      /\ ~Runs(j) /\ HeldStatus(j) = {"PENDING"}
  BY EarlyIsJob
<1> HIDE DEF j
<1> QED
  BY <1>1, <1>2, PlanReadKeeps

LEMMA CheckKeeps ==
  ASSUME EcnInv, NEW c \in Clients, Check(c)
  PROVE  EcnInv'
<1> DEFINE p == job[c].plan
           j == [op |-> "execute", plan |-> p, stage |-> "begin"]
<1>1. p \in Plans /\ Serves(c, p)
  BY AtServes DEF Check, At, PlanOps
<1>2. /\ j \in EcnJobs /\ j.op \in PlanOps /\ j.op # "issue" /\ j.plan = p
      /\ ~Runs(j) /\ HeldStatus(j) = {"PENDING"}
  BY <1>1, EarlyIsJob
<1>3. UNCHANGED ecnData
  BY DEF Check
<1>4. EcnTypeOK'
  BY <1>3 DEF ecnData, EcnInv, EcnTypeOK
<1>5. CASE plan[p] = "PENDING"
  <2>1. job' = [job EXCEPT ![c] = j]
    BY <1>5 DEF Check, Continue, Executable
  <2> HIDE DEF j, p
  <2> QED
    BY <1>1, <1>2, <1>3, <1>4, <1>5, <2>1, GoOnKeeps DEF ecnData, EcnInv
<1>6. CASE plan[p] # "PENDING"
  <2>1. job' = [job EXCEPT ![c] = NoJob]
    BY <1>6 DEF Check, Reply, Continue, Executable
  <2> QED
    BY <1>3, <1>4, <2>1, EndKeeps DEF ecnData, EcnInv
<1> QED
  BY <1>5, <1>6

LEMMA RunningJobRuns ==
  ASSUME NEW j \in RunningJobs, j.stage = "item"
  PROVE  /\ j \in EcnJobs /\ j.op = "execute" /\ j.op \in PlanOps
         /\ Runs(j) /\ ~AtItem(j) /\ HeldStatus(j) = {"IN_PROGRESS"}
<1>1. j.op = "execute" /\ j \in EcnJobs
  BY DEF RunningJobs, EcnJobs, PlanJobs
<1>2. Runs(j) /\ ~AtItem(j)
  BY <1>1 DEF Runs, AtItem, ItemStages
<1>3. HeldStatus(j) = {"IN_PROGRESS"}
  BY <1>1, <1>2 DEF HeldStatus, PlanStatus
<1> QED
  BY <1>1, <1>2, <1>3 DEF PlanOps

LEMMA ExecutingRuns ==
  ASSUME NEW p \in Plans, NEW todo \in SUBSET Objects, NEW failed \in BOOLEAN,
         NEW affected \in Asked
  PROVE  LET j == Executing(p, todo, failed, affected)
         IN /\ j \in RunningJobs /\ j.plan = p /\ j.stage = "item" /\ j.todo = todo
            /\ j.failed = failed
BY DEF Executing, RunningJobs

LEMMA NobodyIsAsked == NobodyAffected \in Asked
BY DEF NobodyAffected, Asked, Ref

LEMMA BeginKeeps ==
  ASSUME EcnInv, NEW c \in Clients, Begin(c)
  PROVE  EcnInv'
<1> DEFINE p == job[c].plan
           todo == {o \in ItemsOf(p) : item[p][o].status # "COMPLETED"}
           j == Executing(p, todo, FALSE, NobodyAffected)
<1>1. p \in Plans /\ Serves(c, p) /\ ~At(c, "issue", "items")
  BY AtServes DEF Begin, At, PlanOps
<1>2. /\ j \in EcnJobs /\ j.op = "execute" /\ j.op \in PlanOps /\ j.plan = p
      /\ j.stage = "item" /\ j.todo = todo /\ j.failed = FALSE
      /\ Runs(j) /\ ~AtItem(j) /\ HeldStatus(j) = {"IN_PROGRESS"}
  <2>1. j \in RunningJobs /\ j.stage = "item"
    BY <1>1, NobodyIsAsked DEF Executing, RunningJobs, ItemsOf
  <2>2. j.plan = p /\ j.todo = todo /\ j.failed = FALSE
    BY DEF Executing
  <2> HIDE DEF j
  <2> QED
    BY <2>1, <2>2, RunningJobRuns
<1>3. /\ plan' = [plan EXCEPT ![p] = "IN_PROGRESS"] /\ job' = [job EXCEPT ![c] = j]
      /\ UNCHANGED <<version, number, clones, item, assessment, wip, uses, sent,
                     contended, overlapped, byHand>>
  BY DEF Begin, Continue
<1>4. DoneIn(item[p], todo) /\ \A o \in todo : item[p][o] # NoItem
  BY DEF DoneIn, ItemsOf
<1> HIDE DEF j, todo, p
<1>5. /\ plan'[p] = "IN_PROGRESS" /\ \A q \in Plans \ {p} : plan'[q] = plan[q]
      /\ item[p] \in [Objects -> Item \cup {NoItem}]
  BY <1>1, <1>3 DEF EcnInv, EcnTypeOK
<1>6. PlansSound'
  BY <1>1, <1>2, <1>3, <1>4, <1>5, PlanStepKeeps DEF PlanStatus
<1>7. ItemsStay
  BY <1>3 DEF ItemsStay
<1>8. TodoIsItems' /\ CloneIsBehind' /\ VersionsSound'
  BY <1>2, <1>3, <1>4, <1>7, RequestsKeepItems, VersionsStayHeld
<1>9. ItemsAreCloned' /\ ItemsNameRows'
  BY <1>3 DEF EcnInv, ItemsSound, ItemsAreCloned, ItemsNameRows, ItemsOf
<1>10. EcnTypeOK' /\ job' \in [Clients -> EcnJobs]
  BY <1>2, <1>3, EcnJobStays DEF EcnInv, EcnTypeOK, PlanStatus
<1> QED
  BY <1>6, <1>8, <1>9, <1>10 DEF EcnInv, ItemsSound

\* What is known of a request that executes items.
LEMMA RunningServes ==
  ASSUME EcnInv, NEW c \in Clients, Runs(job[c])
  PROVE  LET p == job[c].plan
         IN /\ job[c].op = "execute" /\ p \in Plans /\ Serves(c, p)
            /\ plan[p] # "none" /\ plan[p] \in PlanStatus
            /\ item[p] \in [Objects -> Item \cup {NoItem}]
            /\ job[c].todo \in SUBSET Objects /\ job[c].failed \in BOOLEAN
            /\ job[c].affected \in Asked
            /\ \A o \in job[c].todo : item[p][o] # NoItem
            /\ p \notin contended => /\ plan[p] = "IN_PROGRESS"
                                     /\ ~job[c].failed => DoneIn(item[p], job[c].todo)
<1> DEFINE p == job[c].plan
<1>1. job[c].op = "execute" /\ job[c].op \in PlanOps
  BY DEF Runs, AtItem, PlanOps
<1>2. job[c] \in RunningJobs \cup ItemJobs
  BY KindsOfJobs DEF EcnInv, Runs
<1>3. /\ p \in Plans /\ Serves(c, p) /\ plan[p] # "none"
      /\ p \notin contended => plan[p] \in HeldStatus(job[c])
  BY <1>1, AtServes
<1>4. HeldStatus(job[c]) \subseteq {"IN_PROGRESS"}
  BY DEF HeldStatus
<1>5. p \notin contended /\ ~job[c].failed => DoneIn(item[p], job[c].todo)
  BY <1>3 DEF EcnInv, PlansSound, BehindIsDone
<1>6. job[c].todo \subseteq ItemsOf(p)
  BY DEF EcnInv, ItemsSound, TodoIsItems
<1>7. /\ job[c].todo \in SUBSET Objects /\ job[c].failed \in BOOLEAN
      /\ job[c].affected \in Asked
  BY <1>2 DEF RunningJobs, ItemJobs, BareJobs, MadeJobs
<1>8. plan[p] \in PlanStatus /\ item[p] \in [Objects -> Item \cup {NoItem}]
  BY <1>3 DEF EcnInv, EcnTypeOK
<1> QED
  BY <1>1, <1>3, <1>4, <1>5, <1>6, <1>7, <1>8 DEF ItemsOf

LEMMA ItemJobRuns ==
  ASSUME NEW j \in ItemJobs
  PROVE  /\ j \in EcnJobs /\ AtItem(j) /\ Runs(j) /\ j.op \in PlanOps
         /\ j.op = "execute" /\ HeldStatus(j) = {"IN_PROGRESS"}
<1>1. j.op = "execute" /\ j.stage \in ItemStages /\ j \in EcnJobs
  BY DEF ItemJobs, BareJobs, MadeJobs, ItemStages, EcnJobs, PlanJobs
<1>2. AtItem(j) /\ Runs(j)
  BY <1>1 DEF AtItem, Runs
<1>3. HeldStatus(j) = {"IN_PROGRESS"}
  BY <1>1, <1>2 DEF HeldStatus, PlanStatus, ItemStages
<1> QED
  BY <1>1, <1>2, <1>3 DEF PlanOps

\* The status of an item of its plan is written by a request that executes it.
LEMMA ItemWriteKeeps ==
  ASSUME EcnInv, NEW c \in Clients, Runs(job[c]),
         NEW o \in job[c].todo, NEW s \in {"PENDING", "COMPLETED", "FAILED"},
         item' = [item EXCEPT ![job[c].plan][o].status = s],
         NEW j \in EcnJobs, j.op = "execute", j.plan = job[c].plan, Runs(j),
         j.todo \subseteq job[c].todo, AtItem(j) => j.object \in j.todo,
         ~j.failed => /\ ~job[c].failed
                      /\ o \in j.todo \/ s = "COMPLETED"
                      /\ \A n \in job[c].todo \ {o} : n \in j.todo,
         j.stage \in {"item", "read", "fail"},
         s = "COMPLETED" => clones[o][item[job[c].plan][o].source] > 0,
         job' = [job EXCEPT ![c] = j],
         UNCHANGED <<version, number, clones, plan, assessment, wip, uses, sent,
                     contended, overlapped, byHand>>
  PROVE  EcnInv'
<1> DEFINE p == job[c].plan
           f == [item[p] EXCEPT ![o].status = s]
<1>1. /\ p \in Plans /\ Serves(c, p) /\ plan[p] # "none" /\ plan[p] \in PlanStatus
      /\ item[p] \in [Objects -> Item \cup {NoItem}] /\ o \in Objects
      /\ job[c].todo \in SUBSET Objects
      /\ \A n \in job[c].todo : item[p][n] # NoItem
      /\ p \notin contended => /\ plan[p] = "IN_PROGRESS"
                               /\ ~job[c].failed => DoneIn(item[p], job[c].todo)
  BY RunningServes
<1>2. /\ f \in [Objects -> Item \cup {NoItem}]
      /\ f[o] # NoItem /\ f[o].source = item[p][o].source /\ f[o].status = s
      /\ \A n \in Objects \ {o} : f[n] = item[p][n]
  <2>1. f = [item[p] EXCEPT ![o].status = s]
    OBVIOUS
  <2> HIDE DEF f, p
  <2> QED
    BY <1>1, <2>1, ItemIsTyped
<1>3. item'[p] = f /\ \A q \in Plans \ {p} : item'[q] = item[q]
  BY <1>1 DEF EcnInv, EcnTypeOK
<1>4. item' \in [Plans -> [Objects -> Item \cup {NoItem}]]
  <2>1. item' = [q \in Plans |-> item'[q]]
    BY DEF EcnInv, EcnTypeOK
  <2>2. item \in [Plans -> [Objects -> Item \cup {NoItem}]]
    BY DEF EcnInv, EcnTypeOK
  <2> HIDE DEF f, p
  <2>3. \A q \in Plans : item'[q] \in [Objects -> Item \cup {NoItem}]
    BY <1>2, <1>3, <2>2
  <2> QED
    BY <2>1, <2>3
<1> HIDE DEF f, p
<1>5. /\ j.op \in PlanOps /\ HeldStatus(j) = {"IN_PROGRESS"} /\ j.plan = p
  BY DEF HeldStatus, PlanStatus, PlanOps, Runs, AtItem, ItemStages, p
<1>6. p \notin contended /\ ~j.failed => DoneIn(f, j.todo)
  BY <1>1, <1>2 DEF DoneIn
<1>7. PlansSound'
  <2>1. p \notin contended =>
           /\ j.op \in PlanOps => plan[p] \in HeldStatus(j)
           /\ j.op \in PlanOps /\ Runs(j) /\ ~j.failed => DoneIn(f, j.todo)
           /\ plan[p] = "COMPLETED" => DoneIn(f, {})
    BY <1>1, <1>5, <1>6
  <2>2. ~(j.op = "issue" /\ j.stage = "items")
    OBVIOUS
  <2>3. \A n \in Objects : item[p][n] = NoItem => f[n] = NoItem
    BY <1>1, <1>2
  <2>4. plan'[p] = plan[p] /\ \A q \in Plans \ {p} : plan'[q] = plan[q]
    OBVIOUS
  <2> QED
    BY <1>1, <1>2, <1>3, <1>5, <2>1, <2>2, <2>3, <2>4, PlanStepKeeps
<1>8. ItemsStay
  BY SMTT(30), <1>1, <1>2, <1>3 DEF ItemsStay
<1>9. \A n \in j.todo : item'[j.plan][n] # NoItem
  BY <1>1, <1>2, <1>3, <1>5
<1>11. TodoIsItems' /\ CloneIsBehind' /\ VersionsSound'
  BY <1>8, <1>9, RequestsKeepItems, VersionsStayHeld
<1>12. ItemsAreCloned'
  BY SMTT(30), <1>1, <1>2, <1>3 DEF EcnInv, ItemsSound, ItemsAreCloned, ItemsOf, p
<1>14. ItemsNameRows'
  BY SMTT(30), <1>1, <1>2, <1>3 DEF EcnInv, ItemsSound, ItemsNameRows, ItemsOf, p
<1>13. EcnTypeOK' /\ job' \in [Clients -> EcnJobs]
  BY <1>4, EcnJobStays DEF EcnInv, EcnTypeOK
<1> QED
  BY <1>7, <1>11, <1>12, <1>13, <1>14 DEF EcnInv, ItemsSound

LEMMA StartItemKeeps ==
  ASSUME EcnInv, NEW c \in Clients, NEW o \in Objects, StartItem(c, o)
  PROVE  EcnInv'
<1> DEFINE p == job[c].plan
           j == ExecutingItem(p, o, "read", job[c].todo, job[c].failed, job[c].affected)
<1>1. Runs(job[c]) /\ o \in job[c].todo
  BY DEF StartItem, At, Runs
<1>2. /\ p \in Plans /\ job[c].todo \in SUBSET Objects /\ job[c].failed \in BOOLEAN
      /\ job[c].affected \in Asked
  BY <1>1, RunningServes
<1>3. /\ item' = [item EXCEPT ![p][o].status = "PENDING"]
      /\ job' = [job EXCEPT ![c] = j]
      /\ UNCHANGED <<version, number, clones, plan, assessment, wip, uses, sent,
                     contended, overlapped, byHand>>
  BY DEF StartItem, Continue
<1>4. /\ j \in ItemJobs
      /\ j.op = "execute" /\ j.plan = p /\ j.stage = "read" /\ j.todo = job[c].todo
      /\ j.failed = job[c].failed /\ j.object = o
  <2> HIDE DEF p
  <2>1. "read" \in {"read", "clone", "fail"}
    OBVIOUS
  <2> QED
    BY <1>2, <2>1 DEF ExecutingItem, ItemJobs, BareJobs
<1>5. j \in EcnJobs /\ Runs(j)
  BY <1>4, ItemJobRuns
<1> HIDE DEF j
<1> QED
  BY <1>1, <1>3, <1>4, <1>5, ItemWriteKeeps

LEMMA WithItemIsAsked ==
  ASSUME NEW affected \in Asked, NEW p \in Plans, NEW o \in Objects, NEW v \in Versions
  PROVE  WithItem(affected, p, o, v) \in Asked
<1>1. [object |-> o, version |-> v] \in Ref
  BY DEF Ref
<1>2. \A w \in WorkOrders : affected[w] \in [Kinds -> Ref]
  BY DEF Asked
<1>3. \A w \in WorkOrders :
        [affected[w] EXCEPT ![KindOf[o]] = [object |-> o, version |-> v]] \in [Kinds -> Ref]
  BY <1>1, <1>2
<1> QED
  BY <1>2, <1>3 DEF WithItem, Asked

LEMMA CompleteItemKeeps ==
  ASSUME EcnInv, NEW c \in Clients, CompleteItem(c)
  PROVE  EcnInv'
<1> DEFINE p == job[c].plan
           o == job[c].object
           affected == WithItem(job[c].affected, p, o, job[c].made)
           g == ExecutingItem(p, o, "fail", job[c].todo, job[c].failed, affected)
           j == Executing(p, job[c].todo \ {o}, job[c].failed, affected)
<1>1. /\ AtItem(job[c]) /\ Runs(job[c]) /\ At(c, "execute", "complete")
  BY DEF CompleteItem, At, AtItem, Runs, ItemStages
<1>2. /\ p \in Plans /\ job[c].todo \in SUBSET Objects /\ job[c].failed \in BOOLEAN
      /\ job[c].affected \in Asked /\ o \in job[c].todo
  BY <1>1, RunningServes DEF EcnInv, ItemsSound, TodoIsItems
<1>3. o \in Objects /\ item[p][o].source \in Versions
  BY <1>1, AtItemNamesItem DEF SourceOf
<1>4. clones[o][item[p][o].source] > 0
  BY <1>1 DEF EcnInv, ItemsSound, CloneIsBehind, SourceOf
<1>5. job[c].made \in Versions
  BY <1>1, KindsOfJobs DEF At, EcnInv, MadeJobs
<1>6. affected \in Asked
  <2> HIDE DEF p, o
  <2> QED
    BY <1>2, <1>3, <1>5, WithItemIsAsked
<1>7. /\ item' = [item EXCEPT ![p][o].status = "COMPLETED"]
      /\ job' = [job EXCEPT ![c] = j] \/ job' = [job EXCEPT ![c] = g]
      /\ UNCHANGED <<version, number, clones, plan, assessment, wip, uses, sent,
                     contended, overlapped, byHand>>
  BY DEF CompleteItem, Continue
<1>8. /\ j \in RunningJobs /\ j.plan = p /\ j.stage = "item"
      /\ j.todo = job[c].todo \ {o} /\ j.failed = job[c].failed
      /\ g \in ItemJobs /\ g.op = "execute" /\ g.plan = p /\ g.stage = "fail"
      /\ g.todo = job[c].todo /\ g.failed = job[c].failed /\ g.object = o
  <2> HIDE DEF affected, p, o
  <2>1. job[c].todo \ {o} \in SUBSET Objects
    BY <1>2
  <2>2. /\ j \in RunningJobs /\ j.plan = p /\ j.stage = "item"
        /\ j.todo = job[c].todo \ {o} /\ j.failed = job[c].failed
    BY <1>2, <1>6, <2>1, ExecutingRuns
  <2> QED
    BY <1>2, <1>3, <1>6, <2>2 DEF ExecutingItem, ItemJobs, BareJobs
<1> HIDE DEF j, g, affected
<1>9. /\ j \in EcnJobs /\ j.op = "execute" /\ Runs(j) /\ ~AtItem(j)
      /\ g \in EcnJobs /\ Runs(g)
  BY <1>8, RunningJobRuns, ItemJobRuns
<1>10. CASE job' = [job EXCEPT ![c] = j]
  BY <1>1, <1>2, <1>4, <1>7, <1>8, <1>9, <1>10, ItemWriteKeeps
<1>11. CASE job' = [job EXCEPT ![c] = g]
  BY <1>1, <1>2, <1>4, <1>7, <1>8, <1>9, <1>11, ItemWriteKeeps
<1> QED
  BY <1>7, <1>10, <1>11

LEMMA FailItemKeeps ==
  ASSUME EcnInv, NEW c \in Clients, FailItem(c)
  PROVE  EcnInv'
<1> DEFINE p == job[c].plan
           o == job[c].object
           j == Executing(p, job[c].todo \ {o}, TRUE, job[c].affected)
<1>1. /\ AtItem(job[c]) /\ Runs(job[c])
  BY DEF FailItem, At, AtItem, Runs, ItemStages
<1>2. /\ p \in Plans /\ job[c].todo \in SUBSET Objects
      /\ job[c].affected \in Asked /\ o \in job[c].todo
  BY <1>1, RunningServes DEF EcnInv, ItemsSound, TodoIsItems
<1>3. /\ item' = [item EXCEPT ![p][o].status = "FAILED"]
      /\ job' = [job EXCEPT ![c] = j]
      /\ UNCHANGED <<version, number, clones, plan, assessment, wip, uses, sent,
                     contended, overlapped, byHand>>
  BY DEF FailItem, Continue
<1>4. /\ j \in RunningJobs /\ j.plan = p /\ j.stage = "item"
      /\ j.todo = job[c].todo \ {o} /\ j.failed
  BY <1>2 DEF Executing, RunningJobs
<1> HIDE DEF j
<1>5. j \in EcnJobs /\ j.op = "execute" /\ Runs(j) /\ ~AtItem(j)
  BY <1>4, RunningJobRuns
<1> QED
  BY <1>1, <1>2, <1>3, <1>4, <1>5, ItemWriteKeeps

\* A request at an item goes on to the next stage of the item.
LEMMA NextStageKeepsPlans ==
  ASSUME EcnInv, NEW c \in Clients, AtItem(job[c]),
         NEW j \in ItemJobs, j.plan = job[c].plan, j.object = job[c].object,
         j.todo = job[c].todo, j.failed = job[c].failed,
         job' = [job EXCEPT ![c] = j], UNCHANGED <<plan, item, contended>>
  PROVE  PlansSound'
<1> DEFINE p == job[c].plan
<1>1. /\ p \in Plans /\ Serves(c, p) /\ plan[p] # "none" /\ plan[p] \in PlanStatus
      /\ item[p] \in [Objects -> Item \cup {NoItem}]
      /\ p \notin contended => /\ plan[p] = "IN_PROGRESS"
                               /\ ~job[c].failed => DoneIn(item[p], job[c].todo)
  BY RunningServes DEF Runs
<1>2. j \in EcnJobs /\ Runs(j) /\ j.op = "execute" /\ HeldStatus(j) = {"IN_PROGRESS"}
  BY ItemJobRuns
<1>3. j.plan = p
  OBVIOUS
<1> HIDE DEF p
<1> QED
  BY <1>1, <1>2, <1>3, PlanStepKeeps

\* A request at an item goes on, or fails, before it writes anything.
LEMMA NextStageKeeps ==
  ASSUME EcnInv, NEW c \in Clients, AtItem(job[c]),
         NEW j \in BareJobs, j.plan = job[c].plan, j.object = job[c].object,
         j.todo = job[c].todo, j.failed = job[c].failed,
         j.stage = "clone" => version[j.object][SourceOf(j)] = "ACTIVE",
         job' = [job EXCEPT ![c] = j], UNCHANGED ecnData
  PROVE  EcnInv'
<1>1. /\ j \in ItemJobs /\ j \in EcnJobs /\ Runs(j) /\ AtItem(j) /\ j.op = "execute"
      /\ j.stage # "complete"
  BY ItemJobRuns DEF ItemJobs, BareJobs
<1>2. UNCHANGED <<version, number, clones, plan, item, assessment, wip, uses, sent,
                  contended, overlapped, byHand>>
  BY DEF ecnData
<1>3. ItemsStay /\ EcnTypeOK' /\ ItemsAreCloned' /\ ItemsNameRows'
  BY <1>2 DEF ItemsStay, EcnInv, EcnTypeOK, ItemsSound, ItemsAreCloned, ItemsNameRows,
     ItemsOf
<1>4. PlansSound' /\ job' \in [Clients -> EcnJobs]
  BY <1>1, <1>2, NextStageKeepsPlans, EcnJobStays DEF EcnInv
<1>5. j.object \in j.todo /\ \A o \in j.todo : item'[j.plan][o] # NoItem
  BY <1>2 DEF EcnInv, ItemsSound, TodoIsItems, Runs, ItemsOf
<1>6. TodoIsItems' /\ CloneIsBehind'
  BY <1>1, <1>2, <1>3, <1>5, RequestsKeepItems
<1>7. VersionsSound'
  <2>1. /\ job[c].object \in Objects /\ SourceOf(j) = SourceOf(job[c])
        /\ SourceOf(j) \in Versions
    BY AtItemNamesItem DEF SourceOf
  <2>2. j.stage = "clone" /\ j.object \notin Excepted
          => ActiveVersions(j.object) \subseteq {SourceOf(j)}
    BY <2>1 DEF EcnInv, VersionsSound, AtMostOneActive, ActiveVersions
  <2> QED
    BY <1>1, <1>2, <1>3, <2>2, VersionsStayHeld DEF SourceOf
<1> QED
  BY <1>3, <1>4, <1>6, <1>7 DEF EcnInv, ItemsSound

LEMMA ReadSourceKeeps ==
  ASSUME EcnInv, NEW c \in Clients, ReadSource(c)
  PROVE  EcnInv'
<1> DEFINE active == version[job[c].object][item[job[c].plan][job[c].object].source]
                       = "ACTIVE"
           j == [job[c] EXCEPT !.stage = IF active THEN "clone" ELSE "fail"]
<1>1. AtItem(job[c]) /\ job[c] \in BareJobs
  BY KindsOfJobs DEF ReadSource, At, AtItem, ItemStages, EcnInv
<1>2. /\ j \in BareJobs /\ j.plan = job[c].plan /\ j.object = job[c].object
      /\ j.todo = job[c].todo /\ j.failed = job[c].failed
      /\ j.stage = IF active THEN "clone" ELSE "fail"
  BY <1>1 DEF BareJobs
<1>3. j.stage = "clone" => version[j.object][SourceOf(j)] = "ACTIVE"
  BY <1>2 DEF SourceOf
<1>4. job' = [job EXCEPT ![c] = j] /\ UNCHANGED ecnData
  BY DEF ReadSource, Continue
<1> HIDE DEF j
<1> QED
  BY <1>1, <1>2, <1>3, <1>4, NextStageKeeps

LEMMA ItemFailsKeeps ==
  ASSUME EcnInv, NEW c \in Clients, ItemFails(c)
  PROVE  EcnInv'
<1> DEFINE p == job[c].plan
           o == job[c].object
           j == ExecutingItem(p, o, "fail", job[c].todo, job[c].failed, job[c].affected)
<1>1. AtItem(job[c]) /\ Runs(job[c])
  BY DEF ItemFails, AtItem, Runs, ItemStages
<1>2. /\ p \in Plans /\ job[c].todo \in SUBSET Objects /\ job[c].failed \in BOOLEAN
      /\ job[c].affected \in Asked /\ o \in Objects
  BY <1>1, RunningServes, AtItemNamesItem
<1>3. /\ j \in BareJobs /\ j.plan = p /\ j.object = o /\ j.stage = "fail"
      /\ j.todo = job[c].todo /\ j.failed = job[c].failed
  BY <1>2 DEF ExecutingItem, BareJobs
<1>4. job' = [job EXCEPT ![c] = j] /\ UNCHANGED ecnData
  BY DEF ItemFails, Continue
<1> HIDE DEF j
<1> QED
  BY <1>1, <1>3, <1>4, NextStageKeeps

\* A version written by its id, if the row is still there.
LEMMA PutIs ==
  ASSUME NEW o \in Objects, version[o] \in [Versions -> VersionStatus],
         NEW v \in Versions, NEW s \in Written, NEW f, f = Put(o, v, s)
  PROVE  /\ f \in [Versions -> VersionStatus]
         /\ \A u \in Versions : version[o][u] \in Written <=> f[u] \in Written
         /\ \A u \in Versions : version[o][u] # "none" <=> f[u] # "none"
         /\ \A u \in Versions \ {v} : f[u] = version[o][u]
         /\ f[v] = s \/ f[v] \notin Written
BY DEF Put, VersionStatus, Written

LEMMA ClonedIs ==
  ASSUME NEW o \in Objects, version[o] \in [Versions -> VersionStatus],
         NEW v \in Versions, version[o][v] # "none",
         NEW n \in Versions, version[o][n] = "none",
         NEW f, f = Cloned(o, v, n)
  PROVE  /\ f \in [Versions -> VersionStatus]
         /\ f[n] = "ACTIVE" /\ f[v] # "ACTIVE"
         /\ \A u \in Versions \ {v, n} : f[u] = version[o][u]
         /\ \A u \in Versions : version[o][u] \in Written => f[u] \in Written
         /\ \A u \in Versions : version[o][u] # "none" => f[u] # "none"
<1> DEFINE g == Put(o, v, "OBSOLETE")
<1>1. /\ g \in [Versions -> VersionStatus]
      /\ \A u \in Versions : version[o][u] \in Written <=> g[u] \in Written
      /\ \A u \in Versions : version[o][u] # "none" <=> g[u] # "none"
      /\ \A u \in Versions \ {v} : g[u] = version[o][u]
      /\ g[v] = "OBSOLETE" \/ g[v] \notin Written
  BY PutIs DEF Written
<1>2. f = [g EXCEPT ![n] = "ACTIVE"] /\ n # v
  BY DEF Cloned
<1>3. "ACTIVE" \in VersionStatus /\ "ACTIVE" \in Written /\ "none" \notin Written
  BY DEF VersionStatus, Written
<1> HIDE DEF g
<1> QED
  BY <1>1, <1>2, <1>3

LEMMA WritesIsTyped ==
  ASSUME EcnInv, NEW c \in Clients, NEW o \in Objects, Writes(c, o)
  PROVE  overlapped' \subseteq Objects
BY DEF Writes, EcnInv, EcnTypeOK

\* A row is added under a free number: the numbers of the clones stay taken.
LEMMA NewNumberKeeps ==
  ASSUME EcnInv, NEW o \in Objects, NEW n \in Versions, version[o][n] = "none",
         NEW k \in Versions, number' = [number EXCEPT ![o][n] = k],
         NEW f \in [Versions -> VersionStatus], version' = [version EXCEPT ![o] = f],
         f[n] \in Written,
         \A u \in Versions : version[o][u] \in Written => f[u] \in Written,
         \A u \in Versions : version[o][u] # "none" => f[u] # "none",
         renumbered' = renumbered
  PROVE  /\ number' \in [Objects -> [Versions -> 0..MaxVersion]]
         /\ version' \in [Objects -> [Versions -> VersionStatus]]
         /\ \A m \in Objects, u \in Versions :
              version[m][u] # "none" => version'[m][u] # "none"
         /\ \A m \in Objects, u \in Versions : clones[m][u] > 0 =>
              number'[m][u] = number[m][u] /\ (HasNext(m, u) => HasNext(m, u)')
<1> DEFINE g == [number[o] EXCEPT ![n] = k]
<1>1. /\ g \in [Versions -> 0..MaxVersion]
      /\ g[n] = k /\ \A u \in Versions \ {n} : g[u] = number[o][u]
  BY VersionAssumption DEF Versions, EcnInv, EcnTypeOK
<1>2. number' = [number EXCEPT ![o] = g]
  OBVIOUS
<1> HIDE DEF g
<1>3. /\ number' \in [Objects -> [Versions -> 0..MaxVersion]]
      /\ number'[o] = g /\ \A m \in Objects \ {o} : number'[m] = number[m]
  BY <1>1, <1>2 DEF EcnInv, EcnTypeOK
<1>4. /\ version' \in [Objects -> [Versions -> VersionStatus]]
      /\ version'[o] = f /\ \A m \in Objects \ {o} : version'[m] = version[m]
  BY DEF EcnInv, EcnTypeOK
<1>5. ASSUME NEW m \in Objects, NEW u \in Versions, clones[m][u] > 0
      PROVE  number'[m][u] = number[m][u] /\ (HasNext(m, u) => HasNext(m, u)')
  <2>1. version[m][u] # "none"
    BY <1>5 DEF EcnInv, VersionsSound, NumbersAreTaken, ClonesNameRows
  <2>2. \A w \in Versions : version[m][w] # "none" => number'[m][w] = number[m][w]
    BY <1>1, <1>3
  <2>3. \A w \in Existing(m) : w \in Existing(m)' /\ version[m][w] # "none"
    BY <1>4 DEF Existing, Written
  <2> QED
    BY <2>1, <2>2, <2>3 DEF HasNext, Existing
<1> QED
  BY <1>3, <1>4, <1>5

LEMMA CloneKeeps ==
  ASSUME EcnInv, NEW c \in Clients, NEW n \in Versions, Clone(c, n)
  PROVE  EcnInv'
<1> DEFINE p == job[c].plan
           o == job[c].object
           v == item[p][o].source
           k == number[o][v] + 1
<1>1. /\ AtItem(job[c]) /\ Runs(job[c]) /\ job[c] \in BareJobs
      /\ At(c, "execute", "clone")
      /\ version[o][n] = "none" /\ k \in Versions
  BY KindsOfJobs DEF Clone, At, AtItem, Runs, ItemStages, EcnInv, IsNextId
<1>2. /\ p \in Plans /\ o \in Objects /\ v \in Versions /\ version[o][v] # "none"
      /\ job[c].todo \in SUBSET Objects /\ job[c].failed \in BOOLEAN
      /\ job[c].affected \in Asked /\ o \in job[c].todo
      /\ job[c].todo \subseteq ItemsOf(p)
  BY <1>1, RunningServes, AtItemNamesItem
     DEF EcnInv, ItemsSound, TodoIsItems, ItemsNameRows, ItemsOf, SourceOf
<1>3. CASE ~NumberFree(o, k)
  <2> DEFINE j == [job[c] EXCEPT !.stage = "fail"]
  <2>1. /\ j \in BareJobs /\ j.plan = job[c].plan /\ j.object = job[c].object
        /\ j.todo = job[c].todo /\ j.failed = job[c].failed /\ j.stage = "fail"
    BY <1>1 DEF BareJobs
  <2>2. job' = [job EXCEPT ![c] = j] /\ UNCHANGED ecnData
    BY <1>3 DEF Clone, Continue, ecnData
  <2> HIDE DEF j
  <2> QED
    BY <1>1, <2>1, <2>2, NextStageKeeps
<1>4. CASE NumberFree(o, k)
  <2> DEFINE j == ExecutedItem(p, o, n, job[c].todo, job[c].failed, job[c].affected)
             f == Cloned(o, v, n)
  <2>1. /\ j \in MadeJobs /\ j.plan = p /\ j.object = o /\ j.stage = "complete"
        /\ j.todo = job[c].todo /\ j.failed = job[c].failed
    BY <1>2 DEF ExecutedItem, MadeJobs
  <2>2. /\ j \in ItemJobs /\ j \in EcnJobs /\ AtItem(j) /\ Runs(j)
        /\ j.op = "execute"
    BY <2>1, ItemJobRuns DEF ItemJobs
  <2>3. /\ job' = [job EXCEPT ![c] = j]
        /\ version' = [version EXCEPT ![o] = f]
        /\ number' = [number EXCEPT ![o][n] = k]
        /\ clones' = [clones EXCEPT ![o][v] = clones[o][v] + 1]
        /\ Writes(c, o)
        /\ UNCHANGED <<plan, item, assessment, wip, uses, sent, contended, byHand>>
    BY <1>4 DEF Clone, Continue
  <2>4. /\ f \in [Versions -> VersionStatus]
        /\ f[n] = "ACTIVE" /\ f[v] # "ACTIVE"
        /\ \A u \in Versions \ {v, n} : f[u] = version[o][u]
        /\ \A u \in Versions : version[o][u] \in Written => f[u] \in Written
        /\ \A u \in Versions : version[o][u] # "none" => f[u] # "none"
    <3>1. version[o] \in [Versions -> VersionStatus] /\ f = Cloned(o, v, n)
      BY <1>2 DEF EcnInv, EcnTypeOK
    <3> HIDE DEF f, o, v
    <3> QED
      BY <1>1, <1>2, <3>1, ClonedIs
  <2> HIDE DEF j, f
  <2>5. f[n] \in Written
    BY <2>4 DEF Written
  <2>6. /\ number' \in [Objects -> [Versions -> 0..MaxVersion]]
        /\ version' \in [Objects -> [Versions -> VersionStatus]]
        /\ \A m \in Objects, u \in Versions :
             version[m][u] # "none" => version'[m][u] # "none"
        /\ \A m \in Objects, u \in Versions : clones[m][u] > 0 =>
             number'[m][u] = number[m][u] /\ (HasNext(m, u) => HasNext(m, u)')
    <3> HIDE DEF o, v, k
    <3> QED
      BY <1>1, <1>2, <2>3, <2>4, <2>5, NewNumberKeeps
  <2>7. clones \in [Objects -> [Versions -> Nat]]
    BY DEF EcnInv, EcnTypeOK
  <2>8. /\ clones' \in [Objects -> [Versions -> Nat]]
        /\ clones'[o][v] = clones[o][v] + 1
        /\ \A m \in Objects, u \in Versions :
             ~(m = o /\ u = v) => clones'[m][u] = clones[m][u]
    <3> DEFINE g == [clones[o] EXCEPT ![v] = clones[o][v] + 1]
    <3> HIDE DEF o, v
    <3>1. /\ g \in [Versions -> Nat] /\ g[v] = clones[o][v] + 1
          /\ \A u \in Versions \ {v} : g[u] = clones[o][u]
      BY <1>2, <2>7
    <3>2. clones' = [clones EXCEPT ![o] = g]
      BY <2>3
    <3> HIDE DEF g
    <3> QED
      BY <1>2, <2>7, <3>1, <3>2
  <2>9. EcnTypeOK'
    <3>1. overlapped' \subseteq Objects
      BY <1>2, <2>3, WritesIsTyped
    <3> QED
      BY <2>3, <2>6, <2>8, <3>1 DEF EcnInv, EcnTypeOK
  <2>10. n # v /\ version'[o][n] \in Written /\ number'[o][n] = k /\ number'[o][v] = number[o][v]
    <3>1. n # v
      BY <1>1, <1>2
    <3>2. version'[o] = f /\ number'[o] = [number[o] EXCEPT ![n] = k]
      BY <1>2, <2>3 DEF EcnInv, EcnTypeOK
    <3>3. number[o] \in [Versions -> 0..MaxVersion]
      BY <1>2 DEF EcnInv, EcnTypeOK
    <3> HIDE DEF o, v, k
    <3> QED
      BY <1>2, <2>5, <3>1, <3>2, <3>3
  <2>11. o \notin renumbered => clones[o][v] = 0
    <3>1. clones[o][v] > 0 /\ o \notin renumbered => HasNext(o, v)
      BY <1>2 DEF EcnInv, VersionsSound, NumbersAreTaken
    <3>2. ~HasNext(o, v)
      BY <1>4 DEF NumberFree, HasNext
    <3>3. clones[o][v] \in Nat
      BY <1>2, <2>7
    <3> HIDE DEF o, v
    <3> QED
      BY <3>1, <3>2, <3>3
  <2>12. NumbersAreTaken'
    <3>1. ClonesNameRows'
      <4> SUFFICES ASSUME NEW m \in Objects, NEW u \in Versions, clones'[m][u] > 0
                   PROVE  version'[m][u] # "none"
        BY DEF ClonesNameRows
      <4>1. version[m][u] # "none"
        BY <1>2, <2>8 DEF EcnInv, VersionsSound, NumbersAreTaken, ClonesNameRows
      <4> QED
        BY <2>6, <4>1
    <3>2. ASSUME NEW m \in Objects \ renumbered, NEW u \in Versions
          PROVE  clones'[m][u] <= 1 /\ (clones'[m][u] > 0 => HasNext(m, u)')
      <4>1. CASE m = o /\ u = v
        <5>1. clones'[m][u] <= 1
          <6>1. o \notin renumbered
            BY <4>1
          <6>2. clones'[o][v] = clones[o][v] + 1 /\ clones[o][v] = 0
            BY <2>8, <2>11, <6>1
          <6>3. clones'[m][u] = clones[o][v] + 1
            BY <4>1, <6>2
          <6> HIDE DEF o, v
          <6> QED
            BY <6>2, <6>3
        <5>2. HasNext(m, u)'
          <6>1. n \in Existing(m)'
            BY <2>10, <4>1 DEF Existing
          <6>2. number'[m][n] = number'[m][u] + 1
            BY <2>10, <4>1
          <6>3. n \in Versions'
            BY <6>1 DEF Existing
          <6> QED
            BY <6>1, <6>2 DEF HasNext
        <5> QED
          BY <5>1, <5>2
      <4>2. CASE ~(m = o /\ u = v)
        <5>1. clones'[m][u] = clones[m][u]
          BY <2>8, <4>2
        <5>2. clones[m][u] <= 1 /\ (clones[m][u] > 0 => HasNext(m, u))
          BY DEF EcnInv, VersionsSound, NumbersAreTaken
        <5> QED
          BY <2>6, <5>1, <5>2
      <4> QED
        BY <4>1, <4>2
    <3> QED
      BY <2>3, <3>1, <3>2 DEF NumbersAreTaken
  <2>13. o \notin Excepted =>
           \A u, w \in Versions : f[u] = "ACTIVE" /\ f[w] = "ACTIVE" => u = w
    <3>1. o \notin Excepted => \A u \in Versions : version[o][u] = "ACTIVE" => u = v
      BY <1>1, <1>2 DEF EcnInv, VersionsSound, VersionIsHeld, SourceOf, ActiveVersions
    <3> QED
      BY <2>4, <3>1
  <2>14. VersionsSound'
    <3>1. ~(j.op = "execute" /\ j.stage = "clone") /\ j.op # "activate"
      BY <2>1, <2>2
    <3>2. item' = item /\ handWritten' = handWritten
      BY <2>3
    <3> HIDE DEF o, v, k
    <3> QED
      BY <1>2, <2>2, <2>3, <2>4, <2>12, <2>13, <3>1, <3>2, VersionsWrittenHeld
  <2>15. PlansSound' /\ job' \in [Clients -> EcnJobs]
    BY <1>1, <2>1, <2>2, <2>3, NextStageKeepsPlans, EcnJobStays DEF EcnInv
  <2>16. \A m \in Objects, u \in Versions : clones[m][u] > 0 => clones'[m][u] > 0
    <3> SUFFICES ASSUME NEW m \in Objects, NEW u \in Versions, clones[m][u] > 0
                 PROVE  clones'[m][u] > 0
      OBVIOUS
    <3>1. CASE m = o /\ u = v
      <4>1. clones[o][v] \in Nat /\ clones'[m][u] = clones[o][v] + 1
        BY <1>2, <2>7, <2>8, <3>1
      <4> HIDE DEF o, v
      <4> QED
        BY <4>1
    <3>2. CASE ~(m = o /\ u = v)
      BY <2>8, <3>2
    <3> QED
      BY <3>1, <3>2
  <2>17. TodoIsItems' /\ CloneIsBehind'
    <3>1. ItemsStay /\ \A m \in j.todo : item'[j.plan][m] # NoItem
      BY <1>2, <2>1, <2>3 DEF ItemsStay, ItemsOf
    <3>2. clones'[j.object][item'[j.plan][j.object].source] > 0 /\ j.object \in j.todo
      <4>1. item'[j.plan][j.object].source = v /\ j.object = o /\ o \in j.todo
        BY <1>2, <2>1, <2>3
      <4>2. clones'[o][v] > 0
        <5>1. clones[o][v] \in Nat /\ clones'[o][v] = clones[o][v] + 1
          BY <1>2, <2>7, <2>8
        <5> HIDE DEF o, v
        <5> QED
          BY <5>1
      <4> QED
        BY <4>1, <4>2
    <3> QED
      BY <2>2, <2>3, <2>16, <3>1, <3>2, RequestsKeepItems
  <2>18. ItemsAreCloned' /\ ItemsNameRows'
    <3>1. ASSUME NEW q \in Plans, NEW m \in ItemsOf(q)
          PROVE  m \in Objects /\ item[q][m].source \in Versions
      <4>1. item[q][m] \in Item \cup {NoItem} /\ item[q][m] # NoItem /\ m \in Objects
        BY DEF EcnInv, EcnTypeOK, ItemsOf
      <4> QED
        BY <4>1 DEF Item
    <3>2. \A q \in Plans : ItemsOf(q)' = ItemsOf(q)
      BY <2>3 DEF ItemsOf
    <3>3. ItemsAreCloned'
      BY <2>3, <2>16, <3>1, <3>2 DEF EcnInv, ItemsSound, ItemsAreCloned
    <3>4. ItemsNameRows'
      <4> SUFFICES ASSUME NEW q \in Plans, NEW m \in ItemsOf(q)
                   PROVE  version'[m][item[q][m].source] # "none"
        BY <2>3, <3>2 DEF ItemsNameRows
      <4>1. version[m][item[q][m].source] # "none"
        BY DEF EcnInv, ItemsSound, ItemsNameRows
      <4> QED
        BY <2>6, <3>1, <4>1
    <3> QED
      BY <3>3, <3>4
  <2> QED
    BY <2>9, <2>14, <2>15, <2>17, <2>18 DEF EcnInv, ItemsSound
<1> QED
  BY <1>3, <1>4

\* A request writes the status of its plan, and ends or goes on.
LEMMA PlanWriteKeeps ==
  ASSUME EcnInv, NEW c \in Clients, NEW p \in Plans, Serves(c, p),
         ~At(c, "issue", "items"),
         NEW j \in EcnJobs, j.op \in PlanOps => j.plan = p,
         j.op \notin {"issue", "activate"}, ~Runs(j),
         NEW s \in PlanStatus, s # "none",
         p \notin contended => /\ j.op \in PlanOps => s \in HeldStatus(j)
                               /\ s = "COMPLETED" => DoneIn(item[p], {}),
         plan' = [plan EXCEPT ![p] = s], job' = [job EXCEPT ![c] = j],
         UNCHANGED <<version, number, clones, item, assessment, wip, uses, sent,
                     contended, overlapped, byHand>>
  PROVE  EcnInv'
<1>1. /\ plan'[p] = s /\ \A q \in Plans \ {p} : plan'[q] = plan[q]
      /\ item'[p] = item[p] /\ \A q \in Plans \ {p} : item'[q] = item[q]
      /\ item[p] \in [Objects -> Item \cup {NoItem}]
  BY DEF EcnInv, EcnTypeOK
<1>2. PlansSound'
  <2>1. p \notin contended =>
           /\ j.op \in PlanOps => s \in HeldStatus(j)
           /\ j.op \in PlanOps /\ Runs(j) /\ ~j.failed => DoneIn(item[p], j.todo)
           /\ s = "COMPLETED" => DoneIn(item[p], {})
    OBVIOUS
  <2> QED
    BY <1>1, <2>1, PlanStepKeeps
<1>3. ItemsSound' /\ VersionsSound' /\ job' \in [Clients -> EcnJobs]
  BY QuietStepKeeps, EcnJobStays DEF EcnInv
<1>4. EcnTypeOK'
  BY DEF EcnInv, EcnTypeOK
<1> QED
  BY <1>2, <1>3, <1>4 DEF EcnInv

LEMMA FinishKeeps ==
  ASSUME EcnInv, NEW c \in Clients, Finish(c)
  PROVE  EcnInv'
<1> DEFINE p == job[c].plan
<1>1. Runs(job[c]) /\ At(c, "execute", "item") /\ job[c].todo = {}
  BY DEF Finish, At, Runs
<1>2. /\ p \in Plans /\ Serves(c, p) /\ ~At(c, "issue", "items")
      /\ p \notin contended /\ ~job[c].failed => DoneIn(item[p], {})
  BY <1>1, RunningServes DEF At
<1>3. CASE job[c].failed
  <2>1. /\ plan' = [plan EXCEPT ![p] = "FAILED"] /\ job' = [job EXCEPT ![c] = NoJob]
        /\ UNCHANGED <<version, number, clones, item, assessment, wip, uses, sent,
                       contended, overlapped, byHand>>
    BY <1>3 DEF Finish, FinalStatus, Reply, Continue
  <2> QED
    BY <1>2, <2>1, NoJobIsIdle, PlanWriteKeeps DEF PlanStatus
<1>4. CASE ~job[c].failed
  <2> DEFINE j == [job[c] EXCEPT !.stage = "announce"]
  <2>1. /\ plan' = [plan EXCEPT ![p] = "COMPLETED"] /\ job' = [job EXCEPT ![c] = j]
        /\ UNCHANGED <<version, number, clones, item, assessment, wip, uses, sent,
                       contended, overlapped, byHand>>
    BY <1>4 DEF Finish, FinalStatus, Continue
  <2>2. job[c] \in RunningJobs
    BY <1>1, KindsOfJobs DEF At, EcnInv
  <2>3. /\ j \in RunningJobs /\ j.op = "execute" /\ j.stage = "announce"
        /\ j.plan = p
    BY <2>2 DEF RunningJobs
  <2> HIDE DEF j
  <2>4. j \in EcnJobs /\ ~Runs(j) /\ "COMPLETED" \in HeldStatus(j)
    BY <2>3 DEF EcnJobs, PlanJobs, Runs, AtItem, ItemStages, HeldStatus, PlanStatus
  <2> QED
    BY <1>2, <1>4, <2>1, <2>3, <2>4, PlanWriteKeeps DEF PlanStatus
<1> QED
  BY <1>3, <1>4

LEMMA AnnounceKeeps ==
  ASSUME EcnInv, NEW c \in Clients, Announce(c)
  PROVE  EcnInv'
<1>1. job[c] \in RunningJobs
  BY KindsOfJobs DEF Announce, At, EcnInv
<1>2. /\ job' = [job EXCEPT ![c] = NoJob]
      /\ sent' = [sent EXCEPT ![job[c].plan] = sent[job[c].plan] \cup {job[c].affected}]
      /\ UNCHANGED <<version, number, clones, plan, item, assessment, wip, uses,
                     contended, overlapped, byHand>>
  BY DEF Announce, Reply, Continue
<1>3. EcnTypeOK'
  BY <1>1, <1>2 DEF EcnInv, EcnTypeOK, RunningJobs, Asked
<1> QED
  BY <1>2, <1>3, EndKeeps DEF EcnInv

-----------------------------------------------------------------------------
(* Retry and cancel *)

LEMMA RetryIsJob ==
  ASSUME NEW p \in Plans, NEW stage \in {"items", "plan"}
  PROVE  LET j == [op |-> "retry", plan |-> p, stage |-> stage]
         IN /\ j \in EcnJobs /\ j.op \in PlanOps /\ j.op = "retry" /\ j.plan = p
            /\ ~Runs(j) /\ HeldStatus(j) = {"FAILED"}
<1> DEFINE j == [op |-> "retry", plan |-> p, stage |-> stage]
<1>1. j \in RetryJobs /\ ~Runs(j)
  BY DEF RetryJobs, Runs, AtItem
<1>2. HeldStatus(j) = {"FAILED"}
  BY <1>1 DEF HeldStatus, PlanStatus
<1> QED
  BY <1>1, <1>2 DEF PlanOps, EcnJobs, PlanJobs

LEMMA RetryKeeps ==
  ASSUME EcnInv, NEW c \in Clients, NEW p \in Plans, Retry(c, p)
  PROVE  EcnInv'
<1> DEFINE j == [op |-> "retry", plan |-> p, stage |-> "items"]
<1>1. /\ plan[p] = "FAILED" /\ On(c, p, j)
      /\ UNCHANGED <<version, number, clones, plan, item, assessment, wip, uses, sent,
                     overlapped, byHand>>
  BY DEF Retry
<1>2. /\ j \in EcnJobs /\ j.op \in PlanOps /\ j.op = "retry" /\ j.plan = p
      /\ ~Runs(j) /\ HeldStatus(j) = {"FAILED"}
  BY RetryIsJob
<1> HIDE DEF j
<1> QED
  BY <1>1, <1>2, PlanReadKeeps

LEMMA ResetItemsKeeps ==
  ASSUME EcnInv, NEW c \in Clients, ResetItems(c)
  PROVE  EcnInv'
<1> DEFINE p == job[c].plan
           f == [o \in Objects |->
                   IF item[p][o].status = "FAILED"
                   THEN [item[p][o] EXCEPT !.status = "PENDING"] ELSE item[p][o]]
           j == [op |-> "retry", plan |-> p, stage |-> "plan"]
<1>1. /\ At(c, "retry", "items") /\ ~At(c, "issue", "items") /\ p \in Plans
      /\ Serves(c, p) /\ plan[p] # "none" /\ plan[p] \in PlanStatus
      /\ p \notin contended => plan[p] = "FAILED"
  <2>1. At(c, "retry", "items") /\ job[c].op \in PlanOps
    BY DEF ResetItems, At, PlanOps
  <2>2. HeldStatus(job[c]) \subseteq {"FAILED"}
    BY <2>1 DEF HeldStatus, At
  <2> QED
    BY <2>1, <2>2, AtServes DEF At, EcnInv, EcnTypeOK
<1>2. /\ j \in EcnJobs /\ j.op \in PlanOps /\ j.op = "retry" /\ j.plan = p
      /\ ~Runs(j) /\ HeldStatus(j) = {"FAILED"}
  BY <1>1, RetryIsJob
<1>3. /\ item' = [item EXCEPT ![p] = f] /\ job' = [job EXCEPT ![c] = j]
      /\ UNCHANGED <<version, number, clones, plan, assessment, wip, uses, sent,
                     contended, overlapped, byHand>>
  BY DEF ResetItems, Continue
<1>4. ASSUME NEW o \in Objects
      PROVE  /\ f[o] \in Item \cup {NoItem}
             /\ item[p][o] = NoItem => f[o] = NoItem
             /\ item[p][o] # NoItem => f[o] # NoItem /\ f[o].source = item[p][o].source
             /\ f[o].status = "COMPLETED" => item[p][o].status = "COMPLETED"
  <2>1. item[p][o] \in Item \cup {NoItem}
    BY <1>1 DEF EcnInv, EcnTypeOK
  <2>2. CASE item[p][o].status = "FAILED"
    <3>1. item[p][o] \in Item /\ item[p][o] # NoItem
      BY <2>1, <2>2 DEF NoItem
    <3>2. [item[p][o] EXCEPT !.status = "PENDING"] \in Item
      BY <3>1 DEF Item
    <3>3. /\ [item[p][o] EXCEPT !.status = "PENDING"].source = item[p][o].source
          /\ [item[p][o] EXCEPT !.status = "PENDING"].status = "PENDING"
      BY <3>1 DEF Item
    <3>4. \A i \in Item : i # NoItem
      BY DEF Item, NoItem
    <3>5. f[o] = [item[p][o] EXCEPT !.status = "PENDING"]
      BY <2>2
    <3> QED
      BY <3>1, <3>2, <3>3, <3>4, <3>5
  <2>3. CASE item[p][o].status # "FAILED"
    BY <2>1, <2>3
  <2> QED
    BY <2>2, <2>3
<1>5. f \in [Objects -> Item \cup {NoItem}]
  <2>1. f = [o \in Objects |-> f[o]]
    OBVIOUS
  <2> HIDE DEF f
  <2> QED
    BY <1>4, <2>1
<1> HIDE DEF f, j, p
<1>6. /\ plan'[p] = plan[p] /\ \A q \in Plans \ {p} : plan'[q] = plan[q]
      /\ item'[p] = f /\ \A q \in Plans \ {p} : item'[q] = item[q]
  BY <1>1, <1>3 DEF EcnInv, EcnTypeOK
<1>7. PlansSound'
  <2>1. p \notin contended =>
           /\ j.op \in PlanOps => plan[p] \in HeldStatus(j)
           /\ j.op \in PlanOps /\ Runs(j) /\ ~j.failed => DoneIn(f, j.todo)
           /\ plan[p] = "COMPLETED" => DoneIn(f, {})
    BY <1>1, <1>2
  <2>2. \A o \in Objects : item[p][o] = NoItem => f[o] = NoItem
    BY <1>4
  <2> QED
    BY <1>1, <1>2, <1>3, <1>5, <1>6, <2>1, <2>2, PlanStepKeeps
<1>8. ItemsStay
  BY <1>1, <1>4, <1>6 DEF ItemsStay
<1>9. TodoIsItems' /\ CloneIsBehind' /\ VersionsSound'
  BY <1>2, <1>3, <1>8, RequestsKeepItems, VersionsStayHeld DEF Runs
<1>10. ItemsAreCloned'
  BY <1>1, <1>3, <1>4, <1>6 DEF EcnInv, ItemsSound, ItemsAreCloned, ItemsOf
<1>11. ItemsNameRows'
  BY <1>1, <1>3, <1>4, <1>6 DEF EcnInv, ItemsSound, ItemsNameRows, ItemsOf
<1>12. EcnTypeOK' /\ job' \in [Clients -> EcnJobs]
  BY <1>1, <1>2, <1>3, <1>5, EcnJobStays DEF EcnInv, EcnTypeOK
<1> QED
  BY <1>7, <1>9, <1>10, <1>11, <1>12 DEF EcnInv, ItemsSound

LEMMA ResetPlanKeeps ==
  ASSUME EcnInv, NEW c \in Clients, ResetPlan(c)
  PROVE  EcnInv'
<1> DEFINE p == job[c].plan
           j == [op |-> "execute", plan |-> p, stage |-> "check"]
<1>1. p \in Plans /\ Serves(c, p) /\ ~At(c, "issue", "items")
  BY AtServes DEF ResetPlan, At, PlanOps
<1>2. /\ j \in EcnJobs /\ j.op \in PlanOps /\ j.op # "issue" /\ j.op # "activate"
      /\ j.plan = p /\ ~Runs(j) /\ HeldStatus(j) = {"PENDING"}
  BY <1>1, EarlyIsJob
<1>3. /\ plan' = [plan EXCEPT ![p] = "PENDING"] /\ job' = [job EXCEPT ![c] = j]
      /\ UNCHANGED <<version, number, clones, item, assessment, wip, uses, sent,
                     contended, overlapped, byHand>>
  BY DEF ResetPlan, Continue
<1> HIDE DEF j, p
<1> QED
  BY <1>1, <1>2, <1>3, PlanWriteKeeps DEF PlanStatus

LEMMA CancelPlanKeeps ==
  ASSUME EcnInv, NEW c \in Clients, NEW p \in Plans, CancelPlan(c, p)
  PROVE  EcnInv'
<1> DEFINE j == [op |-> "cancelPlan", plan |-> p, stage |-> "write"]
<1>1. /\ plan[p] \in {"PENDING", "FAILED"} /\ On(c, p, j)
      /\ UNCHANGED <<version, number, clones, plan, item, assessment, wip, uses, sent,
                     overlapped, byHand>>
  BY DEF CancelPlan
<1>2. /\ j \in EcnJobs /\ j.op \in PlanOps /\ j.op # "issue" /\ j.plan = p
      /\ ~Runs(j) /\ {"PENDING", "FAILED"} \subseteq HeldStatus(j)
  BY DEF EcnJobs, PlanJobs, CancelJobs, PlanOps, Runs, AtItem, HeldStatus, PlanStatus
<1> HIDE DEF j
<1> QED
  BY <1>1, <1>2, PlanReadKeeps

LEMMA CancelPlanWriteKeeps ==
  ASSUME EcnInv, NEW c \in Clients, CancelPlanWrite(c)
  PROVE  EcnInv'
<1> DEFINE p == job[c].plan
<1>1. p \in Plans /\ Serves(c, p) /\ ~At(c, "issue", "items")
  BY AtServes DEF CancelPlanWrite, At, PlanOps
<1>2. /\ plan' = [plan EXCEPT ![p] = "CANCELLED"] /\ job' = [job EXCEPT ![c] = NoJob]
      /\ UNCHANGED <<version, number, clones, item, assessment, wip, uses, sent,
                     contended, overlapped, byHand>>
  BY DEF CancelPlanWrite, Reply, Continue
<1> HIDE DEF p
<1> QED
  BY <1>1, <1>2, NoJobIsIdle, PlanWriteKeeps DEF PlanStatus

-----------------------------------------------------------------------------
(* Versions changed by hand *)

\* No row that is kept makes a number free again.
LEMMA NumbersStayTaken ==
  ASSUME EcnInv, NEW o \in Objects, NEW f \in [Versions -> VersionStatus],
         \A v \in Versions : version[o][v] # "none" => f[v] # "none",
         \A v \in Versions : version[o][v] \in Written => f[v] \in Written,
         version' = [version EXCEPT ![o] = f],
         UNCHANGED <<clones, number, renumbered>>
  PROVE  /\ NumbersAreTaken'
         /\ version' \in [Objects -> [Versions -> VersionStatus]]
         /\ \A n \in Objects, v \in Versions :
              version[n][v] # "none" => version'[n][v] # "none"
<1>1. /\ version'[o] = f /\ \A n \in Objects \ {o} : version'[n] = version[n]
      /\ version' \in [Objects -> [Versions -> VersionStatus]]
  BY DEF EcnInv, EcnTypeOK
<1>2. \A n \in Objects, v \in Versions : version[n][v] # "none" => version'[n][v] # "none"
  BY <1>1
<1>3. \A n \in Objects, v \in Versions : version[n][v] \in Written => version'[n][v] \in Written
  BY <1>1
<1>4. ClonesNameRows'
  BY <1>2 DEF EcnInv, VersionsSound, NumbersAreTaken, ClonesNameRows
<1>5. \A n \in Objects, v \in Versions : HasNext(n, v) => HasNext(n, v)'
  BY <1>3 DEF HasNext, Existing
<1> QED
  BY <1>1, <1>2, <1>4, <1>5 DEF EcnInv, VersionsSound, NumbersAreTaken

\* A request on versions takes its next step; it says nothing of plans.
LEMMA VersionRequestKeeps ==
  ASSUME EcnInv, NEW c \in Clients, NEW j \in EcnJobs, j.op \notin PlanOps,
         \A o \in Objects, v \in Versions :
           version[o][v] # "none" => version'[o][v] # "none",
         job' = [job EXCEPT ![c] = j], UNCHANGED <<clones, plan, item, contended>>
  PROVE  PlansSound' /\ ItemsSound' /\ job' \in [Clients -> EcnJobs]
<1>1. ItemsStay /\ ~Runs(j) /\ j.op # "execute"
  BY DEF ItemsStay, Runs, AtItem, PlanOps
<1>2. TodoIsItems' /\ CloneIsBehind'
  BY <1>1, RequestsKeepItems DEF Runs
<1>3. ItemsAreCloned'
  BY DEF EcnInv, ItemsSound, ItemsAreCloned, ItemsOf
<1>4. ItemsNameRows'
  BY DEF EcnInv, EcnTypeOK, ItemsSound, ItemsNameRows, ItemsOf, Item
<1> QED
  BY <1>2, <1>3, <1>4, OtherJobKeepsPlans, EcnJobStays DEF EcnInv, ItemsSound

\* Rows are added, numbered, withdrawn or deleted by hand: no version becomes
\* active of an object that is not excepted.
LEMMA QuietHandKeeps ==
  ASSUME EcnInv, \A d \in Clients : job'[d] = job[d] \/ job'[d] = NoJob,
         item' = item, Excepted \subseteq Excepted',
         \A o \in Objects \ Excepted', v \in Versions :
           version'[o][v] = "ACTIVE" => version[o][v] = "ACTIVE"
  PROVE  VersionIsHeld' /\ AtMostOneActive'
<1>1. AtMostOneActive'
  BY DEF EcnInv, VersionsSound, AtMostOneActive, ActiveVersions
<1>3. ASSUME NEW d \in Clients, job'[d].object \notin Excepted'
      PROVE  /\ job'[d].op = "execute" /\ job'[d].stage = "clone"
                  => \A u \in Versions : version'[job'[d].object][u] = "ACTIVE"
                       => u = item[job'[d].plan][job'[d].object].source
             /\ job'[d].op = "activate" /\ job'[d].stage = "own"
                  => \A u \in Versions : version'[job'[d].object][u] = "ACTIVE"
                       => u = job'[d].version
  <2>1. CASE job'[d] = NoJob
    BY <2>1, NoJobIsIdle
  <2>2. CASE job'[d] = job[d]
    <3>1. VersionOf(job[d])
      BY RelianceIsPerJob DEF EcnInv, VersionsSound
    <3>2. AtItem(job[d]) \/ job[d].op = "activate" => job[d].object \in Objects
      <4> SUFFICES ASSUME AtItem(job[d]) \/ job[d].op = "activate"
                   PROVE  job[d].object \in Objects
        OBVIOUS
      <4> QED
        BY ObjectJobsName DEF EcnInv
    <3>3. job[d].op = "execute" /\ job[d].stage = "clone" => AtItem(job[d])
      BY DEF AtItem, ItemStages
    <3>4. job[d].object \notin Excepted
      BY <1>3, <2>2
    <3> QED
      BY <1>3, <2>2, <3>1, <3>2, <3>3, <3>4 DEF VersionOf, SourceOf, ActiveVersions
  <2> QED
    BY <2>1, <2>2
<1>4. VersionIsHeld'
  BY <1>3 DEF VersionIsHeld, At, SourceOf, ActiveVersions
<1> QED
  BY <1>1, <1>4

LEMMA HandJobIs ==
  ASSUME NEW j \in HandJobs
  PROVE  /\ j \in EcnJobs /\ j.op \notin PlanOps /\ ~Runs(j)
         /\ j.op \notin {"execute", "activate"}
<1>1. j.op \in {"create", "edit"}
  BY DEF HandJobs, CreateJobs, EditJobs
<1> QED
  BY <1>1 DEF PlanOps, Runs, AtItem, EcnJobs

\* A request that reads a version, or the next number, is accepted.
LEMMA HandReadKeeps ==
  ASSUME EcnInv, NEW c \in Clients, NEW j \in EcnJobs, j.op \notin PlanOps, ~Runs(j),
         ~(j.op = "activate" /\ j.stage = "own"), Accept(c, j), UNCHANGED ecnData
  PROVE  EcnInv'
<1>1. job' = [job EXCEPT ![c] = j] /\ UNCHANGED <<version, number, clones, plan, item,
         assessment, wip, uses, sent, contended, overlapped, byHand>>
  BY DEF Accept, ecnData
<1>2. PlansSound' /\ ItemsSound' /\ job' \in [Clients -> EcnJobs]
  BY <1>1, VersionRequestKeeps
<1>3. VersionsSound'
  BY <1>1, QuietStepKeeps
<1>4. EcnTypeOK'
  BY <1>1 DEF EcnInv, EcnTypeOK
<1> QED
  BY <1>2, <1>3, <1>4 DEF EcnInv

LEMMA CreateKeeps ==
  ASSUME EcnInv, NEW c \in Clients, NEW o \in Objects, NEW s \in Written, Create(c, o, s)
  PROVE  EcnInv'
<1>1. PICK k \in Versions :
        Accept(c, [op |-> "create", of |-> o, number |-> k, to |-> s, stage |-> "write"])
  BY DEF Create
<1> DEFINE j == [op |-> "create", of |-> o, number |-> k, to |-> s, stage |-> "write"]
<1>2. j \in HandJobs /\ UNCHANGED ecnData
  BY DEF HandJobs, CreateJobs, Create
<1> HIDE DEF j
<1>3. Accept(c, j)
  BY <1>1 DEF j
<1> QED
  BY <1>2, <1>3, HandJobIs, HandReadKeeps

LEMMA EditKeeps ==
  ASSUME EcnInv, NEW c \in Clients, NEW o \in Objects, NEW v \in Versions,
         NEW s \in Written \cup {"none"}, NEW k \in 0..MaxVersion, Edit(c, o, v, s, k)
  PROVE  EcnInv'
<1> DEFINE j == [op |-> "edit", of |-> o, version |-> v, to |-> s, number |-> k,
                 stage |-> "write"]
<1>1. j \in HandJobs
  BY DEF HandJobs, EditJobs
<1>2. Accept(c, j) /\ UNCHANGED ecnData
  BY DEF Edit
<1> HIDE DEF j
<1> QED
  BY <1>1, <1>2, HandJobIs, HandReadKeeps

LEMMA CreateWriteKeeps ==
  ASSUME EcnInv, NEW c \in Clients, NEW n \in Versions, CreateWrite(c, n)
  PROVE  EcnInv'
<1> DEFINE o == job[c].of
           k == job[c].number
           s == job[c].to
<1>1. /\ o \in Objects /\ k \in Versions /\ s \in Written /\ version[o][n] = "none"
  BY KindsOfJobs DEF CreateWrite, At, EcnInv, CreateJobs, IsNextId
<1>2. /\ job' = [job EXCEPT ![c] = NoJob]
      /\ UNCHANGED <<clones, plan, item, assessment, wip, uses, sent, contended,
                     overlapped, renumbered>>
  BY DEF CreateWrite, Reply, Continue
<1>3. CASE ~NumberFree(o, k)
  <2>1. UNCHANGED <<version, number, handWritten>>
    BY <1>3 DEF CreateWrite
  <2>2. EcnTypeOK'
    BY <1>2, <2>1 DEF EcnInv, EcnTypeOK
  <2> QED
    BY <1>2, <2>1, <2>2, EndKeeps DEF EcnInv
<1>4. CASE NumberFree(o, k)
  <2> DEFINE f == [version[o] EXCEPT ![n] = s]
  <2>1. /\ version' = [version EXCEPT ![o] = f]
        /\ number' = [number EXCEPT ![o][n] = k]
        /\ handWritten' = IF s = "DRAFT" THEN handWritten ELSE handWritten \cup {o}
    BY <1>4 DEF CreateWrite
  <2>2. /\ f \in [Versions -> VersionStatus] /\ f[n] = s
        /\ \A u \in Versions \ {n} : f[u] = version[o][u]
    BY <1>1 DEF EcnInv, EcnTypeOK, VersionStatus
  <2> HIDE DEF f, o, k, s
  <2>3. \A u \in Versions : version[o][u] \in Written => f[u] \in Written
    BY <1>1, <2>2 DEF Written
  <2>4. \A u \in Versions : version[o][u] # "none" => f[u] # "none"
    BY <1>1, <2>2
  <2>5. /\ number' \in [Objects -> [Versions -> 0..MaxVersion]]
        /\ version' \in [Objects -> [Versions -> VersionStatus]]
        /\ \A m \in Objects, u \in Versions :
             version[m][u] # "none" => version'[m][u] # "none"
        /\ \A m \in Objects, u \in Versions : clones[m][u] > 0 =>
             number'[m][u] = number[m][u] /\ (HasNext(m, u) => HasNext(m, u)')
    BY <1>1, <1>2, <2>1, <2>2, <2>3, <2>4, NewNumberKeeps
  <2>6. NumbersAreTaken'
    BY <1>2, <2>5 DEF EcnInv, VersionsSound, NumbersAreTaken, ClonesNameRows
  <2>7. PlansSound' /\ ItemsSound' /\ job' \in [Clients -> EcnJobs]
    BY <1>2, <2>5, NoJobIsIdle, VersionRequestKeeps
  <2>8. Excepted \subseteq Excepted'
    BY <1>2, <2>1 DEF Excepted
  <2>9. ASSUME NEW m \in Objects \ Excepted', NEW u \in Versions,
               version'[m][u] = "ACTIVE"
        PROVE  version[m][u] = "ACTIVE"
    <3>1. CASE m = o
      <4>1. s = "DRAFT"
        BY <1>2, <2>1, <3>1 DEF Excepted
      <4>2. version'[m] = f
        BY <1>1, <2>1, <3>1 DEF EcnInv, EcnTypeOK
      <4> QED
        BY <2>2, <2>9, <3>1, <4>1, <4>2
    <3>2. CASE m # o
      BY <2>1, <2>9, <3>2 DEF EcnInv, EcnTypeOK
    <3> QED
      BY <3>1, <3>2
  <2>10. VersionIsHeld' /\ AtMostOneActive'
    <3>1. \A d \in Clients : job'[d] = job[d] \/ job'[d] = NoJob
      BY <1>2 DEF EcnInv
    <3> QED
      BY <1>2, <2>8, <2>9, <3>1, QuietHandKeeps
  <2>11. EcnTypeOK'
    BY <1>1, <1>2, <2>1, <2>5 DEF EcnInv, EcnTypeOK
  <2> QED
    BY <2>6, <2>7, <2>10, <2>11 DEF EcnInv, VersionsSound
<1> QED
  BY <1>3, <1>4

LEMMA EditStatusKeeps ==
  ASSUME EcnInv, NEW c \in Clients, EditStatus(c)
  PROVE  EcnInv'
<1> DEFINE o == job[c].of
           v == job[c].version
           f == Put(o, v, job[c].to)
<1>1. o \in Objects /\ v \in Versions /\ job[c].to \in Written
  BY KindsOfJobs DEF EditStatus, At, EcnInv, EditJobs
<1>2. /\ version' = [version EXCEPT ![o] = f]
      /\ handWritten' = handWritten \cup {o}
      /\ job' = [job EXCEPT ![c] = NoJob]
      /\ UNCHANGED <<number, clones, plan, item, assessment, wip, uses, sent, contended,
                     overlapped, renumbered>>
  BY DEF EditStatus, Reply, Continue
<1>3. /\ f \in [Versions -> VersionStatus]
      /\ \A u \in Versions : version[o][u] \in Written => f[u] \in Written
      /\ \A u \in Versions : version[o][u] # "none" => f[u] # "none"
  <2>1. version[o] \in [Versions -> VersionStatus] /\ f = Put(o, v, job[c].to)
    BY <1>1 DEF EcnInv, EcnTypeOK
  <2> HIDE DEF f, o, v
  <2> QED
    BY <1>1, <2>1, PutIs
<1> HIDE DEF f, o, v
<1>4. /\ NumbersAreTaken'
      /\ version' \in [Objects -> [Versions -> VersionStatus]]
      /\ \A n \in Objects, u \in Versions :
           version[n][u] # "none" => version'[n][u] # "none"
  BY <1>1, <1>2, <1>3, NumbersStayTaken
<1>5. PlansSound' /\ ItemsSound' /\ job' \in [Clients -> EcnJobs]
  BY <1>2, <1>4, NoJobIsIdle, VersionRequestKeeps
<1>6. Excepted \subseteq Excepted' /\ o \in Excepted'
  BY <1>2 DEF Excepted
<1>7. VersionIsHeld' /\ AtMostOneActive'
  <2>1. \A m \in Objects \ Excepted', u \in Versions :
          version'[m][u] = "ACTIVE" => version[m][u] = "ACTIVE"
    BY <1>2, <1>6 DEF EcnInv, EcnTypeOK
  <2>2. \A d \in Clients : job'[d] = job[d] \/ job'[d] = NoJob
    BY <1>2 DEF EcnInv
  <2> QED
    BY <1>2, <1>6, <2>1, <2>2, QuietHandKeeps
<1>8. EcnTypeOK'
  BY <1>1, <1>2, <1>4 DEF EcnInv, EcnTypeOK
<1> QED
  BY <1>4, <1>5, <1>7, <1>8 DEF EcnInv, VersionsSound

LEMMA EditNumberKeeps ==
  ASSUME EcnInv, NEW c \in Clients, EditNumber(c)
  PROVE  EcnInv'
<1> DEFINE o == job[c].of
           v == job[c].version
           k == job[c].number
<1>1. o \in Objects /\ v \in Versions /\ k \in 0..MaxVersion
  BY KindsOfJobs DEF EditNumber, At, EcnInv, EditJobs
<1>2. /\ job' = [job EXCEPT ![c] = NoJob]
      /\ UNCHANGED <<version, clones, plan, item, assessment, wip, uses, sent, contended,
                     overlapped, handWritten>>
  BY DEF EditNumber, Reply, Continue
<1>3. CASE ~NumberFree(o, k)
  <2>1. UNCHANGED <<number, renumbered>>
    BY <1>3 DEF EditNumber
  <2>2. EcnTypeOK'
    BY <1>2, <2>1 DEF EcnInv, EcnTypeOK
  <2> QED
    BY <1>2, <2>1, <2>2, EndKeeps DEF EcnInv
<1>4. CASE NumberFree(o, k)
  <2>1. /\ number' = [number EXCEPT ![o][v] = k]
        /\ renumbered' = renumbered \cup {o}
    BY <1>4 DEF EditNumber
  <2> DEFINE g == [number[o] EXCEPT ![v] = k]
  <2> HIDE DEF o, v, k
  <2>2. number' = [number EXCEPT ![o] = g] /\ g \in [Versions -> 0..MaxVersion]
    BY <1>1, <2>1 DEF EcnInv, EcnTypeOK
  <2> HIDE DEF g
  <2>3. /\ number' \in [Objects -> [Versions -> 0..MaxVersion]]
        /\ \A m \in Objects \ {o} : number'[m] = number[m]
    BY <1>1, <2>2 DEF EcnInv, EcnTypeOK
  <2>4. NumbersAreTaken'
    BY <1>2, <2>1, <2>3 DEF EcnInv, VersionsSound, NumbersAreTaken, ClonesNameRows,
       HasNext, Existing
  <2>5. PlansSound' /\ ItemsSound' /\ job' \in [Clients -> EcnJobs]
    BY <1>2, NoJobIsIdle, VersionRequestKeeps
  <2>6. VersionIsHeld' /\ AtMostOneActive'
    <3>1. Excepted \subseteq Excepted'
      BY <1>2 DEF Excepted
    <3>2. \A d \in Clients : job'[d] = job[d] \/ job'[d] = NoJob
      BY <1>2 DEF EcnInv
    <3> QED
      BY <1>2, <3>1, <3>2, QuietHandKeeps
  <2>7. EcnTypeOK'
    BY <1>1, <1>2, <2>1, <2>3 DEF EcnInv, EcnTypeOK
  <2> QED
    BY <2>4, <2>5, <2>6, <2>7 DEF EcnInv, VersionsSound
<1> QED
  BY <1>3, <1>4

LEMMA DeleteKeeps ==
  ASSUME EcnInv, NEW o \in Objects, NEW v \in Versions, Delete(o, v)
  PROVE  EcnInv'
<1> DEFINE f == [version[o] EXCEPT ![v] = "deleted"]
<1>1. /\ version' = [version EXCEPT ![o] = f]
      /\ renumbered' = renumbered \cup {o}
      /\ UNCHANGED <<job, number, clones, plan, item, assessment, wip, uses, sent,
                     contended, overlapped, handWritten>>
  BY DEF Delete, Once
<1>2. /\ f \in [Versions -> VersionStatus] /\ f[v] = "deleted"
      /\ \A u \in Versions \ {v} : f[u] = version[o][u]
  BY DEF EcnInv, EcnTypeOK, VersionStatus
<1> HIDE DEF f
<1>3. /\ version' \in [Objects -> [Versions -> VersionStatus]]
      /\ version'[o] = f /\ \A m \in Objects \ {o} : version'[m] = version[m]
  BY <1>1, <1>2 DEF EcnInv, EcnTypeOK
<1>4. \A m \in Objects, u \in Versions :
        /\ version[m][u] # "none" => version'[m][u] # "none"
        /\ version'[m][u] = "ACTIVE" => version[m][u] = "ACTIVE"
  BY <1>2, <1>3
<1>5. NumbersAreTaken'
  BY <1>1, <1>3, <1>4 DEF EcnInv, VersionsSound, NumbersAreTaken, ClonesNameRows,
     HasNext, Existing
<1>6. VersionIsHeld' /\ AtMostOneActive'
  <2>1. Excepted \subseteq Excepted'
    BY <1>1 DEF Excepted
  <2> QED
    BY <1>1, <1>4, <2>1, QuietHandKeeps
<1>7. PlansSound'
  BY SMTT(30), <1>1 DEF EcnInv, PlansSound, ServedIsIssued, NoItemsYet, SavesItems,
     ItemsOf, OnePerPlan, Serves, PlanIsHeld, BehindIsDone, CompletedIsDone, At
<1>8. TodoIsItems' /\ CloneIsBehind' /\ ItemsAreCloned'
  BY SMTT(30), <1>1 DEF EcnInv, ItemsSound, TodoIsItems, CloneIsBehind, ItemsAreCloned,
     ItemsOf, SourceOf, At
<1>9. ItemsNameRows'
  BY <1>1, <1>4 DEF EcnInv, EcnTypeOK, ItemsSound, ItemsNameRows, ItemsOf, Item
<1>10. EcnTypeOK' /\ job' \in [Clients -> EcnJobs]
  BY <1>1, <1>3 DEF EcnInv, EcnTypeOK
<1> QED
  BY <1>5, <1>6, <1>7, <1>8, <1>9, <1>10 DEF EcnInv, ItemsSound, VersionsSound

LEMMA VersionJobIs ==
  ASSUME NEW j \in VersionJobs
  PROVE  /\ j \in EcnJobs /\ j.op \notin PlanOps /\ ~Runs(j) /\ j.op # "execute"
         /\ j.object \in Objects /\ j.version \in Versions
<1>1. /\ j.op \in {"activate", "withdraw"}
      /\ j.object \in Objects /\ j.version \in Versions
  BY DEF VersionJobs, ActivateJobs, WithdrawJobs
<1> QED
  BY <1>1 DEF PlanOps, Runs, AtItem, EcnJobs

LEMMA ActivateKeeps ==
  ASSUME EcnInv, NEW c \in Clients, NEW o \in Objects, NEW v \in Versions,
         Activate(c, o, v)
  PROVE  EcnInv'
<1> DEFINE j == [op |-> "activate", object |-> o, version |-> v, stage |-> "others"]
<1>1. j \in VersionJobs /\ ~(j.op = "activate" /\ j.stage = "own")
  BY DEF VersionJobs, ActivateJobs
<1>2. Accept(c, j) /\ UNCHANGED ecnData
  BY DEF Activate
<1> HIDE DEF j
<1> QED
  BY <1>1, <1>2, VersionJobIs, HandReadKeeps

LEMMA WithdrawKeeps ==
  ASSUME EcnInv, NEW c \in Clients, NEW o \in Objects, NEW v \in Versions,
         NEW to \in {"INACTIVE", "OBSOLETE"}, Withdraw(c, o, v, to)
  PROVE  EcnInv'
<1> DEFINE j == [op |-> "withdraw", object |-> o, version |-> v, to |-> to,
                 stage |-> "write"]
<1>1. j \in VersionJobs /\ ~(j.op = "activate" /\ j.stage = "own")
  BY DEF VersionJobs, WithdrawJobs
<1>2. Accept(c, j) /\ UNCHANGED ecnData
  BY DEF Withdraw
<1> HIDE DEF j
<1> QED
  BY <1>1, <1>2, VersionJobIs, HandReadKeeps

\* A request writes versions of its object, and ends or goes on.
LEMMA VersionWriteKeeps ==
  ASSUME EcnInv, NEW c \in Clients, NEW o \in Objects,
         NEW f \in [Versions -> VersionStatus],
         NEW j \in EcnJobs, j.op \notin PlanOps,
         \A v \in Versions : version[o][v] # "none" => f[v] # "none",
         \A v \in Versions : version[o][v] \in Written => f[v] \in Written,
         o \notin Excepted =>
           \A u, v \in Versions : f[u] = "ACTIVE" /\ f[v] = "ACTIVE" => u = v,
         j.op = "activate" =>
           j.object = o /\ \A u \in Versions : f[u] = "ACTIVE" => u = j.version,
         version' = [version EXCEPT ![o] = f], Writes(c, o),
         job' = [job EXCEPT ![c] = j],
         UNCHANGED <<number, clones, plan, item, assessment, wip, uses, sent,
                     contended, byHand>>
  PROVE  EcnInv'
<1>1. /\ NumbersAreTaken' /\ version' \in [Objects -> [Versions -> VersionStatus]]
      /\ \A n \in Objects, v \in Versions :
           version[n][v] # "none" => version'[n][v] # "none"
  BY NumbersStayTaken
<1>2. PlansSound' /\ ItemsSound' /\ job' \in [Clients -> EcnJobs]
  BY <1>1, VersionRequestKeeps
<1>3. j.op # "execute"
  BY DEF PlanOps
<1>4. VersionsSound'
  BY <1>1, <1>3, VersionsWrittenHeld
<1>5. overlapped' \subseteq Objects
  BY WritesIsTyped
<1>6. EcnTypeOK'
  BY <1>1, <1>5 DEF EcnInv, EcnTypeOK
<1> QED
  BY <1>2, <1>4, <1>6 DEF EcnInv

LEMMA RetireOthersKeeps ==
  ASSUME EcnInv, NEW c \in Clients, RetireOthers(c)
  PROVE  EcnInv'
<1> DEFINE o == job[c].object
           f == [u \in Versions |->
                   IF u # job[c].version /\ version[o][u] = "ACTIVE"
                   THEN "OBSOLETE" ELSE version[o][u]]
           j == [job[c] EXCEPT !.stage = "own"]
<1>1. job[c] \in ActivateJobs
  BY KindsOfJobs DEF RetireOthers, At, EcnInv
<1>2. /\ j \in ActivateJobs /\ j.object = o /\ j.version = job[c].version
      /\ o \in Objects /\ version[o] \in [Versions -> VersionStatus]
  BY <1>1 DEF ActivateJobs, EcnInv, EcnTypeOK
<1>3. j \in EcnJobs /\ j.op \notin PlanOps
  BY <1>2, VersionJobIs DEF VersionJobs
<1>4. /\ f \in [Versions -> VersionStatus]
      /\ \A v \in Versions : version[o][v] # "none" => f[v] # "none"
      /\ \A v \in Versions : version[o][v] \in Written => f[v] \in Written
      /\ \A u \in Versions : f[u] = "ACTIVE" => u = job[c].version
  BY <1>2 DEF VersionStatus, Written
<1>5. /\ version' = [version EXCEPT ![o] = f] /\ Writes(c, o)
      /\ job' = [job EXCEPT ![c] = j]
      /\ UNCHANGED <<number, clones, plan, item, assessment, wip, uses, sent,
                     contended, byHand>>
  BY DEF RetireOthers, Continue
<1> HIDE DEF f, j, o
<1>6. \A u, v \in Versions : f[u] = "ACTIVE" /\ f[v] = "ACTIVE" => u = v
  BY <1>4
<1>7. j.object = o /\ \A u \in Versions : f[u] = "ACTIVE" => u = j.version
  BY <1>2, <1>4
<1> QED
  BY <1>2, <1>3, <1>4, <1>5, <1>6, <1>7, VersionWriteKeeps

LEMMA MakeActiveKeeps ==
  ASSUME EcnInv, NEW c \in Clients, MakeActive(c)
  PROVE  EcnInv'
<1> DEFINE o == job[c].object
           f == Put(o, job[c].version, "ACTIVE")
<1>1. job[c] \in ActivateJobs /\ At(c, "activate", "own")
  BY KindsOfJobs DEF MakeActive, At, EcnInv
<1>2. /\ o \in Objects /\ version[o] \in [Versions -> VersionStatus]
      /\ job[c].version \in Versions
  BY <1>1 DEF ActivateJobs, EcnInv, EcnTypeOK
<1>3. o \notin Excepted => ActiveVersions(o) \subseteq {job[c].version}
  BY <1>1 DEF EcnInv, VersionsSound, VersionIsHeld
<1>4. /\ f \in [Versions -> VersionStatus]
      /\ \A v \in Versions : version[o][v] # "none" => f[v] # "none"
      /\ \A v \in Versions : version[o][v] \in Written => f[v] \in Written
      /\ o \notin Excepted =>
           \A u, v \in Versions : f[u] = "ACTIVE" /\ f[v] = "ACTIVE" => u = v
  <2>1. f = Put(o, job[c].version, "ACTIVE") /\ "ACTIVE" \in Written
    BY DEF Written
  <2> HIDE DEF f, o
  <2> QED
    BY <1>2, <1>3, <2>1, PutIs DEF ActiveVersions
<1>5. /\ version' = [version EXCEPT ![o] = f] /\ Writes(c, o)
      /\ job' = [job EXCEPT ![c] = NoJob]
      /\ UNCHANGED <<number, clones, plan, item, assessment, wip, uses, sent,
                     contended, byHand>>
  BY DEF MakeActive, Reply, Continue
<1> HIDE DEF f, o
<1> QED
  BY <1>2, <1>4, <1>5, NoJobIsIdle, VersionWriteKeeps

LEMMA WithdrawWriteKeeps ==
  ASSUME EcnInv, NEW c \in Clients, WithdrawWrite(c)
  PROVE  EcnInv'
<1> DEFINE o == job[c].object
           f == Put(o, job[c].version, job[c].to)
<1>1. job[c] \in WithdrawJobs
  BY KindsOfJobs DEF WithdrawWrite, At, EcnInv
<1>2. /\ o \in Objects /\ version[o] \in [Versions -> VersionStatus]
      /\ job[c].version \in Versions /\ job[c].to \in {"INACTIVE", "OBSOLETE"}
  BY <1>1 DEF WithdrawJobs, EcnInv, EcnTypeOK
<1>3. /\ f \in [Versions -> VersionStatus]
      /\ \A v \in Versions : version[o][v] # "none" => f[v] # "none"
      /\ \A v \in Versions : version[o][v] \in Written => f[v] \in Written
      /\ \A v \in Versions : f[v] = "ACTIVE" => version[o][v] = "ACTIVE"
  <2>1. f = Put(o, job[c].version, job[c].to) /\ job[c].to \in Written \ {"ACTIVE"}
    BY <1>2 DEF Written
  <2>2. "ACTIVE" \in Written
    BY DEF Written
  <2> HIDE DEF f, o
  <2> QED
    BY <1>2, <2>1, <2>2, PutIs
<1>4. o \notin Excepted =>
        \A u, v \in Versions : f[u] = "ACTIVE" /\ f[v] = "ACTIVE" => u = v
  BY <1>2, <1>3 DEF EcnInv, VersionsSound, AtMostOneActive, ActiveVersions
<1>5. /\ version' = [version EXCEPT ![o] = f] /\ Writes(c, o)
      /\ job' = [job EXCEPT ![c] = NoJob]
      /\ UNCHANGED <<number, clones, plan, item, assessment, wip, uses, sent,
                     contended, byHand>>
  BY DEF WithdrawWrite, Reply, Continue
<1> HIDE DEF f, o
<1> QED
  BY <1>2, <1>3, <1>4, <1>5, NoJobIsIdle, VersionWriteKeeps

LEMMA EcnDieKeeps ==
  ASSUME EcnInv, NEW c \in Clients, EcnDie(c)
  PROVE  EcnInv'
<1>1. job' = [job EXCEPT ![c] = NoJob] /\ UNCHANGED ecnData
  BY DEF EcnDie, Reply, Continue
<1>2. EcnTypeOK'
  BY <1>1 DEF ecnData, EcnInv, EcnTypeOK
<1> QED
  BY <1>1, <1>2, EndKeeps DEF ecnData, EcnInv

\* A step without a request in flight that writes no plan, item or version.
LEMMA AsideKeeps ==
  ASSUME EcnInv, EcnTypeOK',
         UNCHANGED <<job, version, number, clones, plan, item, contended, overlapped,
                     byHand>>
  PROVE  EcnInv'
BY SMTT(30) DEF EcnInv, PlansSound, ServedIsIssued, NoItemsYet, SavesItems, ItemsOf,
       OnePerPlan, Serves, PlanIsHeld, BehindIsDone, CompletedIsDone, ItemsSound,
       TodoIsItems, CloneIsBehind, ItemsAreCloned, ItemsNameRows, SourceOf, At,
       VersionsSound, NumbersAreTaken, ClonesNameRows, HasNext, Existing, Excepted,
       VersionIsHeld, AtMostOneActive, ActiveVersions

-----------------------------------------------------------------------------
(* The invariant *)

LEMMA EcnInitHolds == ReqInit /\ EcnInit => EcnInv
<1> SUFFICES ASSUME ReqInit, EcnInit PROVE EcnInv
  OBVIOUS
<1>1. job \in [Clients -> EcnJobs] /\ \A c \in Clients : job[c] = NoJob
  BY NoJobIsIdle DEF ReqInit
<1>2. \A c \in Clients : job[c].op = "none" /\ ~Runs(job[c]) /\ ~AtItem(job[c])
  BY <1>1, NoJobIsIdle DEF Runs
<1>3. \A p \in Plans : ItemsOf(p) = {}
  BY DEF EcnInit, ItemsOf
<1>4. \A o \in Objects, v \in Versions :
        /\ version[o][v] = IF v = 1 THEN "ACTIVE" ELSE "none"
        /\ clones[o][v] = 0
  BY DEF EcnInit
<1>5. EcnTypeOK
  <2>1. \A w \in WorkOrders, k \in Kinds : uses[w][k] \in Ref
    <3> SUFFICES ASSUME NEW w \in WorkOrders, NEW k \in Kinds PROVE uses[w][k] \in Ref
      OBVIOUS
    <3>1. ReleasedWith[w][k] \in Objects \cup {NoObject} /\ 1 \in Versions
      BY ReleasedWithAssumption, VersionAssumption DEF Kinds, Versions
    <3> QED
      BY <3>1 DEF EcnInit, Ref, NoRef
  <2>2. uses \in [WorkOrders -> [Kinds -> Ref]]
    <3> DEFINE u(w, k) == IF ReleasedWith[w][k] = NoObject THEN NoRef
                          ELSE [object |-> ReleasedWith[w][k], version |-> 1]
    <3>1. uses = [w \in WorkOrders |-> [k \in Kinds |-> u(w, k)]]
      BY DEF EcnInit
    <3>2. \A w \in WorkOrders, k \in Kinds : u(w, k) \in Ref
      BY <2>1 DEF EcnInit
    <3> HIDE DEF u
    <3> QED
      BY <3>1, <3>2
  <2>3. /\ version \in [Objects -> [Versions -> VersionStatus]]
        /\ number \in [Objects -> [Versions -> 0..MaxVersion]]
        /\ clones \in [Objects -> [Versions -> Nat]]
        /\ plan \in [Plans -> PlanStatus]
        /\ item \in [Plans -> [Objects -> Item \cup {NoItem}]]
        /\ assessment \in [Plans -> {"none", "PENDING", "CONFIRMED"}]
    BY VersionAssumption DEF EcnInit, Versions, VersionStatus, Written, PlanStatus
  <2>4. /\ DOMAIN wip = Plans
        /\ \A p \in Plans : \A w \in DOMAIN wip[p] :
             w \in WorkOrders /\ wip[p][w] \in Suggestion
    BY DEF EcnInit
  <2> QED
    BY <2>2, <2>3, <2>4 DEF EcnInit, EcnTypeOK
<1>6. PlansSound
  BY <1>2, <1>3 DEF EcnInit, PlansSound, ServedIsIssued, Serves, PlanOps, NoItemsYet,
     SavesItems, At, OnePerPlan, PlanIsHeld, BehindIsDone, CompletedIsDone
<1>7. ItemsSound
  BY <1>2, <1>3 DEF ItemsSound, TodoIsItems, CloneIsBehind, At, ItemsAreCloned,
     ItemsNameRows
<1>8. VersionsSound
  <2>1. 1 \in Versions
    BY VersionAssumption DEF Versions
  <2> QED
    BY <1>2, <1>4, <2>1 DEF VersionsSound, NumbersAreTaken, ClonesNameRows, VersionIsHeld,
       At, AtMostOneActive, ActiveVersions
<1> QED
  BY <1>1, <1>5, <1>6, <1>7, <1>8 DEF EcnInv

LEMMA EcnNextKeepsInv == EcnInv /\ [EcnNext]_ecnVars => EcnInv'
<1> SUFFICES ASSUME EcnInv, [EcnNext]_ecnVars PROVE EcnInv'
  OBVIOUS
<1>1. ASSUME NEW p \in Plans, NEW w \in WorkOrders, NEW s \in Suggestion,
             Override(p, w, s)
      PROVE  EcnInv'
  <2>1. EcnTypeOK'
    BY <1>1 DEF Override, Once, EcnInv, EcnTypeOK
  <2> QED
    BY <1>1, <2>1, AsideKeeps DEF Override, Once
<1>2. ASSUME NEW p \in Plans, ConfirmAssessment(p) PROVE EcnInv'
  <2>1. EcnTypeOK'
    BY <1>2 DEF ConfirmAssessment, Once, EcnInv, EcnTypeOK
  <2> QED
    BY <1>2, <2>1, AsideKeeps DEF ConfirmAssessment, Once
<1>3. ASSUME NEW p \in Plans, Switch(p) PROVE EcnInv'
  <2>1. EcnTypeOK'
    BY <1>3 DEF Switch, reqVars, EcnInv, EcnTypeOK
  <2> QED
    BY <1>3, <2>1, AsideKeeps DEF Switch, reqVars
<1>4. CASE UNCHANGED ecnVars
  <2>1. EcnTypeOK'
    BY <1>4 DEF ecnVars, ecnData, EcnInv, EcnTypeOK
  <2> QED
    BY <1>4, <2>1, AsideKeeps DEF ecnVars, ecnData, reqVars
<1>5. ASSUME NEW c \in Clients, NEW p \in Plans,
             \/ \E S \in SUBSET Objects : IssueNotice(c, p, S)
             \/ Trigger(c, p) \/ Retry(c, p) \/ CancelPlan(c, p)
      PROVE  EcnInv'
  BY <1>5, IssueNoticeKeeps, TriggerKeeps, RetryKeeps, CancelPlanKeeps
<1>6. ASSUME NEW c \in Clients,
             \/ SaveItems(c) \/ Assess(c) \/ SuggestOrders(c)
             \/ Check(c) \/ Begin(c) \/ \E o \in Objects : StartItem(c, o)
             \/ ReadSource(c) \/ CompleteItem(c) \/ ItemFails(c) \/ FailItem(c)
             \/ \E n \in Versions : Clone(c, n) \/ CreateWrite(c, n)
             \/ Finish(c) \/ Announce(c)
             \/ ResetItems(c) \/ ResetPlan(c) \/ CancelPlanWrite(c)
      PROVE  EcnInv'
  BY <1>6, SaveItemsKeeps, AssessKeeps, SuggestOrdersKeeps, CheckKeeps, BeginKeeps,
     StartItemKeeps, ReadSourceKeeps, CloneKeeps, CreateWriteKeeps, CompleteItemKeeps,
     ItemFailsKeeps, FailItemKeeps, FinishKeeps,
     AnnounceKeeps, ResetItemsKeeps, ResetPlanKeeps, CancelPlanWriteKeeps
<1>7. ASSUME NEW c \in Clients, NEW o \in Objects, NEW v \in Versions,
             \/ Activate(c, o, v)
             \/ \E to \in {"INACTIVE", "OBSOLETE"} : Withdraw(c, o, v, to)
             \/ \E s \in Bodies : Edit(c, o, v, s, 0)
             \/ \E k \in Versions : Edit(c, o, v, "none", k)
      PROVE  EcnInv'
  <2>1. 0 \in 0..MaxVersion /\ Versions \subseteq 0..MaxVersion
    BY VersionAssumption DEF Versions
  <2>2. Bodies \subseteq Written \cup {"none"}
    BY BodiesAssumption DEF Written
  <2> QED
    BY <1>7, <2>1, <2>2, ActivateKeeps, WithdrawKeeps, EditKeeps
<1>8. ASSUME NEW c \in Clients,
             \/ EditStatus(c) \/ EditNumber(c)
             \/ RetireOthers(c) \/ MakeActive(c) \/ WithdrawWrite(c) \/ EcnDie(c)
      PROVE  EcnInv'
  BY <1>8, EditStatusKeeps, EditNumberKeeps, RetireOthersKeeps, MakeActiveKeeps,
     WithdrawWriteKeeps, EcnDieKeeps
<1>9. ASSUME NEW o \in Objects, NEW v \in Versions, Delete(o, v) PROVE EcnInv'
  BY <1>9, DeleteKeeps
<1>10. ASSUME NEW c \in Clients, NEW o \in Objects,
              NEW s \in Bodies \cup {"DRAFT"}, Create(c, o, s)
       PROVE  EcnInv'
  BY <1>10, CreateKeeps, BodiesAssumption DEF Written
<1> QED
  BY <1>1, <1>2, <1>3, <1>4, <1>5, <1>6, <1>7, <1>8, <1>9, <1>10 DEF EcnNext

LEMMA EcnInvHolds == EcnSpec => []EcnInv
BY EcnInitHolds, EcnNextKeepsInv, PTL DEF EcnSpec

(***************************************************************************)
(* Plans, items, assessments and versions keep their types.                *)
(***************************************************************************)
THEOREM EcnIsTyped == EcnSpec => []EcnTypeOK
<1>1. EcnInv => EcnTypeOK
  BY DEF EcnInv
<1> QED
  BY EcnInvHolds, <1>1, PTL

(***************************************************************************)
(* No version is cloned twice while the numbers of its object are left     *)
(* alone, an item is COMPLETED only with its clone made, and a plan only   *)
(* with all of its items, however often its execution fails, dies, and is  *)
(* tried again.                                                            *)
(***************************************************************************)
THEOREM CompletedIsApplied == EcnSpec => []CompletedMeansApplied
<1>1. EcnInv => CompletedMeansApplied
  BY DEF EcnInv, VersionsSound, NumbersAreTaken, ItemsSound, ItemsAreCloned,
     PlansSound, CompletedIsDone, DoneIn, ItemsOf, CompletedMeansApplied
<1> QED
  BY EcnInvHolds, <1>1, PTL

(***************************************************************************)
(* An object has one active version at most, whatever executions, drafts,  *)
(* activations, withdrawals, deletions and new numbers follow each other,  *)
(* as long as none of them writes what another one has read, and none      *)
(* takes a status from the body of a request.                              *)
(***************************************************************************)
THEOREM ActiveVersionIsOne == EcnSpec => []OneActiveVersion
<1>1. EcnInv => OneActiveVersion
  <2> SUFFICES ASSUME EcnInv, NEW o \in Objects \ Excepted
               PROVE  Cardinality(ActiveVersions(o)) <= 1
    BY DEF OneActiveVersion, Excepted
  <2>1. \A u, v \in ActiveVersions(o) : u = v
    BY DEF EcnInv, VersionsSound, AtMostOneActive
  <2>2. CASE ActiveVersions(o) = {}
    BY <2>2, FS_EmptySet
  <2>3. CASE ActiveVersions(o) # {}
    <3>1. PICK v \in ActiveVersions(o) : TRUE
      BY <2>3
    <3> DEFINE A == ActiveVersions(o)
    <3>2. v \in A /\ \A u \in A : u = v
      BY <2>1, <3>1
    <3> HIDE DEF A
    <3>3. A = {v}
      BY <3>2
    <3>4. Cardinality(A) = 1
      BY <3>3, FS_Singleton
    <3> QED
      BY <3>4 DEF A
  <2> QED
    BY <2>2, <2>3
<1> QED
  BY EcnInvHolds, <1>1, PTL

\* A request that still writes its plan, or its items, found it not ended.
LEMMA EndedIsNotHeld ==
  ASSUME EcnInv, NEW c \in Clients, job[c].op \in PlanOps,
         \/ At(c, "issue", "items")
         \/ At(c, "execute", "begin") \/ Runs(job[c])
         \/ job[c].op \in {"retry", "cancelPlan"}
  PROVE  /\ job[c].plan \in Plans
         /\ job[c].plan \notin contended
              => plan[job[c].plan] \notin {"COMPLETED", "CANCELLED"}
<1>1. HeldStatus(job[c]) \subseteq {"PENDING", "IN_PROGRESS", "FAILED"}
  BY DEF HeldStatus, At
<1> QED
  BY <1>1, AtServes

\* A request that writes only its own plan leaves ended plans alone.
LEMMA WriterLeavesEnded ==
  ASSUME EcnInv, NEW c \in Clients, job[c].op \in PlanOps,
         \/ At(c, "issue", "items")
         \/ At(c, "execute", "begin") \/ Runs(job[c])
         \/ job[c].op \in {"retry", "cancelPlan"},
         contended' = contended,
         \A q \in Plans \ {job[c].plan} : plan'[q] = plan[q] /\ item'[q] = item[q],
         NEW p \in Plans, plan[p] \in {"COMPLETED", "CANCELLED"}, p \notin contended'
  PROVE  plan'[p] = plan[p] /\ item'[p] = item[p]
BY EndedIsNotHeld

(***************************************************************************)
(* A plan that is COMPLETED or CANCELLED never changes again, nor do its   *)
(* items: the requests that write them hold the plan in another status.    *)
(***************************************************************************)
THEOREM EndedPlansAreAtRest == EcnSpec => EndedPlansRest
<1> DEFINE Rests == \A p \in Plans :
             plan[p] \in {"COMPLETED", "CANCELLED"} /\ p \notin contended'
               => plan'[p] = plan[p] /\ item'[p] = item[p]
<1>1. ASSUME EcnInv, [EcnNext]_ecnVars PROVE Rests
  <2> USE EcnInv
  <2> DEFINE Moves(p) == /\ contended' = contended
                         /\ \A q \in Plans \ {p} : plan'[q] = plan[q] /\ item'[q] = item[q]
  <2>1. ASSUME UNCHANGED <<plan, item>> PROVE Rests
    BY <2>1
  <2>2. ASSUME NEW c \in Clients, NEW p \in Plans, NEW S \in SUBSET Objects,
               IssueNotice(c, p, S)
        PROVE  Rests
    BY <2>2 DEF IssueNotice, On, EcnTypeOK, EcnInv
  <2>3. ASSUME NEW c \in Clients, job[c].op \in PlanOps, Moves(job[c].plan),
               \/ At(c, "issue", "items")
               \/ At(c, "execute", "begin") \/ Runs(job[c])
               \/ job[c].op \in {"retry", "cancelPlan"}
        PROVE  Rests
    BY <2>3, WriterLeavesEnded
  <2>4. ASSUME NEW c \in Clients, SaveItems(c) PROVE Rests
    <3>1. At(c, "issue", "items") /\ job[c].op \in PlanOps
      BY <2>4 DEF SaveItems, At, PlanOps
    <3>2. Moves(job[c].plan)
      BY <2>4 DEF SaveItems, EcnTypeOK, EcnInv
    <3> QED
      BY <2>3, <3>1, <3>2
  <2>5. ASSUME NEW c \in Clients, Begin(c) PROVE Rests
    <3>1. At(c, "execute", "begin") /\ job[c].op \in PlanOps
      BY <2>5 DEF Begin, At, PlanOps
    <3>2. Moves(job[c].plan)
      BY <2>5 DEF Begin, EcnTypeOK, EcnInv
    <3> QED
      BY <2>3, <3>1, <3>2
  <2>6. ASSUME NEW c \in Clients,
               \/ \E o \in Objects : StartItem(c, o)
               \/ CompleteItem(c) \/ FailItem(c) \/ Finish(c)
        PROVE  Rests
    <3>1. Runs(job[c]) /\ job[c].op \in PlanOps
      BY <2>6 DEF StartItem, CompleteItem, FailItem, Finish, At, PlanOps, Runs, AtItem,
                  ItemStages
    <3>2. Moves(job[c].plan)
      BY <2>6 DEF StartItem, CompleteItem, FailItem, Finish, EcnTypeOK, EcnInv
    <3> QED
      BY <2>3, <3>1, <3>2
  <2>7. ASSUME NEW c \in Clients, ResetItems(c) \/ ResetPlan(c) \/ CancelPlanWrite(c)
        PROVE  Rests
    <3>1. job[c].op \in {"retry", "cancelPlan"} /\ job[c].op \in PlanOps
      BY <2>7 DEF ResetItems, ResetPlan, CancelPlanWrite, At, PlanOps
    <3>2. Moves(job[c].plan)
      BY <2>7 DEF ResetItems, ResetPlan, CancelPlanWrite, EcnTypeOK, EcnInv
    <3> QED
      BY <2>3, <3>1, <3>2
  <2> HIDE DEF Rests
  <2>8. ASSUME NEW p \in Plans,
               \/ \E w \in WorkOrders, s \in Suggestion : Override(p, w, s)
               \/ ConfirmAssessment(p) \/ Switch(p)
        PROVE  Rests
    BY <2>1, <2>8 DEF Override, ConfirmAssessment, Switch
  <2>9. ASSUME NEW o \in Objects, NEW v \in Versions, Delete(o, v) PROVE Rests
    BY <2>1, <2>9 DEF Delete
  <2>10. ASSUME NEW c \in Clients, NEW p \in Plans,
                Trigger(c, p) \/ Retry(c, p) \/ CancelPlan(c, p)
         PROVE  Rests
    BY <2>1, <2>10 DEF Trigger, Retry, CancelPlan
  <2>11. ASSUME NEW c \in Clients,
                \/ Assess(c) \/ SuggestOrders(c) \/ Check(c) \/ Announce(c)
                \/ ReadSource(c) \/ ItemFails(c)
                \/ \E n \in Versions : Clone(c, n) \/ CreateWrite(c, n)
                \/ \E o \in Objects, s \in Bodies \cup {"DRAFT"} : Create(c, o, s)
                \/ EditStatus(c) \/ EditNumber(c)
                \/ RetireOthers(c) \/ MakeActive(c) \/ WithdrawWrite(c) \/ EcnDie(c)
         PROVE  Rests
    BY <2>1, <2>11 DEF Assess, SuggestOrders, Check, Clone, Announce, ReadSource,
                       ItemFails, Create, CreateWrite, EditStatus, EditNumber,
                       RetireOthers, MakeActive, WithdrawWrite, EcnDie, ecnData
  <2>12. ASSUME NEW c \in Clients, NEW o \in Objects, NEW v \in Versions,
                \/ Activate(c, o, v)
                \/ \E to \in {"INACTIVE", "OBSOLETE"} : Withdraw(c, o, v, to)
                \/ \E s \in Bodies : Edit(c, o, v, s, 0)
                \/ \E k \in Versions : Edit(c, o, v, "none", k)
         PROVE  Rests
    BY <2>1, <2>12 DEF Activate, Withdraw, Edit, ecnData
  <2>13. ASSUME UNCHANGED ecnVars PROVE Rests
    BY <2>1, <2>13 DEF ecnVars, ecnData
  <2> QED
    BY <1>1, <2>2, <2>4, <2>5, <2>6, <2>7, <2>8, <2>9, <2>10, <2>11, <2>12, <2>13
       DEF EcnNext
<1>2. EcnInv /\ [EcnNext]_ecnVars => [Rests]_ecnVars
  BY <1>1
<1> QED
  BY EcnInvHolds, <1>2, PTL DEF EcnSpec, EndedPlansRest

-----------------------------------------------------------------------------
(***************************************************************************)
(* Quantities of operations are what was reported of them, and no work     *)
(* order stalls between two of its operations.                             *)
(*                                                                         *)
(* ProgressIsKept says what is true of the rows; the invariant adds what a *)
(* request has read of them: the next operations of a completion are later *)
(* ones, and there are none only where none is pending (NextIsLater); the  *)
(* total it is about to write is fresh unless another request has written  *)
(* (TotalIsFresh); and work in progress is only moved to operations that   *)
(* have been started (WipIsStarted). That a scan finds a next operation    *)
(* needs the least sequence number of those pending, which exists because  *)
(* sequence numbers are natural (SomeAreNext).                             *)
(***************************************************************************)

OpNoJob == {NoJob}
StartOpJobs == [op : {"startOp"}, on : Ops, stage : {"status", "look", "wip"}]
BeginOpJobs == [op : {"completeOp"}, on : Ops, qty : Nat, total : Nat,
                stage : {"begin"}]
CommitOpJobs == [op : {"completeOp"}, on : Ops, qty : Nat, total : Nat,
                 stage : {"commit"}, next : SUBSET Ops]
ReportOpJobs == [op : {"reportOp"}, on : Ops, qty : Nat, total : Nat,
                 stage : {"write"}]
MoveWipJobs == [op : {"moveWip"}, on : Ops, stage : {"write"}]
OpJobs == OpNoJob \cup StartOpJobs \cup BeginOpJobs \cup CommitOpJobs
          \cup ReportOpJobs \cup MoveWipJobs

\* A request that has read the quantity of its operation, and knows the new one.
Counts(j) == j.op \in {"completeOp", "reportOp"}
HasStarted(j) == (j.op = "startOp" /\ j.stage \in {"look", "wip"}) \/ j.op = "moveWip"

\* A completion knows the operations that come next: none, or some of the later.
NextIsLater ==
  \A c \in Clients : Completing(c) =>
    /\ job[c].next \subseteq Later(job[c].on)
    /\ job[c].next = {} => Later(job[c].on) \cap PendingOps = {}

\* What was read is what there is, until another request writes it.
TotalIsFresh ==
  \A c \in Clients : Counts(job[c]) /\ job[c].on \notin lateOps =>
    job[c].total = op[job[c].on].qty + job[c].qty

WipIsStarted ==
  \A c \in Clients : HasStarted(job[c]) => job[c].on \notin PendingOps

ScannedGoOn == \A o \in scanned : Later(o) # {} => Later(o) \ PendingOps # {}
WipAtStarted == ~transferred => \A i \in DOMAIN wipAt : wipAt[i] \notin PendingOps
QtyIsReported == \A o \in Ops \ lateOps : op[o].qty = reported[o]

OpsInv ==
  /\ OpsTypeOK
  /\ job \in [Clients -> OpJobs]
  /\ NextIsLater /\ TotalIsFresh /\ WipIsStarted
  /\ ScannedGoOn /\ WipAtStarted /\ QtyIsReported

-----------------------------------------------------------------------------
\* Where there are pending operations later on, there are next ones.
LEMMA SomeAreNext ==
  ASSUME NEW o \in Ops, PendingOps \cap Later(o) # {}
  PROVE  NextOps(o) # {}
<1> DEFINE S == PendingOps \cap Later(o)
           T == {SequenceOf[u] : u \in S}
<1>1. S \subseteq Ops /\ T \subseteq Nat /\ T # {}
  BY SequenceAssumption DEF PendingOps
<1>2. PICK n \in T : \A m \in T : <<m, n>> \notin OpToRel(<, Nat)
  BY <1>1, NatLessThanWellFounded, WFMin
<1>3. PICK u \in S : SequenceOf[u] = n
  OBVIOUS
<1>4. \A v \in S : SequenceOf[u] <= SequenceOf[v]
  <2> SUFFICES ASSUME NEW v \in S, ~(SequenceOf[u] <= SequenceOf[v]) PROVE FALSE
    OBVIOUS
  <2>1. SequenceOf[v] \in Nat /\ n \in Nat /\ SequenceOf[v] < n /\ SequenceOf[v] \in T
    BY <1>1, <1>3, SequenceAssumption
  <2>2. <<SequenceOf[v], n>> \in OpToRel(<, Nat)
    BY <2>1 DEF OpToRel
  <2> QED
    BY <1>2, <2>1, <2>2
<1> QED
  BY <1>3, <1>4 DEF NextOps

LEMMA OpJobStays ==
  ASSUME NEW c \in Clients, NEW j \in OpJobs,
         job \in [Clients -> OpJobs], job' = [job EXCEPT ![c] = j]
  PROVE  /\ job' \in [Clients -> OpJobs]
         /\ job'[c] = j
         /\ \A d \in Clients \ {c} : job'[d] = job[d]
OBVIOUS

\* What a request is by the operation and stage it is at.
LEMMA OpJobIs ==
  ASSUME NEW j \in OpJobs
  PROVE  /\ j.op = "startOp" => j \in StartOpJobs
         /\ j.op = "completeOp" /\ j.stage = "begin" => j \in BeginOpJobs
         /\ j.op = "completeOp" /\ j.stage = "commit" => j \in CommitOpJobs
         /\ j.op = "reportOp" => j \in ReportOpJobs
         /\ j.op = "moveWip" => j \in MoveWipJobs
         /\ j.op # "none" => j.on \in Ops
         /\ Counts(j) => j.qty \in Nat /\ j.total \in Nat
<1> USE DEF OpJobs, OpNoJob, NoJob, StartOpJobs, BeginOpJobs, CommitOpJobs,
            ReportOpJobs, MoveWipJobs, Counts
<1>1. CASE j \in OpNoJob
  BY <1>1
<1>2. CASE j \in StartOpJobs
  BY <1>2
<1>3. CASE j \in BeginOpJobs
  BY <1>3
<1>4. CASE j \in CommitOpJobs
  BY <1>4
<1>5. CASE j \in ReportOpJobs
  BY <1>5
<1>6. CASE j \in MoveWipJobs
  BY <1>6
<1> QED
  BY <1>1, <1>2, <1>3, <1>4, <1>5, <1>6

\* A request that goes on leaves the invariant to the operations: they keep
\* what the invariant says of them when it holds for the new state of the
\* request, and no operation is pending again.
LEMMA OthersGoOn ==
  ASSUME OpsInv, NEW c \in Clients, NEW j \in OpJobs,
         job' = [job EXCEPT ![c] = j],
         op' = op, lateOps' = lateOps,
         j.op = "completeOp" /\ j.stage = "commit" =>
           /\ j.next \subseteq Later(j.on)
           /\ j.next = {} => Later(j.on) \cap PendingOps = {},
         Counts(j) /\ j.on \notin lateOps => j.total = op[j.on].qty + j.qty,
         HasStarted(j) => j.on \notin PendingOps
  PROVE  /\ job' \in [Clients -> OpJobs]
         /\ NextIsLater' /\ TotalIsFresh' /\ WipIsStarted'
<1>1. /\ job' \in [Clients -> OpJobs]
      /\ job'[c] = j
      /\ \A d \in Clients \ {c} : job'[d] = job[d]
  BY OpJobStays DEF OpsInv
<1>2. NextIsLater'
  BY <1>1 DEF OpsInv, NextIsLater, Completing, At, PendingOps, Later
<1>3. TotalIsFresh'
  BY <1>1 DEF OpsInv, TotalIsFresh
<1>4. WipIsStarted'
  BY <1>1 DEF OpsInv, WipIsStarted, PendingOps
<1> QED
  BY <1>1, <1>2, <1>3, <1>4

\* The same when operations are written: none is pending again, and requests
\* that had read a quantity that changes are late.
LEMMA OthersGoOnLate ==
  ASSUME OpsInv, NEW c \in Clients, NEW j \in OpJobs,
         job' = [job EXCEPT ![c] = j],
         PendingOps' \subseteq PendingOps, lateOps \subseteq lateOps',
         \A u \in Ops : op'[u].qty # op[u].qty =>
           \A d \in Clients \ {c} : Counts(job[d]) /\ job[d].on = u => u \in lateOps',
         ~Counts(j),
         HasStarted(j) => j.on \notin PendingOps'
  PROVE  /\ job' \in [Clients -> OpJobs]
         /\ NextIsLater' /\ TotalIsFresh' /\ WipIsStarted'
<1>1. /\ job' \in [Clients -> OpJobs]
      /\ job'[c] = j
      /\ \A d \in Clients \ {c} : job'[d] = job[d]
  BY OpJobStays DEF OpsInv
<1>2. NextIsLater'
  <2> SUFFICES ASSUME NEW d \in Clients, Completing(d)'
               PROVE  /\ job'[d].next \subseteq Later(job'[d].on)
                      /\ job'[d].next = {} => Later(job'[d].on) \cap PendingOps' = {}
    BY DEF NextIsLater, Later
  <2>1. d # c /\ Completing(d) /\ job'[d] = job[d]
    BY <1>1 DEF Completing, At, Counts
  <2> QED
    BY <2>1 DEF OpsInv, NextIsLater
<1>3. TotalIsFresh'
  <2> SUFFICES ASSUME NEW d \in Clients, Counts(job'[d]), job'[d].on \notin lateOps'
               PROVE  job'[d].total = op'[job'[d].on].qty + job'[d].qty
    BY DEF TotalIsFresh, Counts
  <2>1. d # c /\ job'[d] = job[d] /\ Counts(job[d])
    BY <1>1
  <2>2. job[d].on \in Ops
    BY <2>1, OpJobIs DEF OpsInv, Counts
  <2>3. op'[job[d].on].qty = op[job[d].on].qty
    BY <2>1, <2>2
  <2> QED
    BY <2>1, <2>3 DEF OpsInv, TotalIsFresh
<1>4. WipIsStarted'
  <2> SUFFICES ASSUME NEW d \in Clients, HasStarted(job'[d])
               PROVE  job'[d].on \notin PendingOps'
    BY DEF WipIsStarted, HasStarted
  <2> QED
    BY <1>1 DEF OpsInv, WipIsStarted
<1> QED
  BY <1>1, <1>2, <1>3, <1>4

\* Operations that do not move keep what was said of them.
LEMMA DataStays ==
  ASSUME OpsInv, UNCHANGED opData
  PROVE  OpsTypeOK' /\ ScannedGoOn' /\ WipAtStarted' /\ QtyIsReported'
<1>1. /\ op' = op /\ wipAt' = wipAt /\ reported' = reported
      /\ scanned' = scanned /\ lateOps' = lateOps /\ transferred' = transferred
  BY DEF opData
<1>2. OpsTypeOK'
  <2>1. transferred' \in BOOLEAN
    BY Zenon, <1>1 DEF OpsInv, OpsTypeOK
  <2> QED
    BY <1>1, <2>1 DEF OpsInv, OpsTypeOK
<1>3. ScannedGoOn' /\ QtyIsReported'
  BY <1>1 DEF OpsInv, ScannedGoOn, QtyIsReported, PendingOps, Later
<1>4. WipAtStarted'
  BY <1>1 DEF OpsInv, WipAtStarted, PendingOps
<1> QED
  BY <1>2, <1>3, <1>4

LEMMA OpsInitInv == ReqInit /\ OpsInit => OpsInv
<1> SUFFICES ASSUME ReqInit, OpsInit PROVE OpsInv
  OBVIOUS
<1> USE DEF ReqInit, OpsInit
<1>1. OpsTypeOK
  <2>1. FALSE \in BOOLEAN
    OBVIOUS
  <2>2. transferred \in BOOLEAN
    BY Zenon, <2>1
  <2> QED
    BY <2>2 DEF OpsTypeOK, OpStatus
<1>2. job \in [Clients -> OpJobs]
  BY DEF OpJobs, OpNoJob
<1>3. NextIsLater /\ TotalIsFresh /\ WipIsStarted
  BY DEF NextIsLater, TotalIsFresh, WipIsStarted, Completing, At, Counts,
         HasStarted, NoJob
<1>4. ScannedGoOn /\ WipAtStarted /\ QtyIsReported
  BY DEF ScannedGoOn, WipAtStarted, QtyIsReported
<1> QED
  BY <1>1, <1>2, <1>3, <1>4 DEF OpsInv

-----------------------------------------------------------------------------
(* The steps *)

LEMMA StartOpKeeps ==
  ASSUME OpsInv, NEW c \in Clients, NEW o \in Ops, StartOp(c, o) PROVE OpsInv'
<1> DEFINE j == [op |-> "startOp", on |-> o, stage |-> "status"]
<1>1. j \in OpJobs /\ job' = [job EXCEPT ![c] = j] /\ UNCHANGED opData
  BY DEF StartOp, Accept, OpJobs, StartOpJobs
<1>2. op' = op /\ lateOps' = lateOps
  BY <1>1 DEF opData
<1>3. j.op = "startOp" /\ j.stage = "status" /\ j.on = o
  OBVIOUS
<1> HIDE DEF j
<1> QED
  BY <1>1, <1>2, <1>3, OthersGoOn, DataStays DEF OpsInv, Counts, HasStarted

LEMMA CompleteOpKeeps ==
  ASSUME OpsInv, NEW c \in Clients, NEW o \in Ops, CompleteOp(c, o, 1) PROVE OpsInv'
<1> DEFINE j == [op |-> "completeOp", on |-> o, qty |-> 1,
                 total |-> op[o].qty + 1, stage |-> "begin"]
<1>0. op[o].qty + 1 \in Nat
  BY DEF OpsInv, OpsTypeOK
<1>1. j \in OpJobs /\ job' = [job EXCEPT ![c] = j] /\ UNCHANGED opData
  BY <1>0 DEF CompleteOp, Accept, OpJobs, BeginOpJobs
<1>2. op' = op /\ lateOps' = lateOps
  BY <1>1 DEF opData
<1>3. j.op = "completeOp" /\ j.stage = "begin" /\ j.on = o /\ j.qty = 1
      /\ j.total = op[o].qty + 1
  OBVIOUS
<1> HIDE DEF j
<1> QED
  BY <1>1, <1>2, <1>3, OthersGoOn, DataStays DEF OpsInv, Counts, HasStarted

LEMMA ReportOpReadKeeps ==
  ASSUME OpsInv, NEW c \in Clients, NEW o \in Ops, ReportOpRead(c, o, 1) PROVE OpsInv'
<1> DEFINE j == [op |-> "reportOp", on |-> o, qty |-> 1,
                 total |-> op[o].qty + 1, stage |-> "write"]
<1>0. op[o].qty + 1 \in Nat
  BY DEF OpsInv, OpsTypeOK
<1>1. j \in OpJobs /\ job' = [job EXCEPT ![c] = j] /\ UNCHANGED opData
  BY <1>0 DEF ReportOpRead, Accept, OpJobs, ReportOpJobs
<1>2. op' = op /\ lateOps' = lateOps
  BY <1>1 DEF opData
<1>3. j.op = "reportOp" /\ j.on = o /\ j.qty = 1 /\ j.total = op[o].qty + 1
  OBVIOUS
<1> HIDE DEF j
<1> QED
  BY <1>1, <1>2, <1>3, OthersGoOn, DataStays DEF OpsInv, Counts, HasStarted

\* A request that ends, or dies.
LEMMA RepliedKeeps ==
  ASSUME OpsInv, NEW c \in Clients, Reply(c), op' = op, lateOps' = lateOps
  PROVE  /\ job' \in [Clients -> OpJobs]
         /\ NextIsLater' /\ TotalIsFresh' /\ WipIsStarted'
<1>1. NoJob \in OpJobs /\ job' = [job EXCEPT ![c] = NoJob] /\ NoJob.op = "none"
  BY DEF Reply, Continue, OpJobs, OpNoJob, NoJob
<1> QED
  BY <1>1, OthersGoOn DEF Counts, HasStarted

LEMMA OpDieKeeps ==
  ASSUME OpsInv, NEW c \in Clients, OpDie(c) PROVE OpsInv'
BY RepliedKeeps, DataStays DEF OpDie, opData, OpsInv

LEMMA StartOpLookKeeps ==
  ASSUME OpsInv, NEW c \in Clients, StartOpLook(c) PROVE OpsInv'
<1> DEFINE j == [job[c] EXCEPT !.stage = "wip"]
<1>1. job[c] \in StartOpJobs /\ job[c].stage = "look"
  BY OpJobIs DEF StartOpLook, At, OpsInv
<1>2. j \in OpJobs /\ j.op = "startOp" /\ j.on = job[c].on
  BY <1>1 DEF OpJobs, StartOpJobs
<1>3. job[c].on \notin PendingOps
  BY <1>1 DEF OpsInv, WipIsStarted, HasStarted, StartOpJobs
<1>4. CASE Reply(c)
  BY <1>4, RepliedKeeps, DataStays DEF StartOpLook, opData, OpsInv
<1>5. CASE Continue(c, j)
  <2>1. job' = [job EXCEPT ![c] = j] /\ UNCHANGED opData /\ op' = op /\ lateOps' = lateOps
    BY <1>5 DEF Continue, StartOpLook, opData
  <2> HIDE DEF j
  <2> QED
    BY <1>2, <1>3, <2>1, OthersGoOn, DataStays DEF OpsInv, Counts
<1> QED
  BY <1>4, <1>5 DEF StartOpLook

LEMMA CompleteOpBeginKeeps ==
  ASSUME OpsInv, NEW c \in Clients, CompleteOpBegin(c) PROVE OpsInv'
<1> DEFINE j == [op |-> "completeOp", on |-> job[c].on, qty |-> job[c].qty,
                 total |-> job[c].total, stage |-> "commit",
                 next |-> NextOps(job[c].on)]
<1>1. job[c] \in BeginOpJobs
  BY OpJobIs DEF CompleteOpBegin, At, OpsInv
<1>2. j.op = "completeOp" /\ j.on = job[c].on /\ j.qty = job[c].qty
      /\ j.total = job[c].total /\ j.next = NextOps(job[c].on)
  OBVIOUS
<1>3. NextOps(job[c].on) \subseteq Later(job[c].on) \cap Ops
  BY DEF NextOps, PendingOps
<1>4. job[c].on \in Ops /\ job[c].qty \in Nat /\ job[c].total \in Nat
      /\ job[c].op = "completeOp"
  BY <1>1 DEF BeginOpJobs
<1>5. j \in OpJobs
  BY <1>3, <1>4 DEF OpJobs, CommitOpJobs
<1>6. job' = [job EXCEPT ![c] = j] /\ UNCHANGED opData /\ op' = op /\ lateOps' = lateOps
  BY DEF CompleteOpBegin, Continue, opData
<1>7. j.next = {} => Later(j.on) \cap PendingOps = {}
  BY <1>2, <1>4, SomeAreNext
<1>8. Counts(j) /\ j.on \notin lateOps => j.total = op[j.on].qty + j.qty
  BY <1>2, <1>4 DEF OpsInv, TotalIsFresh, Counts
<1> HIDE DEF j
<1> QED
  BY <1>2, <1>3, <1>5, <1>6, <1>7, <1>8, OthersGoOn, DataStays DEF OpsInv, HasStarted
\* Operation o is under way: its quantity is what it was.
LEMMA UnderWay ==
  ASSUME OpsInv, NEW o \in Ops, op' = [op EXCEPT ![o].status = "IN_PROGRESS"],
         UNCHANGED <<wipAt, reported, scanned, lateOps, transferred>>
  PROVE  /\ OpsTypeOK' /\ ScannedGoOn' /\ WipAtStarted' /\ QtyIsReported'
         /\ PendingOps' \subseteq PendingOps /\ o \notin PendingOps'
         /\ \A u \in Ops : op'[u].qty = op[u].qty
<1>1. /\ wipAt' = wipAt /\ reported' = reported /\ scanned' = scanned
      /\ lateOps' = lateOps /\ transferred' = transferred
  OBVIOUS
<1>2. op \in [Ops -> [status : OpStatus, qty : Nat]]
  BY DEF OpsInv, OpsTypeOK
<1>3. /\ op' \in [Ops -> [status : OpStatus, qty : Nat]]
      /\ op'[o].status = "IN_PROGRESS" /\ op'[o].qty = op[o].qty
      /\ \A u \in Ops \ {o} : op'[u] = op[u]
  BY <1>2 DEF OpStatus
<1>4. PendingOps' \subseteq PendingOps /\ o \notin PendingOps'
  BY <1>3 DEF PendingOps
<1>5. \A u \in Ops : op'[u].qty = op[u].qty
  BY <1>3
<1>6. OpsTypeOK'
  <2>1. transferred' \in BOOLEAN
    BY Zenon, <1>1 DEF OpsInv, OpsTypeOK
  <2> QED
    BY <1>1, <1>3, <2>1 DEF OpsInv, OpsTypeOK
<1>7. ScannedGoOn'
  BY <1>1, <1>4 DEF OpsInv, ScannedGoOn, Later
<1>8. WipAtStarted'
  BY <1>1, <1>4 DEF OpsInv, WipAtStarted
<1>9. QtyIsReported'
  BY <1>1, <1>5 DEF OpsInv, QtyIsReported
<1> QED
  BY <1>4, <1>5, <1>6, <1>7, <1>8, <1>9

LEMMA StartOpStatusKeeps ==
  ASSUME OpsInv, NEW c \in Clients, StartOpStatus(c) PROVE OpsInv'
<1> DEFINE j == [job[c] EXCEPT !.stage = "look"]
<1>1. job[c] \in StartOpJobs
  BY OpJobIs DEF StartOpStatus, At, OpsInv
<1>2. j \in OpJobs /\ j.op = "startOp" /\ j.on = job[c].on /\ j.on \in Ops
  BY <1>1 DEF OpJobs, StartOpJobs
<1>3. /\ job' = [job EXCEPT ![c] = j]
      /\ op' = [op EXCEPT ![job[c].on].status = "IN_PROGRESS"]
      /\ UNCHANGED <<wipAt, reported, scanned, lateOps, transferred>>
  BY DEF StartOpStatus, Continue
<1> HIDE DEF j
<1>4. /\ OpsTypeOK' /\ ScannedGoOn' /\ WipAtStarted' /\ QtyIsReported'
      /\ PendingOps' \subseteq PendingOps /\ j.on \notin PendingOps'
      /\ \A u \in Ops : op'[u].qty = op[u].qty
  BY <1>2, <1>3, UnderWay
<1> QED
  BY <1>2, <1>3, <1>4, OthersGoOnLate DEF OpsInv, Counts

\* A job that does not move goes on as the job of some client that does not.
LEMMA ReportOpStartKeeps ==
  ASSUME OpsInv, NEW c \in Clients, NEW o \in Ops, ReportOpStart(c, o) PROVE OpsInv'
<1>1. /\ job' = job
      /\ op' = [op EXCEPT ![o].status = "IN_PROGRESS"]
      /\ UNCHANGED <<wipAt, reported, scanned, lateOps, transferred>>
  BY DEF ReportOpStart, Once
<1>2. /\ OpsTypeOK' /\ ScannedGoOn' /\ WipAtStarted' /\ QtyIsReported'
      /\ PendingOps' \subseteq PendingOps
      /\ \A u \in Ops : op'[u].qty = op[u].qty
  BY <1>1, UnderWay
<1>3. job' \in [Clients -> OpJobs] /\ WipIsStarted'
  BY <1>1, <1>2 DEF OpsInv, WipIsStarted
<1>4. NextIsLater'
  BY <1>1, <1>2 DEF OpsInv, NextIsLater, Completing, At, Later
<1>5. TotalIsFresh'
  <2>1. \A d \in Clients : Counts(job[d]) => job[d].on \in Ops
    BY OpJobIs DEF OpsInv, Counts
  <2> QED
    BY <1>1, <1>2, <2>1 DEF OpsInv, TotalIsFresh
<1> QED
  BY <1>2, <1>3, <1>4, <1>5 DEF OpsInv

\* The work in progress moves to operations that have been started.
LEMMA WipMoves ==
  ASSUME OpsInv, op' = op, wipAt' \in Seq(Ops),
         UNCHANGED <<reported, scanned, lateOps, transferred>>,
         ~transferred => \A i \in DOMAIN wipAt' : wipAt'[i] \notin PendingOps
  PROVE  OpsTypeOK' /\ ScannedGoOn' /\ WipAtStarted' /\ QtyIsReported'
<1>1. /\ reported' = reported /\ scanned' = scanned
      /\ lateOps' = lateOps /\ transferred' = transferred
  OBVIOUS
<1>2. OpsTypeOK'
  <2>1. transferred' \in BOOLEAN
    BY Zenon, <1>1 DEF OpsInv, OpsTypeOK
  <2> QED
    BY <1>1, <2>1 DEF OpsInv, OpsTypeOK
<1>3. ScannedGoOn' /\ QtyIsReported'
  BY <1>1 DEF OpsInv, ScannedGoOn, QtyIsReported, PendingOps, Later
<1>4. WipAtStarted'
  BY <1>1 DEF WipAtStarted, PendingOps
<1> QED
  BY <1>2, <1>3, <1>4

LEMMA StartOpWipKeeps ==
  ASSUME OpsInv, NEW c \in Clients, StartOpWip(c) PROVE OpsInv'
<1>1. job[c] \in StartOpJobs /\ HasStarted(job[c])
  BY OpJobIs DEF StartOpWip, At, OpsInv, HasStarted
<1>2. job[c].on \in Ops /\ job[c].on \notin PendingOps
  BY <1>1 DEF OpsInv, WipIsStarted, StartOpJobs
<1>3. /\ wipAt' = Append(wipAt, job[c].on) /\ op' = op
      /\ UNCHANGED <<reported, scanned, lateOps, transferred>>
      /\ Reply(c) /\ lateOps' = lateOps
  BY DEF StartOpWip
<1>4. wipAt \in Seq(Ops)
  BY DEF OpsInv, OpsTypeOK
<1>5. wipAt' \in Seq(Ops)
  BY <1>2, <1>3, <1>4
<1>6. ~transferred => \A i \in DOMAIN wipAt' : wipAt'[i] \notin PendingOps
  BY <1>2, <1>3, <1>4 DEF OpsInv, WipAtStarted
<1>7. OpsTypeOK' /\ ScannedGoOn' /\ WipAtStarted' /\ QtyIsReported'
  BY <1>3, <1>5, <1>6, WipMoves
<1> QED
  BY <1>3, <1>7, RepliedKeeps DEF OpsInv

LEMMA MoveWipKeeps ==
  ASSUME OpsInv, NEW c \in Clients, MoveWip(c) PROVE OpsInv'
<1>1. job[c] \in MoveWipJobs /\ HasStarted(job[c])
  BY OpJobIs DEF MoveWip, At, OpsInv, HasStarted
<1>2. job[c].on \in Ops /\ job[c].on \notin PendingOps
  BY <1>1 DEF OpsInv, WipIsStarted, MoveWipJobs
<1>3. /\ op' = op /\ UNCHANGED <<reported, scanned, lateOps, transferred>>
      /\ Reply(c) /\ lateOps' = lateOps
  BY DEF MoveWip
<1>4. wipAt \in Seq(Ops)
  BY DEF OpsInv, OpsTypeOK
<1>5. wipAt' = wipAt \/ \E i \in DOMAIN wipAt : wipAt' = [wipAt EXCEPT ![i] = job[c].on]
  BY DEF MoveWip
<1>6. wipAt' \in Seq(Ops)
  BY <1>2, <1>4, <1>5
<1>7. ~transferred => \A i \in DOMAIN wipAt' : wipAt'[i] \notin PendingOps
  BY <1>2, <1>4, <1>5 DEF OpsInv, WipAtStarted
<1>8. OpsTypeOK' /\ ScannedGoOn' /\ WipAtStarted' /\ QtyIsReported'
  BY <1>3, <1>6, <1>7, WipMoves
<1> QED
  BY <1>3, <1>8, RepliedKeeps DEF OpsInv

\* The rows of the work in progress lie at one operation.
LEMMA AllAt ==
  ASSUME NEW s \in Seq(Ops), NEW o \in Ops
  PROVE  [i \in DOMAIN s |-> o] \in Seq(Ops)
OBVIOUS

LEMMA TransferWipKeeps ==
  ASSUME OpsInv, NEW c \in Clients, NEW o \in Ops, TransferWip(c, o) PROVE OpsInv'
<1>1. /\ op' = op /\ reported' = reported /\ scanned' = scanned /\ lateOps' = lateOps
      /\ transferred' = TRUE /\ job' = job /\ wipAt' = [i \in DOMAIN wipAt |-> o]
  BY DEF TransferWip, Once
<1>2. wipAt \in Seq(Ops)
  BY DEF OpsInv, OpsTypeOK
<1>3. wipAt' \in Seq(Ops)
  BY <1>1, <1>2, AllAt
<1>4. OpsTypeOK'
  <2>1. transferred' \in BOOLEAN
    BY <1>1
  <2> QED
    BY <1>1, <1>3, <2>1 DEF OpsInv, OpsTypeOK
<1>5. ScannedGoOn' /\ QtyIsReported' /\ WipAtStarted'
  BY <1>1 DEF OpsInv, ScannedGoOn, QtyIsReported, PendingOps, Later, WipAtStarted
<1>6. NextIsLater' /\ TotalIsFresh' /\ WipIsStarted'
  BY <1>1 DEF OpsInv, NextIsLater, TotalIsFresh, WipIsStarted, Completing, At,
             PendingOps, Later
<1> QED
  BY <1>1, <1>4, <1>5, <1>6 DEF OpsInv

\* Whoever had read operation o is late when client c writes it.
LEMMA LateIsLate ==
  ASSUME OpsInv, NEW c \in Clients, NEW o \in Ops, lateOps' = LateFor(c, o)
  PROVE  /\ lateOps \subseteq lateOps' /\ lateOps' \subseteq Ops
         /\ \A d \in Clients \ {c} : Counts(job[d]) /\ job[d].on = o => o \in lateOps'
BY DEF LateFor, Counts, OpsInv, OpsTypeOK

LEMMA ReportOpWriteKeeps ==
  ASSUME OpsInv, NEW c \in Clients, ReportOpWrite(c) PROVE OpsInv'
<1> DEFINE o == job[c].on
           j == [op |-> "moveWip", on |-> o, stage |-> "write"]
<1>1. job[c] \in ReportOpJobs /\ Counts(job[c])
  BY OpJobIs DEF ReportOpWrite, At, OpsInv, Counts
<1>2. o \in Ops /\ job[c].qty \in Nat /\ job[c].total \in Nat
  BY <1>1 DEF ReportOpJobs
<1>3. j \in OpJobs /\ j.op = "moveWip" /\ j.on = o
  BY <1>2 DEF OpJobs, MoveWipJobs
<1>4. /\ op' = [op EXCEPT ![o] = [status |-> "COMPLETED", qty |-> job[c].total]]
      /\ reported' = [reported EXCEPT ![o] = reported[o] + job[c].qty]
      /\ lateOps' = LateFor(c, o)
      /\ job' = [job EXCEPT ![c] = j]
      /\ wipAt' = wipAt /\ scanned' = scanned /\ transferred' = transferred
  BY DEF ReportOpWrite, Continue, NewTotal
<1>5. o \notin lateOps => job[c].total = op[o].qty + job[c].qty
  BY <1>1 DEF OpsInv, TotalIsFresh
<1> HIDE DEF j, o
<1>6. op \in [Ops -> [status : OpStatus, qty : Nat]] /\ reported \in [Ops -> Nat]
  BY DEF OpsInv, OpsTypeOK
<1>7. /\ op' \in [Ops -> [status : OpStatus, qty : Nat]]
      /\ op'[o].status = "COMPLETED" /\ op'[o].qty = job[c].total
      /\ \A u \in Ops \ {o} : op'[u] = op[u]
  BY <1>2, <1>4, <1>6 DEF OpStatus
<1>8. /\ reported' \in [Ops -> Nat] /\ reported'[o] = reported[o] + job[c].qty
      /\ \A u \in Ops \ {o} : reported'[u] = reported[u]
  BY <1>2, <1>4, <1>6
<1>9. /\ lateOps \subseteq lateOps' /\ lateOps' \subseteq Ops
      /\ \A d \in Clients \ {c} : Counts(job[d]) /\ job[d].on = o => o \in lateOps'
  BY <1>2, <1>4, LateIsLate
<1>10. PendingOps' \subseteq PendingOps /\ o \notin PendingOps'
  BY <1>7 DEF PendingOps
<1>11. OpsTypeOK'
  <2>1. transferred' \in BOOLEAN
    BY Zenon, <1>4 DEF OpsInv, OpsTypeOK
  <2> QED
    BY <1>4, <1>7, <1>8, <1>9, <2>1 DEF OpsInv, OpsTypeOK
<1>12. ScannedGoOn' /\ WipAtStarted'
  BY <1>4, <1>10 DEF OpsInv, ScannedGoOn, Later, WipAtStarted
<1>13. QtyIsReported'
  BY <1>2, <1>5, <1>7, <1>8, <1>9 DEF OpsInv, QtyIsReported
<1>14. \A u \in Ops : op'[u].qty # op[u].qty =>
        \A d \in Clients \ {c} : Counts(job[d]) /\ job[d].on = u => u \in lateOps'
  BY <1>7, <1>9
<1>15. ~Counts(j) /\ (HasStarted(j) => j.on \notin PendingOps')
  BY <1>3, <1>10 DEF Counts
<1>16. /\ job' \in [Clients -> OpJobs]
       /\ NextIsLater' /\ TotalIsFresh' /\ WipIsStarted'
  BY <1>3, <1>4, <1>9, <1>10, <1>14, <1>15, OthersGoOnLate
<1> QED
  BY <1>11, <1>12, <1>13, <1>16 DEF OpsInv

LEMMA CompleteOpCommitKeeps ==
  ASSUME OpsInv, NEW c \in Clients, CompleteOpCommit(c) PROVE OpsInv'
<1> DEFINE o == job[c].on
           next == job[c].next
<1>1. job[c] \in CommitOpJobs /\ Counts(job[c]) /\ Completing(c)
  BY OpJobIs DEF CompleteOpCommit, Completing, At, OpsInv, Counts
<1>2. o \in Ops /\ job[c].qty \in Nat /\ job[c].total \in Nat /\ next \subseteq Ops
  BY <1>1 DEF CommitOpJobs
<1>3. /\ next \subseteq Later(o)
      /\ next = {} => Later(o) \cap PendingOps = {}
  BY <1>1 DEF OpsInv, NextIsLater
<1>4. /\ op' = [u \in Ops |->
           IF u = o THEN [status |-> "COMPLETED", qty |-> job[c].total]
           ELSE IF u \in next THEN [op[u] EXCEPT !.status = "IN_PROGRESS"]
           ELSE op[u]]
      /\ reported' = [reported EXCEPT ![o] = reported[o] + job[c].qty]
      /\ lateOps' = LateFor(c, o)
      /\ job' = [job EXCEPT ![c] = NoJob]
      /\ scanned' = scanned \cup {o} /\ transferred' = transferred
  BY DEF CompleteOpCommit, Reply, Continue, NewTotal
<1>w. \/ next = {} /\ wipAt' = wipAt
      \/ \E last \in next : wipAt' = [i \in DOMAIN wipAt |-> last]
  BY DEF CompleteOpCommit
<1>5. o \notin lateOps => job[c].total = op[o].qty + job[c].qty
  BY <1>1 DEF OpsInv, TotalIsFresh
<1> HIDE DEF o, next
<1>6. op \in [Ops -> [status : OpStatus, qty : Nat]] /\ reported \in [Ops -> Nat]
  BY DEF OpsInv, OpsTypeOK
<1>7. /\ op'[o] = [status |-> "COMPLETED", qty |-> job[c].total]
      /\ \A u \in next \ {o} : op'[u] = [op[u] EXCEPT !.status = "IN_PROGRESS"]
      /\ \A u \in (Ops \ next) \ {o} : op'[u] = op[u]
  BY <1>2, <1>4
<1>8. \A u \in Ops :
        /\ op'[u] \in [status : OpStatus, qty : Nat]
        /\ u = o => op'[u].qty = job[c].total
        /\ u # o => op'[u].qty = op[u].qty
        /\ u \in next \cup {o} => op'[u].status # "PENDING"
        /\ op'[u].status = "PENDING" => op[u].status = "PENDING"
  <2> SUFFICES ASSUME NEW u \in Ops
               PROVE /\ op'[u] \in [status : OpStatus, qty : Nat]
                     /\ u = o => op'[u].qty = job[c].total
                     /\ u # o => op'[u].qty = op[u].qty
                     /\ u \in next \cup {o} => op'[u].status # "PENDING"
                     /\ op'[u].status = "PENDING" => op[u].status = "PENDING"
    OBVIOUS
  <2>1. op[u] \in [status : OpStatus, qty : Nat]
    BY <1>6
  <2>2. CASE u = o
    BY <1>2, <1>7, <2>2 DEF OpStatus
  <2>3. CASE u \in next \ {o}
    BY <1>7, <2>1, <2>3 DEF OpStatus
  <2>4. CASE u \notin next \cup {o}
    BY <1>7, <2>1, <2>4
  <2> QED
    BY <2>2, <2>3, <2>4
<1>9. op' \in [Ops -> [status : OpStatus, qty : Nat]]
  BY <1>4, <1>8
<1>10. /\ reported' \in [Ops -> Nat] /\ reported'[o] = reported[o] + job[c].qty
       /\ \A u \in Ops \ {o} : reported'[u] = reported[u]
  BY <1>2, <1>4, <1>6
<1>11. /\ lateOps \subseteq lateOps' /\ lateOps' \subseteq Ops
       /\ \A d \in Clients \ {c} : Counts(job[d]) /\ job[d].on = o => o \in lateOps'
  BY <1>2, <1>4, LateIsLate
<1>12. PendingOps' \subseteq PendingOps /\ PendingOps' \cap (next \cup {o}) = {}
  BY <1>8 DEF PendingOps
<1>13. wipAt \in Seq(Ops) /\ wipAt' \in Seq(Ops)
  <2>1. wipAt \in Seq(Ops)
    BY DEF OpsInv, OpsTypeOK
  <2> QED
    BY <2>1, <1>2, <1>w, AllAt
<1>14. OpsTypeOK'
  <2>1. transferred' \in BOOLEAN
    BY Zenon, <1>4 DEF OpsInv, OpsTypeOK
  <2>2. scanned' \subseteq Ops
    BY <1>2, <1>4 DEF OpsInv, OpsTypeOK
  <2> QED
    BY <1>9, <1>10, <1>11, <1>13, <2>1, <2>2 DEF OpsTypeOK
<1>15. ScannedGoOn'
  <2> SUFFICES ASSUME NEW s \in scanned', Later(s) # {}
               PROVE  Later(s) \ PendingOps' # {}
    BY DEF ScannedGoOn, Later
  <2>1. CASE s \in scanned
    BY <2>1, <1>12 DEF OpsInv, ScannedGoOn
  <2>2. CASE s = o
    BY <2>2, <1>3, <1>12
  <2> QED
    BY <2>1, <2>2, <1>4
<1>16. WipAtStarted'
  <2> SUFFICES ASSUME ~transferred, NEW i \in DOMAIN wipAt'
               PROVE  wipAt'[i] \notin PendingOps'
    BY <1>4 DEF WipAtStarted
  <2>1. CASE wipAt' = wipAt
    BY <2>1, <1>12 DEF OpsInv, WipAtStarted
  <2>2. CASE \E last \in next : wipAt' = [k \in DOMAIN wipAt |-> last]
    BY <2>2, <1>12
  <2> QED
    BY <2>1, <2>2, <1>w
<1>17. QtyIsReported'
  BY <1>2, <1>5, <1>8, <1>10, <1>11 DEF OpsInv, QtyIsReported
<1>18. \A u \in Ops : op'[u].qty # op[u].qty =>
        \A d \in Clients \ {c} : Counts(job[d]) /\ job[d].on = u => u \in lateOps'
  BY <1>8, <1>11
<1>19. NoJob \in OpJobs /\ ~Counts(NoJob) /\ ~HasStarted(NoJob)
  BY DEF OpJobs, OpNoJob, NoJob, Counts, HasStarted
<1>20. /\ job' \in [Clients -> OpJobs]
       /\ NextIsLater' /\ TotalIsFresh' /\ WipIsStarted'
  BY <1>4, <1>11, <1>12, <1>18, <1>19, OthersGoOnLate
<1> QED
  BY <1>14, <1>15, <1>16, <1>17, <1>20 DEF OpsInv

LEMMA OpsNextInv == OpsInv /\ [OpsNext]_opVars => OpsInv'
<1> SUFFICES ASSUME OpsInv, [OpsNext]_opVars PROVE OpsInv'
  OBVIOUS
<1>1. CASE UNCHANGED opVars
  <2>1. UNCHANGED opData /\ job' = job /\ op' = op /\ lateOps' = lateOps
    BY <1>1 DEF opVars, opData, reqVars
  <2>2. NextIsLater' /\ TotalIsFresh' /\ WipIsStarted'
    BY <2>1 DEF OpsInv, NextIsLater, TotalIsFresh, WipIsStarted, Completing, At,
               PendingOps, Later
  <2> QED
    BY <2>1, <2>2, DataStays DEF OpsInv
<1>2. CASE OpsNext
  BY <1>2, StartOpKeeps, ReportOpStartKeeps, TransferWipKeeps, CompleteOpKeeps,
     ReportOpReadKeeps, StartOpStatusKeeps, StartOpLookKeeps, StartOpWipKeeps,
     CompleteOpBeginKeeps, CompleteOpCommitKeeps, ReportOpWriteKeeps,
     MoveWipKeeps, OpDieKeeps
  DEF OpsNext
<1> QED
  BY <1>1, <1>2

(***************************************************************************)
(* Operations, their work in progress and the requests of OperationService *)
(* and WipService keep their types, whatever they interleave with.         *)
(***************************************************************************)
THEOREM OperationsAreTyped == OpsSpec => []OpsTypeOK
<1>1. OpsInv => OpsTypeOK
  BY DEF OpsInv
<1> QED
  BY <1>1, OpsInitInv, OpsNextInv, PTL DEF OpsSpec

(***************************************************************************)
(* No order stalls between two operations: the completion of an operation  *)
(* leaves a later one under way or done, if there is one, and work in      *)
(* progress never lies at an operation that has not begun, until it is     *)
(* moved by hand; and an operation's quantity is the sum of its reports    *)
(* unless one was written over another: for any number of operations and   *)
(* requests, some of which may die.                                        *)
(***************************************************************************)
THEOREM ProgressIsNotLost == OpsSpec => []ProgressIsKept
<1>1. OpsInv => ProgressIsKept
  BY DEF OpsInv, ProgressIsKept, ScannedGoOn, WipAtStarted, QtyIsReported
<1> QED
  BY <1>1, OpsInitInv, OpsNextInv, PTL DEF OpsSpec

-----------------------------------------------------------------------------
(***************************************************************************)
(* The tree of work orders: cycles, levels and critical paths, for any     *)
(* number of orders and requests.                                          *)
(*                                                                         *)
(* CycleInv. A set of orders is closed if the parent of each is in it; a   *)
(* cycle is a closed set that is not empty. Every one of them has an order *)
(* that was written while requests overlapped (NoFreeCycle). The save of a *)
(* parent keeps this because of what its walk has seen: the walk is still  *)
(* within every cycle without a late order that the change would close     *)
(* (WalkFits), so a walk that has come to the root leaves none (JoinFits). *)
(*                                                                         *)
(* LevelInv. As long as nothing overlapped and nothing was torn, an order  *)
(* that does not count one more than its parent is owed by the request     *)
(* that moves the tree: the request is looking for the children of the     *)
(* parent, or has the order on its list (LevelsOwed); the list is worked   *)
(* off depth first, each row with the level that its parent has by then    *)
(* (MoveFits). A critical path in flight has calculated rows that are      *)
(* right for the tree as it is, and the orders it has not written yet are  *)
(* on its list (PathFits).                                                 *)
(*                                                                         *)
(* That the calculated rows are right is a matter of two passes in the     *)
(* order of the levels. The forward pass gives each order its earliest     *)
(* finish after that of its parent, the backward pass its latest start     *)
(* before those of its children; the orders without slack are then exactly *)
(* those of the longest paths from the root (NoSlackIsLongest), by         *)
(* induction along the levels in both directions.                          *)
(***************************************************************************)

(* Climbing, for any parents p *)

IsParents(p) == p \in [TreeOrders -> TreeOrders \cup {NoParent}]

NextUp(p, v) == IF v = NoParent THEN NoParent ELSE p[v]

ClimbBy(up, p, w) ==
  up = [n \in 0..Cardinality(TreeOrders) |->
          IF n = 0 THEN w ELSE IF up[n - 1] = NoParent THEN NoParent ELSE p[up[n - 1]]]

Climbs(up, n, p, w) ==
  /\ up \in [0..n -> TreeOrders \cup {NoParent}] /\ up[0] = w
  /\ \A k \in 1..n : up[k] = NextUp(p, up[k - 1])

LEMMA ClimbIsChosen ==
  ASSUME NEW p, NEW w
  PROVE  ClimbIn(p, w) = CHOOSE up : ClimbBy(up, p, w)
BY DEF ClimbIn, ClimbBy

LEMMA NextUpIsTyped ==
  ASSUME NEW p, IsParents(p)
  PROVE  \A v \in TreeOrders \cup {NoParent} : NextUp(p, v) \in TreeOrders \cup {NoParent}
BY DEF IsParents, NextUp

LEMMA ClimbExists ==
  ASSUME NEW p, IsParents(p), NEW w \in TreeOrders
  PROVE  \E n \in Nat : \E up : /\ n = Cardinality(TreeOrders) /\ Climbs(up, n, p, w)
                                 /\ AboveIn(p, w) = {up[k] : k \in 1..n} \ {NoParent}
<1>1. PICK N : N = Cardinality(TreeOrders)
  OBVIOUS
<1>2. N \in Nat
  BY <1>1, FS_CardinalityType, TreeOrdersAssumption
<1>3. PICK V : V = TreeOrders \cup {NoParent}
  OBVIOUS
<1>4. PICK f : f = [x \in (1..N) \X V |-> NextUp(p, x[2])]
  OBVIOUS
<1>5. \A k \in 1..N, v \in V : f[<<k, v>>] = NextUp(p, v)
  BY <1>4
<1>6. CanRun(N, V, f, w)
  BY <1>2, <1>3, <1>5, NextUpIsTyped DEF CanRun
<1>7. PICK g \in [0..N -> V] :
        /\ g[0] = w
        /\ \A k \in 1..N : g[k - 1] \in V /\ g[k] = f[<<k, g[k - 1]>>]
  BY <1>6, NatRecursion
<1>8. ClimbBy(g, p, w)
  <2>1. \A k \in 0..N : k # 0 => k \in 1..N
    BY <1>2
  <2>2. \A n \in 0..N : g[n] = IF n = 0 THEN w ELSE NextUp(p, g[n - 1])
    BY <1>5, <1>7, <2>1
  <2>3. g = [n \in 0..N |-> IF n = 0 THEN w ELSE NextUp(p, g[n - 1])]
    BY <1>7, <2>2
  <2> QED
    BY <1>1, <2>3 DEF ClimbBy, NextUp
<1>9. PICK up : up = ClimbIn(p, w)
  OBVIOUS
<1>10. ClimbBy(up, p, w)
  BY <1>8, <1>9, ClimbIsChosen
<1>11. up = [n \in 0..N |-> IF n = 0 THEN w ELSE NextUp(p, up[n - 1])]
  BY <1>1, <1>10 DEF ClimbBy, NextUp
<1>12. up[0] = w /\ \A k \in 1..N : up[k] = NextUp(p, up[k - 1])
  <2>1. 0 \in 0..N /\ \A n \in 1..N : n \in 0..N /\ n # 0
    BY <1>2
  <2> QED
    BY <1>11, <2>1
<1> DEFINE P == {n \in Nat : n <= N => up[n] \in V}
<1>13. 0 \in P
  BY <1>3, <1>12
<1>14. ASSUME NEW n \in Nat, n \in P PROVE n + 1 \in P
  <2> SUFFICES ASSUME n + 1 <= N PROVE up[n + 1] \in V
    OBVIOUS
  <2>1. n + 1 \in 1..N /\ (n + 1) - 1 = n /\ up[n] \in V
    BY <1>2, <1>14
  <2> QED
    BY <1>3, <1>12, <2>1, NextUpIsTyped
<1> HIDE DEF P
<1>15. Nat \subseteq P
  BY <1>13, <1>14, NatSetInduction
<1>16. up \in [0..N -> V]
  <2>1. \A n \in 0..N : up[n] \in V
    BY <1>2, <1>15 DEF P
  <2> QED
    BY <1>11, <2>1
<1>17. Climbs(up, N, p, w)
  BY <1>3, <1>12, <1>16 DEF Climbs
<1>18. AboveIn(p, w) = {up[k] : k \in 1..N} \ {NoParent}
  BY <1>1, <1>9 DEF AboveIn
<1> QED
  BY <1>1, <1>2, <1>17, <1>18

\* Up to an order that is above, there are orders.
LEMMA ClimbIsReal ==
  ASSUME NEW p, NEW n \in Nat, NEW up, NEW w, Climbs(up, n, p, w),
         NEW k \in 0..n, up[k] # NoParent
  PROVE  \A i \in 0..k : up[i] \in TreeOrders
<1> DEFINE P == {i \in Nat : i <= k => up[k - i] # NoParent}
<1>1. 0 \in P
  OBVIOUS
<1>2. ASSUME NEW i \in Nat, i \in P PROVE i + 1 \in P
  <2> SUFFICES ASSUME i + 1 <= k PROVE up[k - (i + 1)] # NoParent
    OBVIOUS
  <2>1. k - i \in 1..n /\ (k - i) - 1 = k - (i + 1) /\ up[k - i] # NoParent
    BY <1>2
  <2>2. up[k - i] = NextUp(p, up[k - (i + 1)])
    BY <2>1 DEF Climbs
  <2> QED
    BY <2>1, <2>2 DEF NextUp
<1> HIDE DEF P
<1>3. Nat \subseteq P
  BY <1>1, <1>2, NatSetInduction
<1> SUFFICES ASSUME NEW i \in 0..k PROVE up[i] \in TreeOrders
  OBVIOUS
<1>4. k - i \in Nat /\ k - i <= k /\ k - (k - i) = i /\ i \in 0..n
  OBVIOUS
<1>5. up[i] # NoParent
  BY <1>3, <1>4 DEF P
<1> QED
  BY <1>4, <1>5 DEF Climbs

\* Orders whose parents are all among them.
ClosedIn(p, S) == \A w \in S : p[w] \in S

Round(up, i, k) == {up[x] : x \in (i + 1)..k}

\* Between two visits of one order lie such orders.
LEMMA RoundIsClosed ==
  ASSUME NEW p, NEW n \in Nat, NEW up, NEW w, Climbs(up, n, p, w),
         NEW i \in 0..n, NEW k \in 0..n, i < k, up[i] = up[k], up[k] # NoParent,
         NEW S, S = Round(up, i, k)
  PROVE  S \in SUBSET TreeOrders /\ ClosedIn(p, S) /\ up[k] \in S
<1>1. \A x \in 0..k : up[x] \in TreeOrders
  BY ClimbIsReal
<1>2. \A x \in (i + 1)..k : x \in 0..k
  OBVIOUS
<1>3. ASSUME NEW x \in (i + 1)..k PROVE p[up[x]] \in {up[y] : y \in (i + 1)..k}
  <2>1. up[x] \in TreeOrders
    BY <1>1, <1>2
  <2>2. CASE x = k
    <3>1. i + 1 \in 1..n /\ (i + 1) - 1 = i /\ i + 1 \in (i + 1)..k
      OBVIOUS
    <3>2. up[i + 1] = NextUp(p, up[i])
      BY <3>1 DEF Climbs
    <3> QED
      BY <2>1, <2>2, <3>1, <3>2, NoParentAssumption DEF NextUp
  <2>3. CASE x # k
    <3>1. x + 1 \in 1..n /\ (x + 1) - 1 = x /\ x + 1 \in (i + 1)..k
      BY <2>3
    <3>2. up[x + 1] = NextUp(p, up[x])
      BY <3>1 DEF Climbs
    <3> QED
      BY <2>1, <3>1, <3>2, NoParentAssumption DEF NextUp
  <2> QED
    BY <2>2, <2>3
<1>4. k \in (i + 1)..k
  OBVIOUS
<1> QED
  BY <1>1, <1>2, <1>3, <1>4 DEF ClosedIn, Round

LEMMA CycleIsClosed ==
  ASSUME NEW p, IsParents(p), NEW w \in TreeOrders, w \in AboveIn(p, w)
  PROVE  \E S \in SUBSET TreeOrders : w \in S /\ S \subseteq AboveIn(p, w) /\ ClosedIn(p, S)
<1>n. PICK n \in Nat : \E up : /\ n = Cardinality(TreeOrders) /\ Climbs(up, n, p, w)
                               /\ AboveIn(p, w) = {up[k] : k \in 1..n} \ {NoParent}
  BY ClimbExists
<1>1. PICK up : /\ Climbs(up, n, p, w)
                /\ AboveIn(p, w) = {up[k] : k \in 1..n} \ {NoParent}
  BY <1>n
<1>2. PICK k \in 1..n : up[k] = w
  BY <1>1
<1>3. up[0] = w /\ w # NoParent /\ k \in 0..n /\ 0 \in 0..n /\ 0 < k
  BY <1>1, <1>2, NoParentAssumption DEF Climbs
<1>4. PICK S : S = Round(up, 0, k)
  OBVIOUS
<1>5. S \in SUBSET TreeOrders /\ ClosedIn(p, S) /\ w \in S
  BY <1>1, <1>2, <1>3, <1>4, RoundIsClosed
<1>6. S \subseteq AboveIn(p, w)
  <2>1. \A x \in (0 + 1)..k : x \in 1..n
    BY <1>2
  <2> QED
    BY <1>1, <1>4, <1>5, <2>1, NoParentAssumption DEF Round
<1> QED
  BY <1>5, <1>6

\* No orders form a cycle.
Acyclic(p) == \A S \in SUBSET TreeOrders : S # {} => ~ClosedIn(p, S)

\* Who climbs as often as there are orders meets one twice or the end.
LEMMA ClimbRepeats ==
  ASSUME NEW p, NEW n \in Nat, n = Cardinality(TreeOrders), NEW up, NEW w,
         Climbs(up, n, p, w), up[n] # NoParent
  PROVE  \E i, k \in 0..n : i < k /\ up[i] = up[k] /\ up[k] \in TreeOrders
<1>1. n \in 0..n
  OBVIOUS
<1>2. \A i \in 0..n : up[i] \in TreeOrders
  BY <1>1, ClimbIsReal
<1>3. up \in [0..n -> TreeOrders]
  BY <1>2 DEF Climbs
<1>4. IsFiniteSet(0..n) /\ Cardinality(0..n) = n + 1
  BY FS_Interval
<1>5. n < n + 1
  OBVIOUS
<1>6. PICK x \in 0..n, y \in 0..n : x # y /\ up[x] = up[y]
  BY <1>3, <1>4, <1>5, TreeOrdersAssumption, FS_PigeonHole
<1>7. x < y \/ y < x
  BY <1>6
<1> QED
  BY <1>2, <1>6, <1>7

LEMMA ForestIsAcyclic ==
  ASSUME NEW p, IsParents(p), \A w \in TreeOrders : w \notin AboveIn(p, w)
  PROVE  Acyclic(p)
<1> SUFFICES ASSUME NEW S \in SUBSET TreeOrders, NEW w \in S, ClosedIn(p, S) PROVE FALSE
  BY DEF Acyclic
<1>n. PICK n \in Nat : \E up : n = Cardinality(TreeOrders) /\ Climbs(up, n, p, w)
  BY ClimbExists
<1>1. PICK up : n = Cardinality(TreeOrders) /\ Climbs(up, n, p, w)
  BY <1>n
<1> DEFINE P == {k \in Nat : k <= n => up[k] \in S}
<1>2. 0 \in P
  BY <1>1 DEF Climbs
<1>3. ASSUME NEW k \in Nat, k \in P PROVE k + 1 \in P
  <2> SUFFICES ASSUME k + 1 <= n PROVE up[k + 1] \in S
    OBVIOUS
  <2>1. k + 1 \in 1..n /\ (k + 1) - 1 = k /\ up[k] \in S
    BY <1>1, <1>3
  <2>2. up[k + 1] = NextUp(p, up[k])
    BY <1>1, <2>1 DEF Climbs
  <2> QED
    BY <2>1, <2>2, NoParentAssumption DEF NextUp, ClosedIn
<1> HIDE DEF P
<1>4. Nat \subseteq P
  BY <1>2, <1>3, NatSetInduction
<1>5. \A k \in 0..n : up[k] \in S
  BY <1>1, <1>4 DEF P
<1>6. up[n] # NoParent
  BY <1>1, <1>5, NoParentAssumption
<1>7. PICK i \in 0..n, k \in 0..n : i < k /\ up[i] = up[k] /\ up[k] \in TreeOrders
  BY <1>1, <1>6, ClimbRepeats
<1>8. PICK v \in TreeOrders : v = up[i]
  BY <1>7
<1>m. PICK m \in Nat : \E on : /\ m = Cardinality(TreeOrders) /\ Climbs(on, m, p, v)
                               /\ AboveIn(p, v) = {on[x] : x \in 1..m} \ {NoParent}
  BY ClimbExists
<1>9. PICK on : /\ m = Cardinality(TreeOrders) /\ Climbs(on, m, p, v)
                /\ AboveIn(p, v) = {on[x] : x \in 1..m} \ {NoParent}
  BY <1>m
<1>10. m = n
  BY <1>1, <1>9
<1> DEFINE Q == {x \in Nat : i + x <= n => on[x] = up[i + x]}
<1>11. 0 \in Q
  BY <1>8, <1>9 DEF Climbs
<1>12. ASSUME NEW x \in Nat, x \in Q PROVE x + 1 \in Q
  <2> SUFFICES ASSUME i + (x + 1) <= n PROVE on[x + 1] = up[i + (x + 1)]
    OBVIOUS
  <2>1. /\ x + 1 \in 1..n /\ (x + 1) - 1 = x /\ on[x] = up[i + x]
        /\ i + (x + 1) \in 1..n /\ (i + (x + 1)) - 1 = i + x
    BY <1>1, <1>12
  <2>2. on[x + 1] = NextUp(p, on[x]) /\ up[i + (x + 1)] = NextUp(p, up[i + x])
    BY <1>1, <1>9, <1>10, <2>1 DEF Climbs
  <2> QED
    BY <2>1, <2>2
<1> HIDE DEF Q
<1>13. Nat \subseteq Q
  BY <1>11, <1>12, NatSetInduction
<1>14. k - i \in 1..n /\ k - i \in Nat /\ i + (k - i) = k
  BY <1>1, <1>7
<1>15. on[k - i] = v /\ v # NoParent
  BY <1>7, <1>8, <1>13, <1>14, NoParentAssumption DEF Q
<1>16. v \in AboveIn(p, v)
  BY <1>9, <1>10, <1>14, <1>15
<1> QED
  BY <1>16

UpClosed(p, T) == \A v \in T : p[v] # NoParent => p[v] \in T

\* In a forest the orders above one are its parent, the parent of that, and so on.
LEMMA AboveIsLeast ==
  ASSUME NEW p, IsParents(p), Acyclic(p), NEW w \in TreeOrders
  PROVE  /\ AboveIn(p, w) \in SUBSET TreeOrders /\ w \notin AboveIn(p, w)
         /\ p[w] # NoParent => p[w] \in AboveIn(p, w)
         /\ UpClosed(p, AboveIn(p, w))
         /\ \A T : UpClosed(p, T) /\ (p[w] # NoParent => p[w] \in T) => AboveIn(p, w) \subseteq T
<1>n. PICK n \in Nat : \E up : /\ n = Cardinality(TreeOrders) /\ Climbs(up, n, p, w)
                               /\ AboveIn(p, w) = {up[k] : k \in 1..n} \ {NoParent}
  BY ClimbExists
<1>1. PICK up : /\ n = Cardinality(TreeOrders) /\ Climbs(up, n, p, w)
                /\ AboveIn(p, w) = {up[k] : k \in 1..n} \ {NoParent}
  BY <1>n
<1>2. up[n] = NoParent
  <2> SUFFICES ASSUME up[n] # NoParent PROVE FALSE
    OBVIOUS
  <2>1. PICK i \in 0..n, k \in 0..n : i < k /\ up[i] = up[k] /\ up[k] \in TreeOrders
    BY <1>1, ClimbRepeats
  <2>2. PICK S : S = Round(up, i, k)
    OBVIOUS
  <2>3. S \in SUBSET TreeOrders /\ ClosedIn(p, S) /\ up[k] \in S
    BY <1>1, <2>1, <2>2, RoundIsClosed, NoParentAssumption
  <2> QED
    BY <2>3 DEF Acyclic
<1>3. \A k \in 1..n : /\ k - 1 \in 0..n /\ k \in 0..n
                      /\ up[k] = NextUp(p, up[k - 1]) /\ up[k] \in TreeOrders \cup {NoParent}
  BY <1>1 DEF Climbs
<1>4. AboveIn(p, w) \in SUBSET TreeOrders
  BY <1>1, <1>3
<1>5. w \notin AboveIn(p, w)
  BY CycleIsClosed DEF Acyclic
<1>6. ASSUME p[w] # NoParent PROVE p[w] \in AboveIn(p, w)
  <2>1. n # 0
    BY <1>1, FS_EmptySet, TreeOrdersAssumption
  <2>2. 1 \in 1..n /\ 1 - 1 = 0
    BY <2>1
  <2>3. up[1] = NextUp(p, w)
    BY <1>1, <1>3, <2>2 DEF Climbs
  <2> QED
    BY <1>1, <1>6, <2>2, <2>3, NoParentAssumption DEF NextUp
<1>7. ASSUME NEW v \in AboveIn(p, w), p[v] # NoParent PROVE p[v] \in AboveIn(p, w)
  <2>1. PICK k \in 1..n : up[k] = v /\ v # NoParent
    BY <1>1
  <2>2. k # n
    BY <1>2, <2>1
  <2>3. k + 1 \in 1..n /\ (k + 1) - 1 = k
    BY <2>2
  <2>4. up[k + 1] = p[v]
    BY <1>3, <2>1, <2>3 DEF NextUp
  <2> QED
    BY <1>1, <1>7, <2>3, <2>4
<1>8. ASSUME NEW T, UpClosed(p, T), p[w] # NoParent => p[w] \in T
      PROVE  AboveIn(p, w) \subseteq T
  <2> DEFINE P == {k \in Nat : k + 1 <= n => up[k + 1] \in T \cup {NoParent}}
  <2>1. 0 \in P
    <3> SUFFICES ASSUME 1 <= n PROVE up[1] \in T \cup {NoParent}
      OBVIOUS
    <3>1. 1 \in 1..n /\ 1 - 1 = 0
      OBVIOUS
    <3>2. up[1] = NextUp(p, w)
      BY <1>1, <1>3, <3>1 DEF Climbs
    <3> QED
      BY <1>8, <3>2, NoParentAssumption DEF NextUp
  <2>2. ASSUME NEW k \in Nat, k \in P PROVE k + 1 \in P
    <3> SUFFICES ASSUME (k + 1) + 1 <= n PROVE up[(k + 1) + 1] \in T \cup {NoParent}
      OBVIOUS
    <3>1. /\ (k + 1) + 1 \in 1..n /\ ((k + 1) + 1) - 1 = k + 1
          /\ up[k + 1] \in T \cup {NoParent}
      BY <2>2
    <3>2. up[(k + 1) + 1] = NextUp(p, up[k + 1])
      BY <1>3, <3>1
    <3> QED
      BY <1>8, <3>1, <3>2 DEF NextUp, UpClosed
  <2> HIDE DEF P
  <2>3. Nat \subseteq P
    BY <2>1, <2>2, NatSetInduction
  <2>4. \A k \in 1..n : up[k] \in T \cup {NoParent}
    <3> SUFFICES ASSUME NEW k \in 1..n PROVE up[k] \in T \cup {NoParent}
      OBVIOUS
    <3>1. k - 1 \in Nat /\ (k - 1) + 1 = k
      OBVIOUS
    <3> QED
      BY <2>3, <3>1 DEF P
  <2> QED
    BY <1>1, <2>4
<1> QED
  BY <1>4, <1>5, <1>6, <1>7, <1>8 DEF UpClosed

\* The orders above an order are its parent and those above that.
LEMMA AboveOfParent ==
  ASSUME NEW p, IsParents(p), Acyclic(p), NEW w \in TreeOrders
  PROVE  /\ p[w] = NoParent => AboveIn(p, w) = {}
         /\ p[w] # NoParent => /\ p[w] \in TreeOrders /\ p[w] # w
                               /\ AboveIn(p, w) = {p[w]} \cup AboveIn(p, p[w])
<1>1. ASSUME p[w] = NoParent PROVE AboveIn(p, w) = {}
  <2>1. UpClosed(p, {})
    BY DEF UpClosed
  <2> QED
    BY <1>1, <2>1, AboveIsLeast
<1>2. ASSUME p[w] # NoParent
      PROVE  /\ p[w] \in TreeOrders /\ p[w] # w
             /\ AboveIn(p, w) = {p[w]} \cup AboveIn(p, p[w])
  <2>1. PICK v : v = p[w]
    OBVIOUS
  <2>2. v \in TreeOrders
    BY <1>2, <2>1 DEF IsParents
  <2>3. /\ v \in AboveIn(p, w) /\ UpClosed(p, AboveIn(p, w)) /\ w \notin AboveIn(p, w)
        /\ \A T : UpClosed(p, T) /\ v \in T => AboveIn(p, w) \subseteq T
    BY <1>2, <2>1, AboveIsLeast
  <2>4. /\ p[v] # NoParent => p[v] \in AboveIn(p, v)
        /\ UpClosed(p, AboveIn(p, v))
        /\ \A T : UpClosed(p, T) /\ (p[v] # NoParent => p[v] \in T) => AboveIn(p, v) \subseteq T
    BY <2>2, AboveIsLeast
  <2>5. AboveIn(p, v) \subseteq AboveIn(p, w)
    BY <2>3, <2>4 DEF UpClosed
  <2>6. UpClosed(p, {v} \cup AboveIn(p, v))
    BY <2>4 DEF UpClosed
  <2>7. AboveIn(p, w) \subseteq {v} \cup AboveIn(p, v)
    BY <2>3, <2>6
  <2> QED
    BY <2>1, <2>2, <2>3, <2>5, <2>7
<1> QED
  BY <1>1, <1>2

LEMMA AboveOfAbove ==
  ASSUME NEW p, IsParents(p), Acyclic(p), NEW w \in TreeOrders, NEW v \in AboveIn(p, w)
  PROVE  /\ v \in TreeOrders /\ AboveIn(p, v) \subseteq AboveIn(p, w)
         /\ w \notin AboveIn(p, v) \cup {v}
<1>1. /\ AboveIn(p, w) \in SUBSET TreeOrders /\ w \notin AboveIn(p, w)
      /\ UpClosed(p, AboveIn(p, w))
  BY AboveIsLeast
<1>2. v \in TreeOrders /\ (p[v] # NoParent => p[v] \in AboveIn(p, w))
  BY <1>1 DEF UpClosed
<1>3. AboveIn(p, v) \subseteq AboveIn(p, w)
  BY <1>1, <1>2, AboveIsLeast
<1> QED
  BY <1>1, <1>2, <1>3

\* Every order has one root above it, or is it.
LEMMA RootExists ==
  ASSUME NEW p, IsParents(p), Acyclic(p), NEW w \in TreeOrders
  PROVE  \E u \in AboveIn(p, w) \cup {w} : u \in TreeOrders /\ p[u] = NoParent
<1>1. PICK S : S = AboveIn(p, w) \cup {w}
  OBVIOUS
<1>2. /\ AboveIn(p, w) \in SUBSET TreeOrders
      /\ p[w] # NoParent => p[w] \in AboveIn(p, w)
      /\ UpClosed(p, AboveIn(p, w))
  BY AboveIsLeast
<1>3. S \in SUBSET TreeOrders /\ S # {} /\ UpClosed(p, S)
  BY <1>1, <1>2 DEF UpClosed
<1>4. ~ClosedIn(p, S)
  BY <1>3 DEF Acyclic
<1> QED
  BY <1>1, <1>3, <1>4 DEF ClosedIn, UpClosed

LEMMA RootIsOne ==
  ASSUME NEW p, IsParents(p), Acyclic(p), NEW w \in TreeOrders,
         NEW u \in AboveIn(p, w) \cup {w}, NEW v \in AboveIn(p, w) \cup {w},
         p[u] = NoParent, p[v] = NoParent
  PROVE  u = v
<1>1. PICK A : A = AboveIn(p, w)
  OBVIOUS
<1>2. /\ A \in SUBSET TreeOrders /\ UpClosed(p, A)
      /\ p[w] # NoParent => p[w] \in A
      /\ \A T : UpClosed(p, T) /\ (p[w] # NoParent => p[w] \in T) => A \subseteq T
  BY <1>1, AboveIsLeast
<1>3. PICK T : T = {x \in A \cup {w} : u \in AboveIn(p, x) \cup {x}}
  OBVIOUS
<1>4. ASSUME NEW x \in T, p[x] # NoParent PROVE p[x] \in T
  <2>1. x \in TreeOrders /\ x # u
    BY <1>2, <1>3, <1>4
  <2>2. u \in AboveIn(p, x) /\ p[x] \in A \cup {w}
    BY <1>2, <1>3, <1>4, <2>1 DEF UpClosed
  <2>3. AboveIn(p, x) = {p[x]} \cup AboveIn(p, p[x])
    BY <1>4, <2>1, AboveOfParent
  <2> QED
    BY <1>3, <2>2, <2>3
<1>5. UpClosed(p, T)
  BY <1>4 DEF UpClosed
<1>6. w \in T
  BY <1>1, <1>3
<1>7. A \cup {w} \subseteq T
  BY <1>2, <1>4, <1>5, <1>6
<1>8. v \in T /\ v \in TreeOrders
  BY <1>1, <1>2, <1>7
<1>9. AboveIn(p, v) = {}
  BY <1>8, AboveOfParent
<1> QED
  BY <1>3, <1>8, <1>9

-----------------------------------------------------------------------------
(* Passes over the orders of a tree *)

MaybeTime == Int \cup {NoTime}
Times == [ef : MaybeTime, ls : MaybeTime, critical : BOOLEAN]

LEMMA StoredIsInt ==
  ASSUME NEW t \in MaybeTime, NEW i \in Int
  PROVE  Stored(t, i) \in Int /\ (t \in Int => Stored(t, i) = t)
BY NoTimeAssumption DEF MaybeTime, Stored

\* f sets the value of the k-th order to val of it and the values before.
Sets(f, val, q, n, S) ==
  /\ n \in Nat /\ q \in [1..n -> S]
  /\ \A i, k \in 1..n : i # k => q[i] # q[k]
  /\ \A x \in S : \E i \in 1..n : q[i] = x
  /\ \A x \in S, d \in [S -> MaybeTime] : val[<<x, d>>] \in Int
  /\ \A k \in 1..n, d \in [S -> MaybeTime] :
       f[<<k, d>>] = [d EXCEPT ![q[k]] = val[<<q[k], d>>]]

\* e holds the value of each order by those set before it.
SetInTurn(e, val, q, n, S) ==
  /\ e \in [S -> Int]
  /\ \A k \in 1..n : \E d \in [S -> MaybeTime] :
       e[q[k]] = val[<<q[k], d>>] /\ \A i \in 1..(k - 1) : d[q[i]] = e[q[i]]

LEMMA SetsCanRun ==
  ASSUME NEW f, NEW val, NEW q, NEW n, NEW S, Sets(f, val, q, n, S),
         NEW base \in [S -> MaybeTime]
  PROVE  CanRun(n, [S -> MaybeTime], f, base)
<1>1. ASSUME NEW k \in 1..n, NEW d \in [S -> MaybeTime] PROVE f[<<k, d>>] \in [S -> MaybeTime]
  <2>1. q[k] \in S /\ f[<<k, d>>] = [d EXCEPT ![q[k]] = val[<<q[k], d>>]]
    BY DEF Sets
  <2>2. val[<<q[k], d>>] \in MaybeTime
    BY <2>1 DEF Sets, MaybeTime
  <2> QED
    BY <2>1, <2>2
<1> QED
  BY <1>1 DEF CanRun, Sets

LEMMA PassSetsInTurn ==
  ASSUME NEW f, NEW val, NEW q, NEW n, NEW S, Sets(f, val, q, n, S),
         NEW base \in [S -> MaybeTime], NEW p, RunsUp(p, n, [S -> MaybeTime], f, base)
  PROVE  SetInTurn(p[1..n], val, q, n, S)
<1>1. PICK u : u = [k \in 0..n |-> p[1..k]]
  OBVIOUS
<1>2. /\ n \in Nat
      /\ \A k \in 0..n : u[k] = p[1..k] /\ u[k] \in [S -> MaybeTime]
      /\ \A k \in 1..n : u[k] = f[<<k, u[k - 1]>>]
  <2>1. n \in Nat
    BY DEF Sets
  <2>2. \A k \in 0..n : u[k] = p[1..k] /\ u[k] \in [S -> MaybeTime]
    BY <1>1 DEF RunsUp
  <2>3. \A k \in 1..n : k \in 0..n /\ k - 1 \in 0..n
    BY <2>1
  <2> QED
    BY <2>1, <2>2, <2>3 DEF RunsUp
<1>3. \A k \in 1..n : /\ q[k] \in S /\ k \in 0..n /\ k - 1 \in 0..n
                      /\ u[k][q[k]] = val[<<q[k], u[k - 1]>>]
  <2> SUFFICES ASSUME NEW k \in 1..n
               PROVE  /\ q[k] \in S /\ k \in 0..n /\ k - 1 \in 0..n
                      /\ u[k][q[k]] = val[<<q[k], u[k - 1]>>]
    OBVIOUS
  <2>1. q[k] \in S /\ k \in 0..n /\ k - 1 \in 0..n
    BY <1>2 DEF Sets
  <2>2. PICK d : d = u[k - 1]
    OBVIOUS
  <2>3. d \in [S -> MaybeTime] /\ u[k] = f[<<k, d>>]
    BY <1>2, <2>1, <2>2
  <2>4. u[k] = [d EXCEPT ![q[k]] = val[<<q[k], d>>]]
    BY <2>3 DEF Sets
  <2> QED
    BY <2>1, <2>2, <2>3, <2>4
<1>15. \A k \in 1..n, i \in 0..n : i = k - 1 =>
         \A x \in S : x # q[k] => u[k][x] = u[i][x]
  <2> SUFFICES ASSUME NEW k \in 1..n, NEW i \in 0..n, i = k - 1, NEW x \in S, x # q[k]
               PROVE  u[k][x] = u[i][x]
    OBVIOUS
  <2>1. PICK d : d = u[i]
    OBVIOUS
  <2>2. d \in [S -> MaybeTime] /\ u[k] = f[<<k, d>>]
    BY <1>2, <2>1
  <2>3. u[k] = [d EXCEPT ![q[k]] = val[<<q[k], d>>]]
    BY <2>2 DEF Sets
  <2> QED
    BY <2>1, <2>2, <2>3
<1> DEFINE P == {m \in Nat : m <= n => \A k \in 1..m : u[m][q[k]] = u[k][q[k]]}
<1>4. 0 \in P
  OBVIOUS
<1>5. ASSUME NEW m \in Nat, m \in P PROVE m + 1 \in P
  <2> SUFFICES ASSUME m + 1 <= n, NEW k \in 1..(m + 1)
               PROVE  u[m + 1][q[k]] = u[k][q[k]]
    OBVIOUS
  <2>1. CASE k = m + 1
    BY <2>1
  <2>2. CASE k # m + 1
    <3>1. k \in 1..m /\ k \in 1..n /\ m + 1 \in 1..n /\ (m + 1) - 1 = m
      BY <1>2, <2>2
    <3>2. q[k] # q[m + 1] /\ q[k] \in S
      BY <1>3, <2>2, <3>1 DEF Sets
    <3>3. \A x \in S : x # q[m + 1] => u[m + 1][x] = u[m][x]
      <4>1. m + 1 \in 1..n /\ m \in 0..n /\ m = (m + 1) - 1
        BY <1>2, <3>1
      <4> QED
        BY <1>15, <4>1
    <3>4. u[m + 1][q[k]] = u[m][q[k]]
      BY <3>2, <3>3
    <3>5. m <= n /\ u[m][q[k]] = u[k][q[k]]
      BY <1>2, <1>5, <3>1
    <3> QED
      BY <3>4, <3>5
  <2> QED
    BY <2>1, <2>2
<1> HIDE DEF P
<1>6. Nat \subseteq P
  BY <1>4, <1>5, NatSetInduction
<1>7. \A m \in 0..n : \A k \in 1..m : u[m][q[k]] = u[k][q[k]]
  BY <1>2, <1>6 DEF P
<1>8. n \in 0..n /\ \A k \in 1..n : \A i \in 1..(k - 1) : i \in 1..n
  BY <1>2
<1>9. PICK e : e = u[n]
  OBVIOUS
<1>10. \A k \in 1..n : e[q[k]] = u[k][q[k]]
  BY <1>7, <1>8, <1>9
<1>11. e \in [S -> Int]
  <2>1. e \in [S -> MaybeTime]
    BY <1>2, <1>8, <1>9
  <2>2. ASSUME NEW x \in S PROVE e[x] \in Int
    <3>1. PICK k \in 1..n : q[k] = x
      BY DEF Sets
    <3>2. e[x] = val[<<q[k], u[k - 1]>>]
      BY <1>3, <1>10, <3>1
    <3>3. u[k - 1] \in [S -> MaybeTime] /\ q[k] \in S
      BY <1>2, <1>3, <3>1
    <3> QED
      BY <3>2, <3>3 DEF Sets
  <2> QED
    BY <2>1, <2>2
<1>12. ASSUME NEW k \in 1..n
       PROVE  \E d \in [S -> MaybeTime] :
                e[q[k]] = val[<<q[k], d>>] /\ \A i \in 1..(k - 1) : d[q[i]] = e[q[i]]
  <2>1. PICK d : d = u[k - 1]
    OBVIOUS
  <2>2. d \in [S -> MaybeTime] /\ e[q[k]] = val[<<q[k], d>>] /\ k - 1 \in 0..n
    BY <1>2, <1>3, <1>10, <2>1
  <2>3. \A i \in 1..(k - 1) : d[q[i]] = u[i][q[i]]
    BY <1>7, <2>1, <2>2
  <2>4. \A i \in 1..(k - 1) : d[q[i]] = e[q[i]]
    BY <1>8, <1>10, <2>3
  <2> QED
    BY <2>2, <2>4
<1>13. e = p[1..n]
  BY <1>2, <1>8, <1>9
<1>14. SetInTurn(e, val, q, n, S)
  BY <1>11, <1>12 DEF SetInTurn
<1> QED
  BY <1>13, <1>14

\* The orders below r, with r.
Nodes(p, r) == {w \in TreeOrders : r \in AboveIn(p, w) \cup {w}}

\* What the passes are given: levels l, depths d and the times stored.
Given(S, p, l, d, t) ==
  /\ S \in SUBSET TreeOrders /\ IsFiniteSet(S) /\ IsParents(p)
  /\ l \in [TreeOrders -> Int] /\ d \in [S -> Int]
  /\ \A w \in TreeOrders : t[w] \in Times

Enumerates(q, S) ==
  /\ q \in [1..Cardinality(S) -> S]
  /\ \A i, k \in 1..Cardinality(S) : i # k => q[i] # q[k]
  /\ \A x \in S : \E i \in 1..Cardinality(S) : q[i] = x

LEMMA ListIsEnumeration ==
  ASSUME NEW S, IsFiniteSet(S), NEW R, Orders(R, S)
  PROVE  \E q \in SetToSeqs(S) : \A i, k \in DOMAIN q : i < k => <<q[i], q[k]>> \in R
<1>1. PICK q : Lists(q, S, R)
  BY ListExists
<1>2. q \in SetToSeqs(S) /\ DOMAIN q = 1..Cardinality(S)
  BY <1>1 DEF Lists, SetToSeqs
<1> QED
  BY <1>1, <1>2 DEF Lists

LEMMA SequenceEnumerates ==
  ASSUME NEW S, IsFiniteSet(S), NEW q \in SetToSeqs(S)
  PROVE  Enumerates(q, S) /\ DOMAIN q = 1..Cardinality(S)
<1>1. /\ q \in [1..Cardinality(S) -> S]
      /\ \A i, k \in 1..Cardinality(S) : i # k => q[i] # q[k]
  BY DEF SetToSeqs
<1>2. \A x \in S : \E i \in 1..Cardinality(S) : q[i] = x
  BY <1>1, ListHasAll
<1> QED
  BY <1>1, <1>2 DEF Enumerates

LEMMA QueryEnumerates ==
  ASSUME NEW S, IsFiniteSet(S), NEW d \in [S -> Int]
  PROVE  Enumerates(InQueryOrder(S, d), S)
<1>1. PICK R : R = {x \in S \X S : d[x[1]] <= d[x[2]]}
  OBVIOUS
<1>2. \A x, y \in S : <<x, y>> \in R <=> d[x] <= d[y]
  BY <1>1
<1>3. Orders(R, S)
  BY <1>2 DEF Orders
<1>4. PICK q \in SetToSeqs(S) : \A i, k \in DOMAIN q : i < k => <<q[i], q[k]>> \in R
  BY <1>3, ListIsEnumeration
<1>5. \A i \in DOMAIN q : q[i] \in S
  BY <1>4 DEF SetToSeqs
<1>6. \E s \in SetToSeqs(S) : \A i, k \in DOMAIN s : i < k => d[s[i]] <= d[s[k]]
  BY <1>2, <1>4, <1>5
<1>7. InQueryOrder(S, d) \in SetToSeqs(S)
  BY <1>6 DEF InQueryOrder
<1> QED
  BY <1>7, SequenceEnumerates

\* Whether w has its turn before v, by levels up or down.
TurnOf(l, up, w, v) == IF up THEN l[w] <= l[v] ELSE l[w] >= l[v]

LEMMA LevelsEnumerate ==
  ASSUME NEW S, NEW p, NEW l, NEW d, NEW t, Given(S, p, l, d, t), NEW up \in BOOLEAN,
         NEW q, q = ByLevel(S, l, d, up)
  PROVE  /\ Enumerates(q, S)
         /\ \A i, k \in 1..Cardinality(S) : i < k => TurnOf(l, up, q[i], q[k])
<1>0. /\ IsFiniteSet(S) /\ d \in [S -> Int] /\ S \in SUBSET TreeOrders
      /\ \A x \in S : l[x] \in Int
  BY DEF Given
<1> DEFINE Before(x, y) == \/ IF up THEN l[x] < l[y] ELSE l[x] > l[y]
                           \/ l[x] = l[y] /\ d[x] <= d[y]
<1>1. PICK R : R = {x \in S \X S : Before(x[1], x[2])}
  OBVIOUS
<1>2. \A x, y \in S : <<x, y>> \in R <=> Before(x, y)
  BY <1>1
<1>3. Orders(R, S)
  <2>0. \A x \in S : l[x] \in Int /\ d[x] \in Int
    BY <1>0
  <2>1. \A x, y \in S : Before(x, y) \/ Before(y, x)
    BY <2>0
  <2>2. \A x, y, z \in S : Before(x, y) /\ Before(y, z) => Before(x, z)
    BY <2>0
  <2> HIDE DEF Before
  <2> QED
    BY <1>2, <2>1, <2>2 DEF Orders
<1>4. PICK s \in SetToSeqs(S) : \A i, k \in DOMAIN s : i < k => <<s[i], s[k]>> \in R
  BY <1>0, <1>3, ListIsEnumeration
<1>5. \A i \in DOMAIN s : s[i] \in S
  BY <1>4 DEF SetToSeqs
<1>6. \E r \in SetToSeqs(S) :
        \A i, k \in DOMAIN r : i < k =>
          \/ IF up THEN l[r[i]] < l[r[k]] ELSE l[r[i]] > l[r[k]]
          \/ l[r[i]] = l[r[k]] /\ d[r[i]] <= d[r[k]]
  BY <1>2, <1>4, <1>5
<1>7. q \in SetToSeqs(S) /\ \A i, k \in DOMAIN q : i < k => Before(q[i], q[k])
  <2>1. q = CHOOSE r \in SetToSeqs(S) :
              \A i, k \in DOMAIN r : i < k =>
                \/ IF up THEN l[r[i]] < l[r[k]] ELSE l[r[i]] > l[r[k]]
                \/ l[r[i]] = l[r[k]] /\ d[r[i]] <= d[r[k]]
    BY DEF ByLevel
  <2> QED
    BY <1>6, <2>1
<1>8. Enumerates(q, S) /\ DOMAIN q = 1..Cardinality(S)
  BY <1>0, <1>7, SequenceEnumerates
<1>9. \A x, y \in S : Before(x, y) => TurnOf(l, up, x, y)
  BY <1>0 DEF TurnOf
<1>10. \A i \in 1..Cardinality(S) : q[i] \in S
  BY <1>8 DEF Enumerates
<1> HIDE DEF Before
<1> QED
  BY <1>7, <1>8, <1>9, <1>10

\* e holds the value of each order by those of the levels that come before.
SetByLevel(e, val, S, l, up) ==
  /\ e \in [S -> Int]
  /\ \A w \in S : \E d \in [S -> MaybeTime] :
       e[w] = val[<<w, d>>] /\ \A v \in S : ~TurnOf(l, up, w, v) => d[v] = e[v]

LEMMA TurnsByLevel ==
  ASSUME NEW S, NEW p, NEW l, NEW d, NEW t, Given(S, p, l, d, t), NEW up \in BOOLEAN,
         NEW q, q = ByLevel(S, l, d, up), NEW n, n = Cardinality(S),
         NEW e, NEW val, SetInTurn(e, val, q, n, S)
  PROVE  SetByLevel(e, val, S, l, up)
<1>1. /\ Enumerates(q, S) /\ n \in Nat
      /\ \A i, k \in 1..n : i < k => TurnOf(l, up, q[i], q[k])
  BY LevelsEnumerate, FS_CardinalityType DEF Given
<1>2. ASSUME NEW w \in S
      PROVE  \E f \in [S -> MaybeTime] :
               e[w] = val[<<w, f>>] /\ \A v \in S : ~TurnOf(l, up, w, v) => f[v] = e[v]
  <2>1. PICK k \in 1..n : q[k] = w
    BY <1>1 DEF Enumerates
  <2>2. PICK f \in [S -> MaybeTime] :
          e[q[k]] = val[<<q[k], f>>] /\ \A i \in 1..(k - 1) : f[q[i]] = e[q[i]]
    BY DEF SetInTurn
  <2>3. ASSUME NEW v \in S, ~TurnOf(l, up, w, v) PROVE f[v] = e[v]
    <3>1. PICK i \in 1..n : q[i] = v
      BY <1>1 DEF Enumerates
    <3>2. l[w] \in Int
      BY DEF Given
    <3>3. i # k
      BY <2>1, <2>3, <3>1, <3>2 DEF TurnOf
    <3>4. ~(k < i)
      BY <1>1, <2>1, <2>3, <3>1
    <3>5. i \in 1..(k - 1)
      BY <1>1, <3>3, <3>4
    <3> QED
      BY <2>2, <3>1, <3>5
  <2> QED
    BY <2>1, <2>2, <2>3
<1> QED
  BY <1>2 DEF SetByLevel, SetInTurn

\* The largest and the least of the values of finitely many.
MostOf(e, S) == Max({e[w] : w \in S})

LEMMA MaxOfImage ==
  ASSUME NEW S, IsFiniteSet(S), S # {}, NEW e, \A w \in S : e[w] \in Int,
         NEW m, m = MostOf(e, S)
  PROVE  /\ m \in Int /\ \A w \in S : e[w] <= m
         /\ \E w \in S : m = e[w]
<1>1. PICK R : R = {x \in S \X S : e[x[1]] <= e[x[2]]}
  OBVIOUS
<1>2. \A x, y \in S : <<x, y>> \in R <=> e[x] <= e[y]
  BY <1>1
<1>3. Orders(R, S)
  BY <1>2 DEF Orders
<1>4. PICK x \in S : \A y \in S : <<y, x>> \in R
  BY <1>3, LastExists
<1>5. PICK T : T = {e[w] : w \in S}
  OBVIOUS
<1>6. \E z \in T : \A y \in T : z >= y
  <2>1. \A y \in S : e[y] <= e[x] /\ e[y] \in Int
    BY <1>2, <1>4
  <2>2. e[x] \in T /\ \A y \in T : e[x] >= y
    BY <1>5, <2>1
  <2> QED
    BY <2>2
<1>7. m \in T /\ \A y \in T : m >= y
  BY <1>5, <1>6 DEF Max, MostOf
<1> QED
  BY <1>5, <1>7

LeastOf(end, e, S) == Min({end} \cup {e[w] : w \in S})

LEMMA MinOfImage ==
  ASSUME NEW S, IsFiniteSet(S), NEW e, \A w \in S : e[w] \in Int, NEW end \in Int,
         NEW m, m = LeastOf(end, e, S)
  PROVE  /\ m \in Int /\ m <= end /\ \A w \in S : m <= e[w]
         /\ m = end \/ \E w \in S : m = e[w]
<1>1. PICK R : R = {x \in S \X S : e[x[1]] >= e[x[2]]}
  OBVIOUS
<1>2. \A x, y \in S : <<x, y>> \in R <=> e[x] >= e[y]
  BY <1>1
<1>3. Orders(R, S)
  BY <1>2 DEF Orders
<1>4. PICK T : T = {end} \cup {e[w] : w \in S}
  OBVIOUS
<1>5. \E z \in T : \A y \in T : z =< y
  <2>1. CASE S = {}
    <3>1. T = {end}
      BY <1>4, <2>1
    <3> QED
      BY <3>1
  <2>2. CASE S # {}
    <3>1. PICK x \in S : \A y \in S : <<y, x>> \in R
      BY <1>3, <2>2, LastExists
    <3>2. \A y \in S : e[x] <= e[y]
      BY <1>2, <3>1
    <3>3. CASE e[x] <= end
      BY <1>4, <3>2, <3>3
    <3>4. CASE ~(e[x] <= end)
      BY <1>4, <3>2, <3>4
    <3> QED
      BY <3>3, <3>4
  <2> QED
    BY <2>1, <2>2
<1>6. m \in T /\ \A y \in T : m =< y
  BY <1>4, <1>5 DEF Min, LeastOf
<1> QED
  BY <1>4, <1>6

-----------------------------------------------------------------------------
(* The two passes *)

StartIn(S, p, e, w) == IF p[w] \notin S THEN StartOf[w] ELSE Stored(e[p[w]], StartOf[p[w]])
FinishIn(S, p, e, w, end) ==
  Min({end} \cup {Stored(e[v], end) : v \in {u \in S : p[u] = w}})

ForwardBy(g, S, p, t, q) ==
  g = [s \in SUBSET DOMAIN q |->
         IF s = {} THEN [w \in S |-> t[w].ef]
         ELSE [g[s \ {Max(s)}] EXCEPT ![q[Max(s)]] =
                 StartIn(S, p, g[s \ {Max(s)}], q[Max(s)]) + DurationOf[q[Max(s)]]]]
BackwardBy(g, S, p, t, q, end) ==
  g = [s \in SUBSET DOMAIN q |->
         IF s = {} THEN [w \in S |-> t[w].ls]
         ELSE [g[s \ {Max(s)}] EXCEPT ![q[Max(s)]] =
                 FinishIn(S, p, g[s \ {Max(s)}], q[Max(s)], end) - DurationOf[q[Max(s)]]]]

LEMMA PassFolds ==
  /\ \A S, p, l, d, t :
       ForwardPass(S, p, l, d, t) =
         (CHOOSE g : ForwardBy(g, S, p, t, ByLevel(S, l, d, TRUE)))[DOMAIN ByLevel(S, l, d, TRUE)]
  /\ \A S, p, l, d, t, end :
       BackwardPass(S, p, l, d, t, end) =
         (CHOOSE g : BackwardBy(g, S, p, t, ByLevel(S, l, d, FALSE), end))
           [DOMAIN ByLevel(S, l, d, FALSE)]
<1>1. \A S, p, l, d, t :
       ForwardPass(S, p, l, d, t) =
         (CHOOSE g : ForwardBy(g, S, p, t, ByLevel(S, l, d, TRUE)))[DOMAIN ByLevel(S, l, d, TRUE)]
  BY DEF ForwardPass, ForwardBy, StartIn, FoldLeft, MapThenFoldSet
<1>2. \A S, p, l, d, t, end :
       BackwardPass(S, p, l, d, t, end) =
         (CHOOSE g : BackwardBy(g, S, p, t, ByLevel(S, l, d, FALSE), end))
           [DOMAIN ByLevel(S, l, d, FALSE)]
  BY DEF BackwardPass, BackwardBy, FinishIn, FoldLeft, MapThenFoldSet
<1> QED
  BY <1>1, <1>2

\* The value an order gets in the passes.
StartTimes(S, p) ==
  [x \in S \X [S -> MaybeTime] |-> StartIn(S, p, x[2], x[1]) + DurationOf[x[1]]]
FinishTimes(S, p, end) ==
  [x \in S \X [S -> MaybeTime] |-> FinishIn(S, p, x[2], x[1], end) - DurationOf[x[1]]]

LEMMA StartsAreInt ==
  ASSUME NEW S \in SUBSET TreeOrders, NEW p, IsParents(p),
         NEW x \in S, NEW e \in [S -> MaybeTime]
  PROVE  /\ StartTimes(S, p)[<<x, e>>] = StartIn(S, p, e, x) + DurationOf[x]
         /\ StartTimes(S, p)[<<x, e>>] \in Int
<1>1. StartTimes(S, p)[<<x, e>>] = StartIn(S, p, e, x) + DurationOf[x]
  BY DEF StartTimes
<1>2. DurationOf[x] \in Int /\ StartOf[x] \in Int /\ (p[x] \in S => StartOf[p[x]] \in Int)
  BY TimesAssumption
<1>3. StartIn(S, p, e, x) \in Int
  <2>1. CASE p[x] \in S
    <3>1. PICK y, i : y = e[p[x]] /\ i = StartOf[p[x]]
      OBVIOUS
    <3>2. y \in MaybeTime /\ i \in Int
      BY <1>2, <2>1, <3>1
    <3> QED
      BY <2>1, <3>1, <3>2, StoredIsInt DEF StartIn
  <2>2. CASE p[x] \notin S
    BY <1>2, <2>2 DEF StartIn
  <2> QED
    BY <2>1, <2>2
<1> QED
  BY <1>1, <1>2, <1>3

LEMMA FinishesAreInt ==
  ASSUME NEW S \in SUBSET TreeOrders, IsFiniteSet(S), NEW p, NEW end \in Int,
         NEW x \in S, NEW e \in [S -> MaybeTime]
  PROVE  /\ FinishTimes(S, p, end)[<<x, e>>] = FinishIn(S, p, e, x, end) - DurationOf[x]
         /\ FinishTimes(S, p, end)[<<x, e>>] \in Int
         /\ FinishIn(S, p, e, x, end) \in Int /\ FinishIn(S, p, e, x, end) <= end
         /\ \A v \in S : p[v] = x /\ e[v] \in Int => FinishIn(S, p, e, x, end) <= e[v]
         /\ \/ FinishIn(S, p, e, x, end) = end
            \/ \E v \in S : p[v] = x /\ FinishIn(S, p, e, x, end) = Stored(e[v], end)
<1>1. FinishTimes(S, p, end)[<<x, e>>] = FinishIn(S, p, e, x, end) - DurationOf[x]
  BY DEF FinishTimes
<1>2. DurationOf[x] \in Int
  BY TimesAssumption
<1>3. PICK T : T = {u \in S : p[u] = x}
  OBVIOUS
<1>4. T \in SUBSET S /\ IsFiniteSet(T)
  BY <1>3, FS_Subset
<1>5. PICK h : h = [v \in T |-> Stored(e[v], end)]
  OBVIOUS
<1>6. \A v \in T : h[v] = Stored(e[v], end) /\ h[v] \in Int /\ (e[v] \in Int => h[v] = e[v])
  <2> SUFFICES ASSUME NEW v \in T
               PROVE  h[v] = Stored(e[v], end) /\ h[v] \in Int /\ (e[v] \in Int => h[v] = e[v])
    OBVIOUS
  <2>1. e[v] \in MaybeTime
    BY <1>4
  <2>2. Stored(e[v], end) \in Int /\ (e[v] \in Int => Stored(e[v], end) = e[v])
    BY <2>1, StoredIsInt
  <2> QED
    BY <1>5, <2>2
<1>7. PICK m : m = FinishIn(S, p, e, x, end)
  OBVIOUS
<1>8. m = LeastOf(end, h, T)
  <2>1. {Stored(e[v], end) : v \in T} = {h[v] : v \in T}
    BY <1>6
  <2> QED
    BY <1>3, <1>7, <2>1 DEF FinishIn, LeastOf
<1>9. /\ m \in Int /\ m <= end /\ \A w \in T : m <= h[w]
      /\ m = end \/ \E w \in T : m = h[w]
  <2>1. IsFiniteSet(T) /\ \A w \in T : h[w] \in Int
    BY <1>4, <1>6
  <2> QED
    BY <1>8, <2>1, MinOfImage
<1> QED
  BY <1>1, <1>2, <1>3, <1>6, <1>7, <1>9

LEMMA ForwardIsSet ==
  ASSUME NEW S, NEW p, NEW l, NEW d, NEW t, Given(S, p, l, d, t)
  PROVE  SetByLevel(ForwardPass(S, p, l, d, t), StartTimes(S, p), S, l, TRUE)
<1>0. /\ S \in SUBSET TreeOrders /\ IsFiniteSet(S) /\ IsParents(p)
      /\ \A w \in S : t[w].ef \in MaybeTime
  BY DEF Given, Times
<1>1. PICK q, n, V : /\ q = ByLevel(S, l, d, TRUE) /\ n = Cardinality(S)
                     /\ V = [S -> MaybeTime]
  OBVIOUS
<1>2. Enumerates(q, S) /\ DOMAIN q = 1..n /\ n \in Nat
  <2>1. Enumerates(q, S)
    BY <1>1, LevelsEnumerate
  <2> QED
    BY <1>0, <1>1, <2>1, FS_CardinalityType DEF Enumerates
<1>3. /\ \A k \in 1..n : q[k] \in S
      /\ \A i, k \in 1..n : i # k => q[i] # q[k]
      /\ \A x \in S : \E i \in 1..n : q[i] = x
      /\ q \in [1..n -> S]
  BY <1>1, <1>2 DEF Enumerates
<1>4. PICK val : val = StartTimes(S, p)
  OBVIOUS
<1>5. \A x \in S, e \in V : /\ val[<<x, e>>] = StartIn(S, p, e, x) + DurationOf[x]
                            /\ val[<<x, e>>] \in Int
  BY <1>0, <1>1, <1>4, StartsAreInt
<1>6. PICK base : base = [w \in S |-> t[w].ef]
  OBVIOUS
<1>7. base \in V
  BY <1>0, <1>1, <1>6
<1>8. PICK f : f = [x \in (1..n) \X V |-> [x[2] EXCEPT ![q[x[1]]] = val[<<q[x[1]], x[2]>>]]]
  OBVIOUS
<1>9. \A k \in 1..n, e \in V : f[<<k, e>>] = [e EXCEPT ![q[k]] = val[<<q[k], e>>]]
  BY <1>8
<1>10. Sets(f, val, q, n, S)
  <2>1. \A x \in S, e \in [S -> MaybeTime] : val[<<x, e>>] \in Int
    BY <1>1, <1>5
  <2>2. \A k \in 1..n, e \in [S -> MaybeTime] :
          f[<<k, e>>] = [e EXCEPT ![q[k]] = val[<<q[k], e>>]]
    BY <1>1, <1>9
  <2> QED
    BY <1>2, <1>3, <2>1, <2>2 DEF Sets
<1>11. CanRun(n, V, f, base)
  BY <1>1, <1>7, <1>10, SetsCanRun
<1>12. PICK g : RunsOver(g, n, V, f, base)
  BY <1>11, RunExists
<1>13. ForwardBy(g, S, p, t, q)
  <2>1. \A s \in SUBSET (1..n) : g[s] = IF s = {} THEN base
          ELSE [g[s \ {Max(s)}] EXCEPT ![q[Max(s)]] =
                  StartIn(S, p, g[s \ {Max(s)}], q[Max(s)]) + DurationOf[q[Max(s)]]]
    <3> SUFFICES ASSUME NEW s \in SUBSET (1..n), s # {}
                 PROVE  g[s] = [g[s \ {Max(s)}] EXCEPT ![q[Max(s)]] =
                            StartIn(S, p, g[s \ {Max(s)}], q[Max(s)]) + DurationOf[q[Max(s)]]]
      BY <1>12 DEF RunsOver
    <3>1. PICK k, e : k = Max(s) /\ e = g[s \ {Max(s)}]
      OBVIOUS
    <3>2. k \in 1..n /\ e \in V /\ g[s] = f[<<k, e>>]
      BY <1>12, <3>1 DEF RunsOver
    <3>3. g[s] = [e EXCEPT ![q[k]] = val[<<q[k], e>>]]
      BY <1>9, <3>2
    <3>4. val[<<q[k], e>>] = StartIn(S, p, e, q[k]) + DurationOf[q[k]]
      BY <1>3, <1>5, <3>2
    <3> QED
      BY <3>1, <3>3, <3>4
  <2>2. g = [s \in SUBSET (1..n) |-> g[s]]
    BY <1>12 DEF RunsOver
  <2>3. g = [s \in SUBSET (1..n) |-> IF s = {} THEN base
          ELSE [g[s \ {Max(s)}] EXCEPT ![q[Max(s)]] =
                  StartIn(S, p, g[s \ {Max(s)}], q[Max(s)]) + DurationOf[q[Max(s)]]]]
    BY <2>1, <2>2
  <2> QED
    BY <1>2, <1>6, <2>3 DEF ForwardBy
<1>14. PICK r : r = CHOOSE h : ForwardBy(h, S, p, t, q)
  OBVIOUS
<1>15. ForwardBy(r, S, p, t, q)
  BY <1>13, <1>14
<1>16. \A s \in SUBSET (1..n) : r[s] = IF s = {} THEN base
          ELSE [r[s \ {Max(s)}] EXCEPT ![q[Max(s)]] =
                  StartIn(S, p, r[s \ {Max(s)}], q[Max(s)]) + DurationOf[q[Max(s)]]]
  BY <1>2, <1>6, <1>15 DEF ForwardBy
<1>17. r[1..0] = base
  <2>1. 1..0 = {} /\ {} \in SUBSET (1..n)
    OBVIOUS
  <2> QED
    BY <1>16, <2>1
<1>18. ASSUME NEW k \in 1..n, r[1..(k - 1)] \in V PROVE r[1..k] = f[<<k, r[1..(k - 1)]>>]
  <2>1. PICK s, e : s = 1..k /\ e = r[1..(k - 1)]
    OBVIOUS
  <2>2. s \in SUBSET (1..n) /\ s # {} /\ Max(s) = k /\ s \ {k} = 1..(k - 1)
    BY <1>2, <2>1, PrefixIsLess
  <2>3. r[s] = [e EXCEPT ![q[k]] = StartIn(S, p, e, q[k]) + DurationOf[q[k]]]
    BY <1>16, <2>1, <2>2
  <2>4. val[<<q[k], e>>] = StartIn(S, p, e, q[k]) + DurationOf[q[k]]
    BY <1>3, <1>5, <1>18, <2>1
  <2>5. f[<<k, e>>] = [e EXCEPT ![q[k]] = val[<<q[k], e>>]]
    BY <1>9, <1>18, <2>1
  <2> QED
    BY <2>1, <2>3, <2>4, <2>5
<1>19. StepsLike(r, n, V, f, base)
  BY <1>17, <1>18 DEF StepsLike
<1>20. RunsUp(r, n, V, f, base)
  BY <1>11, <1>19, RunFollows
<1>21. SetInTurn(r[1..n], val, q, n, S)
  BY <1>1, <1>7, <1>10, <1>20, PassSetsInTurn
<1>22. ForwardPass(S, p, l, d, t) = r[1..n]
  BY <1>1, <1>2, <1>14, PassFolds
<1>23. PICK e : e = r[1..n]
  OBVIOUS
<1>24. SetByLevel(e, val, S, l, TRUE)
  BY <1>1, <1>21, <1>23, TurnsByLevel
<1> QED
  BY <1>4, <1>22, <1>23, <1>24

LEMMA BackwardIsSet ==
  ASSUME NEW S, NEW p, NEW l, NEW d, NEW t, Given(S, p, l, d, t), NEW end \in Int
  PROVE  SetByLevel(BackwardPass(S, p, l, d, t, end), FinishTimes(S, p, end), S, l, FALSE)
<1>0. /\ S \in SUBSET TreeOrders /\ IsFiniteSet(S) /\ IsParents(p)
      /\ \A w \in S : t[w].ls \in MaybeTime
  BY DEF Given, Times
<1>1. PICK q, n, V : /\ q = ByLevel(S, l, d, FALSE) /\ n = Cardinality(S)
                     /\ V = [S -> MaybeTime]
  OBVIOUS
<1>2. Enumerates(q, S) /\ DOMAIN q = 1..n /\ n \in Nat
  <2>1. Enumerates(q, S)
    BY <1>1, LevelsEnumerate
  <2> QED
    BY <1>0, <1>1, <2>1, FS_CardinalityType DEF Enumerates
<1>3. /\ \A k \in 1..n : q[k] \in S
      /\ \A i, k \in 1..n : i # k => q[i] # q[k]
      /\ \A x \in S : \E i \in 1..n : q[i] = x
      /\ q \in [1..n -> S]
  BY <1>1, <1>2 DEF Enumerates
<1>4. PICK val : val = FinishTimes(S, p, end)
  OBVIOUS
<1>5. \A x \in S, e \in V : /\ val[<<x, e>>] = FinishIn(S, p, e, x, end) - DurationOf[x]
                            /\ val[<<x, e>>] \in Int
  <2> SUFFICES ASSUME NEW x \in S, NEW e \in V
               PROVE  /\ val[<<x, e>>] = FinishIn(S, p, e, x, end) - DurationOf[x]
                      /\ val[<<x, e>>] \in Int
    OBVIOUS
  <2>1. e \in [S -> MaybeTime]
    BY <1>1
  <2>2. /\ FinishTimes(S, p, end)[<<x, e>>] = FinishIn(S, p, e, x, end) - DurationOf[x]
        /\ FinishTimes(S, p, end)[<<x, e>>] \in Int
    BY <1>0, <2>1, FinishesAreInt
  <2> QED
    BY <1>4, <2>2
<1>6. PICK base : base = [w \in S |-> t[w].ls]
  OBVIOUS
<1>7. base \in V
  BY <1>0, <1>1, <1>6
<1>8. PICK f : f = [x \in (1..n) \X V |-> [x[2] EXCEPT ![q[x[1]]] = val[<<q[x[1]], x[2]>>]]]
  OBVIOUS
<1>9. \A k \in 1..n, e \in V : f[<<k, e>>] = [e EXCEPT ![q[k]] = val[<<q[k], e>>]]
  BY <1>8
<1>10. Sets(f, val, q, n, S)
  <2>1. \A x \in S, e \in [S -> MaybeTime] : val[<<x, e>>] \in Int
    BY <1>1, <1>5
  <2>2. \A k \in 1..n, e \in [S -> MaybeTime] :
          f[<<k, e>>] = [e EXCEPT ![q[k]] = val[<<q[k], e>>]]
    BY <1>1, <1>9
  <2> QED
    BY <1>2, <1>3, <2>1, <2>2 DEF Sets
<1>11. CanRun(n, V, f, base)
  BY <1>1, <1>7, <1>10, SetsCanRun
<1>12. PICK g : RunsOver(g, n, V, f, base)
  BY <1>11, RunExists
<1>13. BackwardBy(g, S, p, t, q, end)
  <2>1. \A s \in SUBSET (1..n) : g[s] = IF s = {} THEN base
          ELSE [g[s \ {Max(s)}] EXCEPT ![q[Max(s)]] =
                  FinishIn(S, p, g[s \ {Max(s)}], q[Max(s)], end) - DurationOf[q[Max(s)]]]
    <3> SUFFICES ASSUME NEW s \in SUBSET (1..n), s # {}
                 PROVE  g[s] = [g[s \ {Max(s)}] EXCEPT ![q[Max(s)]] =
                            FinishIn(S, p, g[s \ {Max(s)}], q[Max(s)], end) - DurationOf[q[Max(s)]]]
      BY <1>12 DEF RunsOver
    <3>1. PICK k, e : k = Max(s) /\ e = g[s \ {Max(s)}]
      OBVIOUS
    <3>2. k \in 1..n /\ e \in V /\ g[s] = f[<<k, e>>]
      BY <1>12, <3>1 DEF RunsOver
    <3>3. g[s] = [e EXCEPT ![q[k]] = val[<<q[k], e>>]]
      BY <1>9, <3>2
    <3>4. val[<<q[k], e>>] = FinishIn(S, p, e, q[k], end) - DurationOf[q[k]]
      BY <1>3, <1>5, <3>2
    <3> QED
      BY <3>1, <3>3, <3>4
  <2>2. g = [s \in SUBSET (1..n) |-> g[s]]
    BY <1>12 DEF RunsOver
  <2>3. g = [s \in SUBSET (1..n) |-> IF s = {} THEN base
          ELSE [g[s \ {Max(s)}] EXCEPT ![q[Max(s)]] =
                  FinishIn(S, p, g[s \ {Max(s)}], q[Max(s)], end) - DurationOf[q[Max(s)]]]]
    BY <2>1, <2>2
  <2> QED
    BY <1>2, <1>6, <2>3 DEF BackwardBy
<1>14. PICK r : r = CHOOSE h : BackwardBy(h, S, p, t, q, end)
  OBVIOUS
<1>15. BackwardBy(r, S, p, t, q, end)
  BY <1>13, <1>14
<1>16. \A s \in SUBSET (1..n) : r[s] = IF s = {} THEN base
          ELSE [r[s \ {Max(s)}] EXCEPT ![q[Max(s)]] =
                  FinishIn(S, p, r[s \ {Max(s)}], q[Max(s)], end) - DurationOf[q[Max(s)]]]
  BY <1>2, <1>6, <1>15 DEF BackwardBy
<1>17. r[1..0] = base
  <2>1. 1..0 = {} /\ {} \in SUBSET (1..n)
    OBVIOUS
  <2> QED
    BY <1>16, <2>1
<1>18. ASSUME NEW k \in 1..n, r[1..(k - 1)] \in V PROVE r[1..k] = f[<<k, r[1..(k - 1)]>>]
  <2>1. PICK s, e : s = 1..k /\ e = r[1..(k - 1)]
    OBVIOUS
  <2>2. s \in SUBSET (1..n) /\ s # {} /\ Max(s) = k /\ s \ {k} = 1..(k - 1)
    BY <1>2, <2>1, PrefixIsLess
  <2>3. r[s] = [e EXCEPT ![q[k]] = FinishIn(S, p, e, q[k], end) - DurationOf[q[k]]]
    BY <1>16, <2>1, <2>2
  <2>4. val[<<q[k], e>>] = FinishIn(S, p, e, q[k], end) - DurationOf[q[k]]
    BY <1>3, <1>5, <1>18, <2>1
  <2>5. f[<<k, e>>] = [e EXCEPT ![q[k]] = val[<<q[k], e>>]]
    BY <1>9, <1>18, <2>1
  <2> QED
    BY <2>1, <2>3, <2>4, <2>5
<1>19. StepsLike(r, n, V, f, base)
  BY <1>17, <1>18 DEF StepsLike
<1>20. RunsUp(r, n, V, f, base)
  BY <1>11, <1>19, RunFollows
<1>21. SetInTurn(r[1..n], val, q, n, S)
  BY <1>1, <1>7, <1>10, <1>20, PassSetsInTurn
<1>22. BackwardPass(S, p, l, d, t, end) = r[1..n]
  BY <1>1, <1>2, <1>14, PassFolds
<1>23. PICK e : e = r[1..n]
  OBVIOUS
<1>24. SetByLevel(e, val, S, l, FALSE)
  BY <1>1, <1>21, <1>23, TurnsByLevel
<1> QED
  BY <1>4, <1>22, <1>23, <1>24

-----------------------------------------------------------------------------
(* The orders without slack are those of the longest paths *)

\* Levels that count from the root.
Ranked(p, l) ==
  /\ IsParents(p) /\ Acyclic(p) /\ l \in [TreeOrders -> Int]
  /\ \A w \in TreeOrders : p[w] # NoParent => l[w] = l[p[w]] + 1

LEMMA SomeIsLowest ==
  ASSUME NEW p, NEW l, Ranked(p, l), NEW T \in SUBSET TreeOrders,
         \A w \in T : \E v \in T : p[v] = w
  PROVE  T = {}
<1> SUFFICES ASSUME T # {} PROVE FALSE
  OBVIOUS
<1>1. IsFiniteSet(T)
  BY FS_Subset, TreeOrdersAssumption
<1>2. PICK R : R = {x \in T \X T : l[x[1]] <= l[x[2]]}
  OBVIOUS
<1>3. (\A x, y \in T : <<x, y>> \in R <=> l[x] <= l[y]) /\ \A x \in T : l[x] \in Int
  BY <1>2 DEF Ranked
<1>4. Orders(R, T)
  BY <1>3 DEF Orders
<1>5. PICK w \in T : \A y \in T : <<y, w>> \in R
  BY <1>1, <1>4, LastExists
<1>6. PICK v \in T : p[v] = w
  OBVIOUS
<1>7. l[v] = l[w] + 1
  BY <1>6, NoParentAssumption DEF Ranked
<1>8. <<v, w>> \in R /\ l[w] \in Int
  BY <1>3, <1>5
<1>9. l[v] <= l[w]
  BY <1>3, <1>8
<1> QED
  BY <1>7, <1>8, <1>9

PathIn(p, r, w) ==
  SumFunctionOnSet(DurationOf, {v \in AboveIn(p, w) \cup {w} : r \in AboveIn(p, v) \cup {v}})

LongestIn(p, r, w) ==
  \E v \in Nodes(p, r) : /\ w \in AboveIn(p, v) \cup {v}
                         /\ \A u \in Nodes(p, r) : PathIn(p, r, u) <= PathIn(p, r, v)

LEMMA LongestIsOn == \A r, w : OnLongest(r, w) <=> LongestIn(parent, r, w)
BY DEF OnLongest, LongestIn, PathTo, PathIn, Nodes

\* A tree holds what is below its orders, and the parents but of its root.
LEMMA NodesAreTree ==
  ASSUME NEW p, IsParents(p), Acyclic(p), NEW r \in TreeOrders, NEW S, S = Nodes(p, r)
  PROVE  /\ S \in SUBSET TreeOrders /\ r \in S /\ p[r] \notin S /\ IsFiniteSet(S)
         /\ \A w \in S : w # r => p[w] \in S
         /\ \A w \in TreeOrders : p[w] \in S => w \in S
<1>1. S \in SUBSET TreeOrders /\ r \in S /\ IsFiniteSet(S)
  <2>1. S \in SUBSET TreeOrders /\ r \in S
    BY DEF Nodes
  <2> QED
    BY <2>1, FS_Subset, TreeOrdersAssumption
<1>2. p[r] \notin S
  <2> SUFFICES ASSUME p[r] \in S PROVE FALSE
    OBVIOUS
  <2>1. p[r] # NoParent /\ p[r] \in AboveIn(p, r)
    BY <1>1, NoParentAssumption, AboveIsLeast
  <2>2. r \notin AboveIn(p, p[r]) \cup {p[r]}
    BY <2>1, AboveOfAbove
  <2> QED
    BY <2>2 DEF Nodes
<1>3. ASSUME NEW w \in S, w # r PROVE p[w] \in S
  <2>1. w \in TreeOrders /\ r \in AboveIn(p, w)
    BY <1>3 DEF Nodes
  <2>2. p[w] # NoParent
    BY <2>1, AboveOfParent
  <2>3. p[w] \in TreeOrders /\ AboveIn(p, w) = {p[w]} \cup AboveIn(p, p[w])
    BY <2>1, <2>2, AboveOfParent
  <2> QED
    BY <2>1, <2>3 DEF Nodes
<1>4. ASSUME NEW w \in TreeOrders, p[w] \in S PROVE w \in S
  <2>1. p[w] # NoParent /\ r \in AboveIn(p, p[w]) \cup {p[w]}
    BY <1>1, <1>4, NoParentAssumption DEF Nodes
  <2>2. AboveIn(p, w) = {p[w]} \cup AboveIn(p, p[w])
    BY <2>1, AboveOfParent
  <2> QED
    BY <2>1, <2>2 DEF Nodes
<1> QED
  BY <1>1, <1>2, <1>3, <1>4

LEMMA PathGrows ==
  ASSUME NEW p, IsParents(p), Acyclic(p), NEW r \in TreeOrders,
         NEW w \in Nodes(p, r)
  PROVE  /\ PathIn(p, r, w) \in Int
         /\ w = r => PathIn(p, r, w) = DurationOf[w]
         /\ w # r => PathIn(p, r, w) = DurationOf[w] + PathIn(p, r, p[w])
<1>1. PICK A : A = {v \in AboveIn(p, w) \cup {w} : r \in AboveIn(p, v) \cup {v}}
  OBVIOUS
<1>2. w \in TreeOrders /\ r \in AboveIn(p, w) \cup {w} /\ AboveIn(p, w) \in SUBSET TreeOrders
  BY AboveIsLeast DEF Nodes
<1>3. PathIn(p, r, w) = SumFunctionOnSet(DurationOf, A)
  BY <1>1 DEF PathIn
<1>4. A \in SUBSET TreeOrders /\ IsFiniteSet(A)
  <2>1. A \in SUBSET TreeOrders
    BY <1>1, <1>2
  <2> QED
    BY <2>1, FS_Subset, TreeOrdersAssumption
<1>5. (\A x \in A : DurationOf[x] \in Int) /\ DurationOf[w] \in Int
  BY <1>2, <1>4, TimesAssumption
<1>6. PathIn(p, r, w) \in Int
  BY <1>3, <1>4, <1>5, SumIsInt
<1>7. ASSUME w = r PROVE PathIn(p, r, w) = DurationOf[w]
  <2>1. \A v \in AboveIn(p, w) : r \notin AboveIn(p, v) \cup {v}
    BY <1>2, <1>7, AboveOfAbove
  <2>2. A = {} \cup {w}
    BY <1>1, <1>2, <2>1
  <2>3. SumFunctionOnSet(DurationOf, {} \cup {w}) = DurationOf[w] + SumFunctionOnSet(DurationOf, {})
    BY <1>5, FS_EmptySet, SumOfMore
  <2> QED
    BY <1>3, <1>5, <2>2, <2>3, SumOfNone
<1>8. ASSUME w # r PROVE PathIn(p, r, w) = DurationOf[w] + PathIn(p, r, p[w])
  <2>0. PICK S : S = Nodes(p, r)
    OBVIOUS
  <2>1. p[w] \in Nodes(p, r) /\ p[w] # NoParent
    <3>1. S \in SUBSET TreeOrders /\ p[w] \in S
      BY <1>8, <2>0, NodesAreTree
    <3> QED
      BY <2>0, <3>1, NoParentAssumption
  <2>2. AboveIn(p, w) = {p[w]} \cup AboveIn(p, p[w])
    BY <1>2, <2>1, AboveOfParent
  <2>3. PICK B : B = {v \in AboveIn(p, p[w]) \cup {p[w]} : r \in AboveIn(p, v) \cup {v}}
    OBVIOUS
  <2>4. A = B \cup {w}
    BY <1>1, <1>2, <2>2, <2>3
  <2>5. w \notin B
    BY <1>2, <2>2, <2>3, AboveIsLeast
  <2>6. IsFiniteSet(B) /\ \A x \in B : DurationOf[x] \in Int
    BY <1>4, <1>5, <2>4, FS_Subset
  <2>7. SumFunctionOnSet(DurationOf, B \cup {w}) = DurationOf[w] + SumFunctionOnSet(DurationOf, B)
    BY <1>5, <2>5, <2>6, SumOfMore
  <2>8. PathIn(p, r, p[w]) = SumFunctionOnSet(DurationOf, B)
    BY <2>3 DEF PathIn
  <2> QED
    BY <1>3, <2>4, <2>7, <2>8
<1> QED
  BY <1>6, <1>7, <1>8

\* What the passes leave in a tree whose levels count.
Passed(S, p, ef, ls, end) ==
  /\ ef \in [S -> Int] /\ ls \in [S -> Int] /\ end \in Int
  /\ \A w \in S : ef[w] = (IF p[w] \in S THEN ef[p[w]] ELSE StartOf[w]) + DurationOf[w]
  /\ (\A w \in S : ef[w] <= end) /\ \E w \in S : ef[w] = end
  /\ \A w \in S : ls[w] + DurationOf[w] <= end
  /\ \A v \in S : p[v] \in S => ls[p[v]] + DurationOf[p[v]] <= ls[v]
  /\ \A w \in S : \/ ls[w] + DurationOf[w] = end
                  \/ \E v \in S : p[v] = w /\ ls[w] + DurationOf[w] = ls[v]
NoSlack(ef, ls, w) == ls[w] <= ef[w] - DurationOf[w]

\* An order ends as late as its path is long.
LEMMA EndsByPath ==
  ASSUME NEW p, IsParents(p), Acyclic(p), NEW r \in TreeOrders, NEW S, S = Nodes(p, r),
         NEW ef, NEW ls, NEW end, Passed(S, p, ef, ls, end)
  PROVE  \A w \in S : ef[w] = StartOf[r] + PathIn(p, r, w)
<1>1. /\ S \in SUBSET TreeOrders /\ r \in S /\ p[r] \notin S
      /\ \A w \in S : w # r => p[w] \in S
  BY NodesAreTree
<1>2. StartOf[r] \in Int /\ \A w \in S : DurationOf[w] \in Int /\ PathIn(p, r, w) \in Int
  BY <1>1, TimesAssumption, PathGrows
<1>3. PICK T : T = {w \in S : ef[w] # StartOf[r] + PathIn(p, r, w)}
  OBVIOUS
<1>4. ASSUME NEW w \in T PROVE p[w] \in T
  <2>1. w \in S /\ ef[w] # StartOf[r] + PathIn(p, r, w)
    BY <1>3
  <2>2. w # r
    <3> SUFFICES ASSUME w = r PROVE FALSE
      OBVIOUS
    <3>1. ef[r] = StartOf[r] + DurationOf[r]
      BY <1>1 DEF Passed
    <3>2. PathIn(p, r, r) = DurationOf[r]
      BY <1>1, PathGrows
    <3> QED
      BY <2>1, <3>1, <3>2
  <2>3. p[w] \in S
    BY <1>1, <2>1, <2>2
  <2>4. ef[w] = ef[p[w]] + DurationOf[w]
    BY <2>1, <2>3 DEF Passed
  <2>5. PathIn(p, r, w) = DurationOf[w] + PathIn(p, r, p[w])
    BY <2>1, <2>2, PathGrows
  <2>6. ef[p[w]] # StartOf[r] + PathIn(p, r, p[w])
    BY <1>2, <2>1, <2>3, <2>4, <2>5
  <2> QED
    BY <1>3, <2>3, <2>6
<1>5. T = {}
  BY <1>1, <1>3, <1>4 DEF ClosedIn, Acyclic
<1> QED
  BY <1>3, <1>5

\* What has no slack lies on a longest path.
LEMMA NoSlackIsLongest ==
  ASSUME NEW p, NEW l, Ranked(p, l), NEW r \in TreeOrders, NEW S, S = Nodes(p, r),
         NEW ef, NEW ls, NEW end, Passed(S, p, ef, ls, end)
  PROVE  \A w \in S : NoSlack(ef, ls, w) <=> LongestIn(p, r, w)
<1>1. /\ IsParents(p) /\ Acyclic(p) /\ S \in SUBSET TreeOrders /\ r \in S
      /\ \A w \in TreeOrders : p[w] \in S => w \in S
  BY NodesAreTree DEF Ranked
<1>2. \A w \in S : /\ w \in TreeOrders /\ w # NoParent
                   /\ ef[w] \in Int /\ ls[w] \in Int /\ DurationOf[w] \in Int
  BY <1>1, TimesAssumption, NoParentAssumption DEF Passed
<1>3. end \in Int /\ \A w \in S : ef[w] <= end
  BY DEF Passed
<1>4. ASSUME NEW v \in S, p[v] \in S PROVE ef[v] = ef[p[v]] + DurationOf[v]
  BY <1>4 DEF Passed
<1>5. ASSUME NEW w \in S
      PROVE  NoSlack(ef, ls, w) <=> \/ ef[w] = end
                                    \/ \E v \in S : p[v] = w /\ NoSlack(ef, ls, v)
  <2>1. ASSUME NoSlack(ef, ls, w), ls[w] + DurationOf[w] = end PROVE ef[w] = end
    BY <1>2, <1>3, <2>1 DEF NoSlack
  <2>2. ASSUME NoSlack(ef, ls, w), NEW v \in S, p[v] = w, ls[w] + DurationOf[w] = ls[v]
        PROVE  NoSlack(ef, ls, v)
    BY <1>2, <1>4, <2>2 DEF NoSlack
  <2>3. ASSUME ef[w] = end PROVE NoSlack(ef, ls, w)
    <3>1. ls[w] + DurationOf[w] <= end
      BY DEF Passed
    <3> QED
      BY <1>2, <1>3, <2>3, <3>1 DEF NoSlack
  <2>4. ASSUME NEW v \in S, p[v] = w, NoSlack(ef, ls, v) PROVE NoSlack(ef, ls, w)
    <3>1. ls[w] + DurationOf[w] <= ls[v]
      BY <2>4 DEF Passed
    <3> QED
      BY <1>2, <1>4, <2>4, <3>1 DEF NoSlack
  <2>5. \/ ls[w] + DurationOf[w] = end
        \/ \E v \in S : p[v] = w /\ ls[w] + DurationOf[w] = ls[v]
    BY DEF Passed
  <2> QED
    BY <2>1, <2>2, <2>3, <2>4, <2>5
<1>6. ASSUME NEW v \in S
      PROVE  (\A u \in Nodes(p, r) : PathIn(p, r, u) <= PathIn(p, r, v)) <=> ef[v] = end
  <2>1. \A u \in S : ef[u] = StartOf[r] + PathIn(p, r, u) /\ PathIn(p, r, u) \in Int
    BY <1>1, EndsByPath, PathGrows
  <2>2. StartOf[r] \in Int
    BY TimesAssumption
  <2>3. \A u \in S : PathIn(p, r, u) <= PathIn(p, r, v) <=> ef[u] <= ef[v]
    BY <2>1, <2>2
  <2>4. PICK x \in S : ef[x] = end
    BY DEF Passed
  <2> QED
    BY <1>2, <1>3, <2>3, <2>4
<1>7. \A w \in S : LongestIn(p, r, w) <=> \E v \in S : w \in AboveIn(p, v) \cup {v} /\ ef[v] = end
  BY <1>6 DEF LongestIn
<1>8. PICK T : T = {w \in S : NoSlack(ef, ls, w) /\ ~LongestIn(p, r, w)}
  OBVIOUS
<1>9. ASSUME NEW w \in T PROVE \E v \in T : p[v] = w
  <2>1. w \in S /\ NoSlack(ef, ls, w) /\ ~LongestIn(p, r, w)
    BY <1>8
  <2>2. ef[w] # end
    BY <1>7, <2>1
  <2>3. PICK v \in S : p[v] = w /\ NoSlack(ef, ls, v)
    BY <1>5, <2>1, <2>2
  <2>4. ~LongestIn(p, r, v)
    <3> SUFFICES ASSUME LongestIn(p, r, v) PROVE FALSE
      OBVIOUS
    <3>1. PICK x \in S : v \in AboveIn(p, x) \cup {x} /\ ef[x] = end
      BY <1>7
    <3>2. p[v] # NoParent
      BY <1>2, <2>1, <2>3
    <3>3. w \in AboveIn(p, x)
      BY <1>1, <2>3, <3>1, <3>2, AboveIsLeast DEF UpClosed
    <3> QED
      BY <1>7, <2>1, <3>1, <3>3
  <2> QED
    BY <1>8, <2>3, <2>4
<1>10. T = {}
  BY <1>1, <1>8, <1>9, SomeIsLowest
<1>11. ASSUME NEW w \in S, NEW v \in S, w \in AboveIn(p, v) \cup {v}, ef[v] = end
       PROVE  NoSlack(ef, ls, w)
  <2>1. NoSlack(ef, ls, v)
    BY <1>5, <1>11
  <2>2. PICK X : X = {u \in TreeOrders : u \in S => NoSlack(ef, ls, u)}
    OBVIOUS
  <2>3. ASSUME NEW u \in X, p[u] # NoParent PROVE p[u] \in X
    <3>1. u \in TreeOrders /\ p[u] \in TreeOrders
      BY <1>1, <2>2, <2>3 DEF IsParents
    <3>2. ASSUME p[u] \in S PROVE NoSlack(ef, ls, p[u])
      <4>1. u \in S
        BY <1>1, <3>1, <3>2
      <4>2. NoSlack(ef, ls, u)
        BY <2>2, <4>1
      <4> QED
        BY <1>5, <3>2, <4>1, <4>2
    <3> QED
      BY <2>2, <3>1, <3>2
  <2>4. UpClosed(p, X) /\ (p[v] # NoParent => p[v] \in X)
    BY <1>2, <2>1, <2>2, <2>3 DEF UpClosed
  <2>5. AboveIn(p, v) \subseteq X
    BY <1>1, <1>2, <2>4, AboveIsLeast
  <2> QED
    BY <1>11, <2>1, <2>2, <2>5
<1> QED
  BY <1>7, <1>8, <1>10, <1>11

\* The times that recalculate persists.
LEMMA RecalculatedIsTyped ==
  ASSUME NEW S, NEW p, NEW l, NEW d, NEW t, Given(S, p, l, d, t), S # {}
  PROVE  Recalculated(S, p, l, d, t) \in [S -> Times]
<1>1. PICK ef : ef = ForwardPass(S, p, l, d, t)
  OBVIOUS
<1>2. \A w \in S : ef[w] \in Int
  <2>1. SetByLevel(ef, StartTimes(S, p), S, l, TRUE)
    BY <1>1, ForwardIsSet
  <2> QED
    BY <2>1 DEF SetByLevel
<1>3. PICK end : end = MostOf(ef, S)
  OBVIOUS
<1>4. end \in Int /\ IsFiniteSet(S) /\ \A w \in S : w \in TreeOrders
  <2>1. IsFiniteSet(S) /\ \A w \in S : w \in TreeOrders
    BY DEF Given
  <2> QED
    BY <1>2, <1>3, <2>1, MaxOfImage
<1>5. PICK ls : ls = BackwardPass(S, p, l, d, t, end)
  OBVIOUS
<1>6. \A w \in S : ls[w] \in Int
  <2>1. SetByLevel(ls, FinishTimes(S, p, end), S, l, FALSE)
    BY <1>4, <1>5, BackwardIsSet
  <2> QED
    BY <2>1 DEF SetByLevel
<1>7. Recalculated(S, p, l, d, t) =
        [w \in S |-> [ef |-> ef[w], ls |-> ls[w], critical |-> ls[w] <= ef[w] - DurationOf[w]]]
  BY <1>1, <1>3, <1>5 DEF Recalculated, MostOf
<1>8. \A w \in S : [ef |-> ef[w], ls |-> ls[w], critical |-> ls[w] <= ef[w] - DurationOf[w]] \in Times
  BY <1>2, <1>6 DEF Times, MaybeTime
<1> QED
  BY <1>7, <1>8

\* In a tree whose levels count they mark its longest paths.
LEMMA RecalculatedIsRight ==
  ASSUME NEW p, NEW l, Ranked(p, l), NEW r \in TreeOrders, NEW S, S = Nodes(p, r),
         NEW d, NEW t, Given(S, p, l, d, t), NEW rows, rows = Recalculated(S, p, l, d, t)
  PROVE  \A w \in S : rows[w].critical <=> LongestIn(p, r, w)
<1>1. /\ IsParents(p) /\ Acyclic(p) /\ S \in SUBSET TreeOrders /\ r \in S /\ IsFiniteSet(S)
      /\ \A w \in TreeOrders : p[w] \in S => w \in S
  BY NodesAreTree DEF Ranked
<1>2. \A w \in S : l[w] \in Int /\ DurationOf[w] \in Int
  BY <1>1, TimesAssumption DEF Ranked
<1>3. \A v \in S : p[v] \in S => l[v] = l[p[v]] + 1
  BY <1>1, NoParentAssumption DEF Ranked
<1>4. PICK ef : ef = ForwardPass(S, p, l, d, t)
  OBVIOUS
<1>5. SetByLevel(ef, StartTimes(S, p), S, l, TRUE) /\ ef \in [S -> Int]
  <2>1. SetByLevel(ef, StartTimes(S, p), S, l, TRUE)
    BY <1>4, ForwardIsSet
  <2> QED
    BY <2>1 DEF SetByLevel
<1>6. ASSUME NEW w \in S
      PROVE  ef[w] = (IF p[w] \in S THEN ef[p[w]] ELSE StartOf[w]) + DurationOf[w]
  <2>1. PICK e \in [S -> MaybeTime] :
          /\ ef[w] = StartTimes(S, p)[<<w, e>>]
          /\ \A v \in S : ~TurnOf(l, TRUE, w, v) => e[v] = ef[v]
    BY <1>5 DEF SetByLevel
  <2>2. ef[w] = StartIn(S, p, e, w) + DurationOf[w]
    BY <1>1, <2>1, StartsAreInt
  <2>3. CASE p[w] \in S
    <3>1. e[p[w]] = ef[p[w]] /\ ef[p[w]] \in Int /\ StartOf[p[w]] \in Int
      <4>1. ~TurnOf(l, TRUE, w, p[w])
        BY <1>2, <1>3, <2>3 DEF TurnOf
      <4>2. StartOf[p[w]] \in Int /\ ef[p[w]] \in Int
        BY <1>1, <1>5, <2>3, TimesAssumption
      <4> QED
        BY <2>1, <2>3, <4>1, <4>2
    <3>2. PICK y : y = ef[p[w]]
      OBVIOUS
    <3>3. y \in Int /\ y \in MaybeTime
      BY <3>1, <3>2 DEF MaybeTime
    <3>4. Stored(y, StartOf[p[w]]) = y
      BY <3>1, <3>3, StoredIsInt
    <3>5. StartIn(S, p, e, w) = ef[p[w]]
      BY <2>3, <3>1, <3>2, <3>4 DEF StartIn
    <3> QED
      BY <2>2, <2>3, <3>5
  <2>4. CASE p[w] \notin S
    BY <2>2, <2>4 DEF StartIn
  <2> QED
    BY <2>3, <2>4
<1>7. PICK end : end = MostOf(ef, S)
  OBVIOUS
<1>8. end \in Int /\ (\A w \in S : ef[w] <= end) /\ \E w \in S : ef[w] = end
  <2>1. S # {} /\ \A w \in S : ef[w] \in Int
    BY <1>1, <1>5
  <2> QED
    BY <1>1, <1>7, <2>1, MaxOfImage
<1>9. PICK ls : ls = BackwardPass(S, p, l, d, t, end)
  OBVIOUS
<1>10. SetByLevel(ls, FinishTimes(S, p, end), S, l, FALSE) /\ ls \in [S -> Int]
  <2>1. SetByLevel(ls, FinishTimes(S, p, end), S, l, FALSE)
    BY <1>8, <1>9, BackwardIsSet
  <2> QED
    BY <2>1 DEF SetByLevel
<1>11. ASSUME NEW w \in S
       PROVE  /\ ls[w] + DurationOf[w] <= end
              /\ \A v \in S : p[v] = w => ls[w] + DurationOf[w] <= ls[v]
              /\ \/ ls[w] + DurationOf[w] = end
                 \/ \E v \in S : p[v] = w /\ ls[w] + DurationOf[w] = ls[v]
  <2>1. PICK e \in [S -> MaybeTime] :
          /\ ls[w] = FinishTimes(S, p, end)[<<w, e>>]
          /\ \A v \in S : ~TurnOf(l, FALSE, w, v) => e[v] = ls[v]
    BY <1>10 DEF SetByLevel
  <2>2. PICK m : m = FinishIn(S, p, e, w, end)
    OBVIOUS
  <2>3. /\ ls[w] = m - DurationOf[w] /\ m \in Int /\ m <= end
        /\ \A v \in S : p[v] = w /\ e[v] \in Int => m <= e[v]
        /\ m = end \/ \E v \in S : p[v] = w /\ m = Stored(e[v], end)
    BY <1>1, <1>8, <2>1, <2>2, FinishesAreInt
  <2>4. ls[w] + DurationOf[w] = m
    BY <1>2, <2>3
  <2>5. ASSUME NEW v \in S, p[v] = w
        PROVE  e[v] = ls[v] /\ e[v] \in Int /\ Stored(e[v], end) = ls[v]
    <3>1. ~TurnOf(l, FALSE, w, v)
      BY <1>2, <1>3, <2>5 DEF TurnOf
    <3>2. PICK y : y = e[v]
      OBVIOUS
    <3>3. y = ls[v] /\ y \in Int /\ y \in MaybeTime
      BY <1>10, <2>1, <3>1, <3>2 DEF MaybeTime
    <3>4. Stored(y, end) = y
      BY <1>8, <3>3, StoredIsInt
    <3> QED
      BY <3>2, <3>3, <3>4
  <2> QED
    BY <2>3, <2>4, <2>5
<1>12. Passed(S, p, ef, ls, end)
  <2>1. \A v \in S : p[v] \in S => ls[p[v]] + DurationOf[p[v]] <= ls[v]
    BY <1>11
  <2> QED
    BY <1>5, <1>6, <1>8, <1>10, <1>11, <2>1 DEF Passed
<1>13. ASSUME NEW w \in S PROVE rows[w].critical <=> NoSlack(ef, ls, w)
  <2>1. rows = [u \in S |->
          [ef |-> ef[u], ls |-> ls[u], critical |-> ls[u] <= ef[u] - DurationOf[u]]]
    BY <1>4, <1>7, <1>9 DEF Recalculated, MostOf
  <2>2. PICK b : b = (ls[w] <= ef[w] - DurationOf[w])
    OBVIOUS
  <2>3. rows[w] = [ef |-> ef[w], ls |-> ls[w], critical |-> b]
    BY <2>1, <2>2
  <2>4. rows[w].critical = b
    BY <2>3
  <2> QED
    BY <2>2, <2>4 DEF NoSlack
<1> QED
  BY <1>12, <1>13, NoSlackIsLongest

-----------------------------------------------------------------------------
(* Requests on the tree *)

Detaches == [op : {"move"}, stage : {"detach"}, on : TreeOrders, times : Times]
Walks == [op : {"move"}, stage : {"walk"}, on : TreeOrders, to : TreeOrders,
          current : TreeOrders, visited : SUBSET TreeOrders, times : Times]
Reads == [op : {"move"}, stage : {"read"}, on : TreeOrders, to : TreeOrders, times : Times]
ParentSaves == [op : {"move"}, stage : {"save"}, on : TreeOrders, to : TreeOrders,
                root : TreeOrders, level : Nat, times : Times]
ChildRows == [on : TreeOrders, parent : TreeOrders \cup {NoParent}, times : Times, level : Nat]
Finds == [op : {"move"}, stage : {"find"}, on : TreeOrders, level : Nat,
          root : TreeOrders, todo : Seq(ChildRows)]
ChildSaves == [op : {"move"}, stage : {"child"}, root : TreeOrders, todo : Seq(ChildRows)]
PathRows == UNION {[S -> Times] : S \in SUBSET TreeOrders}
Paths == [op : {"path"}, stage : {"persist"}, on : TreeOrders, rows : PathRows,
          todo : Seq(TreeOrders)]
TreeJobs == {NoJob} \cup Detaches \cup Walks \cup Reads \cup ParentSaves \cup Finds
              \cup ChildSaves \cup Paths

LEMMA TreeJobKinds ==
  ASSUME NEW j \in TreeJobs
  PROVE  /\ j.op = "move" /\ j.stage = "detach" => j \in Detaches
         /\ j.op = "move" /\ j.stage = "walk" => j \in Walks
         /\ j.op = "move" /\ j.stage = "read" => j \in Reads
         /\ j.op = "move" /\ j.stage = "save" => j \in ParentSaves
         /\ j.op = "move" /\ j.stage = "find" => j \in Finds
         /\ j.op = "move" /\ j.stage = "child" => j \in ChildSaves
         /\ j.op = "path" => j \in Paths
<1>1. ASSUME j = NoJob PROVE j.op = "none"
  BY <1>1 DEF NoJob
<1>2. ASSUME j \in Detaches PROVE j.op = "move" /\ j.stage = "detach"
  BY <1>2 DEF Detaches
<1>3. ASSUME j \in Walks PROVE j.op = "move" /\ j.stage = "walk"
  BY <1>3 DEF Walks
<1>4. ASSUME j \in Reads PROVE j.op = "move" /\ j.stage = "read"
  BY <1>4 DEF Reads
<1>5. ASSUME j \in ParentSaves PROVE j.op = "move" /\ j.stage = "save"
  BY <1>5 DEF ParentSaves
<1>6. ASSUME j \in Finds PROVE j.op = "move" /\ j.stage = "find"
  BY <1>6 DEF Finds
<1>7. ASSUME j \in ChildSaves PROVE j.op = "move" /\ j.stage = "child"
  BY <1>7 DEF ChildSaves
<1>8. ASSUME j \in Paths PROVE j.op = "path" /\ j.stage = "persist"
  BY <1>8 DEF Paths
<1>9. \/ j = NoJob \/ j \in Detaches \/ j \in Walks \/ j \in Reads \/ j \in ParentSaves
      \/ j \in Finds \/ j \in ChildSaves \/ j \in Paths
  BY DEF TreeJobs
<1> QED
  BY <1>1, <1>2, <1>3, <1>4, <1>5, <1>6, <1>7, <1>8, <1>9

-----------------------------------------------------------------------------
(* The orders below that find and save *)

FoundRows(p, t, on, n) ==
  {[on |-> w, parent |-> p[w], times |-> t[w], level |-> n + 1] : w \in {u \in TreeOrders : p[u] = on}}

LEMMA RowsAreTyped ==
  ASSUME NEW s \in Seq(ChildRows)
  PROVE  /\ DOMAIN s = 1..Len(s) /\ Len(s) \in Nat
         /\ \A k \in DOMAIN s : /\ s[k].on \in TreeOrders /\ s[k].level \in Nat
                               /\ s[k].parent \in TreeOrders \cup {NoParent}
                               /\ s[k].times \in Times
<1>1. DOMAIN s = 1..Len(s) /\ Len(s) \in Nat
  OBVIOUS
<1>2. \A k \in DOMAIN s : s[k] \in ChildRows
  BY <1>1
<1> QED
  BY <1>1, <1>2 DEF ChildRows

\* s lists the rows of the children of on, each once.
ListsRows(s, p, t, on, n) ==
  /\ s \in Seq(ChildRows)
  /\ \A k \in DOMAIN s : /\ s[k].on \in TreeOrders /\ p[s[k].on] = on
                         /\ s[k].parent = on /\ s[k].level = n + 1
  /\ \A i, k \in DOMAIN s : i # k => s[i].on # s[k].on
  /\ \A w \in TreeOrders : p[w] = on => \E k \in DOMAIN s : s[k].on = w

LEMMA RowsAreListed ==
  ASSUME NEW p, IsParents(p), NEW t \in [TreeOrders -> Times], NEW on \in TreeOrders,
         NEW n \in Nat, NEW s, s = SetToSeq(FoundRows(p, t, on, n))
  PROVE  ListsRows(s, p, t, on, n)
<1>1. PICK C : C = {u \in TreeOrders : p[u] = on}
  OBVIOUS
<1>2. IsFiniteSet(C) /\ C \in SUBSET TreeOrders
  BY <1>1, FS_Subset, TreeOrdersAssumption
<1>3. PICK row : row = [w \in C |-> [on |-> w, parent |-> p[w], times |-> t[w], level |-> n + 1]]
  OBVIOUS
<1>4. \A w \in C : /\ row[w].on = w /\ row[w].parent = on /\ row[w].level = n + 1
                   /\ row[w] \in ChildRows
  BY <1>1, <1>2, <1>3 DEF ChildRows
<1>5. PICK F : F = {row[w] : w \in C}
  OBVIOUS
<1>6. F = FoundRows(p, t, on, n)
  BY <1>1, <1>3, <1>5 DEF FoundRows
<1>7. IsFiniteSet(F)
  <2>1. row \in Surjection(C, F)
    BY <1>3, <1>5 DEF Surjection
  <2> QED
    BY <1>2, <2>1, FS_Surjection
<1>8. PICK m \in Nat : m = Cardinality(F)
  BY <1>7, FS_CardinalityType
<1>9. \E f \in [1..m -> F] : IsInjective(f)
  <2>1. PICK R : R = F \X F
    OBVIOUS
  <2>2. Orders(R, F)
    BY <2>1 DEF Orders
  <2>3. PICK q : Lists(q, F, R)
    BY <1>7, <2>2, ListExists
  <2> QED
    BY <1>8, <2>3 DEF Lists, IsInjective
<1>10. s \in [1..m -> F] /\ \A i, k \in 1..m : i # k => s[i] # s[k]
  <2>1. s \in [1..m -> F] /\ IsInjective(s)
    BY <1>6, <1>8, <1>9 DEF SetToSeq
  <2> QED
    BY <2>1 DEF IsInjective
<1>11. \A e \in F : \E i \in 1..m : s[i] = e
  BY <1>7, <1>8, <1>10, ListHasAll
<1>12. \A k \in 1..m : \E w \in C : s[k] = row[w]
  BY <1>5, <1>10
<1>13. DOMAIN s = 1..m /\ s \in Seq(ChildRows)
  <2>1. F \subseteq ChildRows
    BY <1>4, <1>5
  <2>2. s \in [1..m -> ChildRows]
    BY <1>10, <2>1
  <2> QED
    BY <1>10, <2>2
<1>14. \A k \in 1..m : /\ s[k].on \in TreeOrders /\ p[s[k].on] = on
                       /\ s[k].parent = on /\ s[k].level = n + 1
  BY <1>1, <1>2, <1>4, <1>12
<1>15. ASSUME NEW i \in 1..m, NEW k \in 1..m, i # k PROVE s[i].on # s[k].on
  <2>1. PICK v \in C, w \in C : s[i] = row[v] /\ s[k] = row[w]
    BY <1>12
  <2>2. s[i] # s[k]
    BY <1>10, <1>15
  <2> QED
    BY <1>4, <2>1, <2>2
<1>16. \A w \in TreeOrders : p[w] = on => \E k \in 1..m : s[k].on = w
  BY <1>1, <1>4, <1>5, <1>11
<1> QED
  BY <1>13, <1>14, <1>15, <1>16 DEF ListsRows

-----------------------------------------------------------------------------
(* Cycles are late *)

Is(j, o, s) == j.op = o /\ j.stage = s

MovedTo(p, on, to) == [p EXCEPT ![on] = to]

\* Every cycle has an order that was written while requests overlapped.
NoFreeCycle(p, late) ==
  \A S \in SUBSET TreeOrders : S # {} /\ ClosedIn(p, S) => S \cap late # {}

\* A walk goes along every free cycle that its change would close, and so
\* a change whose walk has come to an end closes none.
WalkFits(p, late, on, to, current) ==
  \A S \in SUBSET TreeOrders :
    on \in S /\ ClosedIn(MovedTo(p, on, to), S) /\ S \cap late = {} => current \in S
JoinFits(p, late, on, to) ==
  \A S \in SUBSET TreeOrders : on \in S /\ ClosedIn(MovedTo(p, on, to), S) => S \cap late # {}

\* A child still has the parent that was read, or was written since.
RowsKept(p, late, todo) ==
  \A k \in DOMAIN todo : todo[k].on \in late \/ todo[k].parent = p[todo[k].on]

\* A path persists what it has calculated.
PathKept(j) ==
  /\ j.on \in DOMAIN j.rows
  /\ \A k \in DOMAIN j.todo : j.todo[k] \in DOMAIN j.rows

CycleFits(p, late, j) ==
  /\ Is(j, "move", "walk") => WalkFits(p, late, j.on, j.to, j.current)
  /\ Is(j, "move", "read") \/ Is(j, "move", "save") => JoinFits(p, late, j.on, j.to)
  /\ Is(j, "move", "find") \/ Is(j, "move", "child") => RowsKept(p, late, j.todo)
  /\ j.op = "path" => PathKept(j)

TreeTyped ==
  /\ parent \in [TreeOrders -> TreeOrders \cup {NoParent}]
  /\ root \in [TreeOrders -> TreeOrders]
  /\ level \in [TreeOrders -> 0..MaxLevel]
  /\ times \in [TreeOrders -> Times]
  /\ treeLate \in SUBSET TreeOrders /\ treeTorn \in BOOLEAN
  /\ job \in [Clients -> TreeJobs]

CycleInv ==
  /\ TreeTyped
  /\ NoFreeCycle(parent, treeLate)
  /\ \A c \in Clients, j \in TreeJobs : job[c] = j => CycleFits(parent, treeLate, j)

\* A write of another request is late, and so none of its order is free.
LEMMA LateWriteFits ==
  ASSUME NEW p, IsParents(p), NEW w \in TreeOrders, NEW v \in TreeOrders \cup {NoParent},
         NEW late \in SUBSET TreeOrders, NEW j \in TreeJobs, CycleFits(p, late, j),
         NEW q, q = MovedTo(p, w, v), NEW now \in SUBSET TreeOrders, w \in now, late \subseteq now
  PROVE  CycleFits(q, now, j)
<1>1. \A x \in TreeOrders : x # w => q[x] = p[x]
  BY DEF IsParents, MovedTo
<1>2. ASSUME NEW S \in SUBSET TreeOrders, NEW on \in TreeOrders, NEW to,
             ClosedIn(MovedTo(q, on, to), S), S \cap now = {}
      PROVE  ClosedIn(MovedTo(p, on, to), S) /\ S \cap late = {}
  <2>1. \A x \in S : x \in TreeOrders /\ x # w
    BY <1>2
  <2>2. \A x \in S : MovedTo(q, on, to)[x] = MovedTo(p, on, to)[x]
    BY <1>1, <2>1 DEF MovedTo, IsParents
  <2> QED
    BY <1>2, <2>2 DEF ClosedIn
<1>3. ASSUME Is(j, "move", "walk") PROVE WalkFits(q, now, j.on, j.to, j.current)
  <2>1. j \in Walks
    BY <1>3, TreeJobKinds DEF Is
  <2>2. j.on \in TreeOrders /\ WalkFits(p, late, j.on, j.to, j.current)
    BY <1>3, <2>1 DEF Walks, CycleFits
  <2> QED
    BY <1>2, <2>2 DEF WalkFits
<1>4. ASSUME Is(j, "move", "read") \/ Is(j, "move", "save") PROVE JoinFits(q, now, j.on, j.to)
  <2>1. j \in Reads \/ j \in ParentSaves
    BY <1>4, TreeJobKinds DEF Is
  <2>2. j.on \in TreeOrders /\ JoinFits(p, late, j.on, j.to)
    BY <1>4, <2>1 DEF Reads, ParentSaves, CycleFits
  <2> QED
    BY <1>2, <2>2 DEF JoinFits
<1>5. ASSUME Is(j, "move", "find") \/ Is(j, "move", "child") PROVE RowsKept(q, now, j.todo)
  <2>1. j \in Finds \/ j \in ChildSaves
    BY <1>5, TreeJobKinds DEF Is
  <2>2. PICK todo : todo = j.todo
    OBVIOUS
  <2>3. todo \in Seq(ChildRows) /\ RowsKept(p, late, todo)
    BY <1>5, <2>1, <2>2 DEF Finds, ChildSaves, CycleFits
  <2>4. \A k \in DOMAIN todo : todo[k].on \in TreeOrders
    BY <2>3, RowsAreTyped
  <2> QED
    BY <1>1, <2>2, <2>3, <2>4 DEF RowsKept
<1> QED
  BY <1>3, <1>4, <1>5 DEF CycleFits

\* A step that writes nothing.
LEMMA QuietKeepsCycles ==
  ASSUME CycleInv, NEW c \in Clients, NEW j \in TreeJobs, job' = [job EXCEPT ![c] = j],
         UNCHANGED treeData, CycleFits(parent, treeLate, j)
  PROVE  CycleInv'
<1>1. TreeTyped'
  BY DEF CycleInv, TreeTyped, treeData
<1>2. UNCHANGED <<parent, treeLate>>
  BY DEF treeData
<1>3. \A d \in Clients, k \in TreeJobs : job'[d] = k => CycleFits(parent, treeLate, k)
  BY DEF CycleInv, TreeTyped
<1> QED
  BY <1>1, <1>2, <1>3 DEF CycleInv

\* A step that writes order w.
LEMMA WriteKeepsCycles ==
  ASSUME CycleInv, TreeTyped', NEW c \in Clients, NEW j \in TreeJobs,
         job' = [job EXCEPT ![c] = j],
         NEW w \in TreeOrders, NEW v \in TreeOrders \cup {NoParent},
         NEW q, q = MovedTo(parent, w, v), parent' = q, NoteWrite(c, w),
         NoFreeCycle(q, treeLate'), CycleFits(q, treeLate', j)
  PROVE  CycleInv'
<1>1. PICK late, now : late = treeLate /\ now = treeLate'
  OBVIOUS
<1>2. late \in SUBSET TreeOrders /\ now \in SUBSET TreeOrders
  BY <1>1 DEF CycleInv, TreeTyped
<1>3. ASSUME NEW d \in Clients, NEW k \in TreeJobs, job'[d] = k PROVE CycleFits(q, now, k)
  <2>1. CASE d = c
    BY <1>1, <1>3, <2>1 DEF CycleInv, TreeTyped
  <2>2. CASE d # c
    <3>1. job[d] = k
      BY <1>3, <2>2 DEF CycleInv, TreeTyped
    <3>2. CASE k = NoJob
      BY <3>2 DEF NoJob, CycleFits, Is
    <3>3. CASE k # NoJob
      <4>1. now = late \cup {w}
        BY <1>1, <2>2, <3>1, <3>3 DEF NoteWrite
      <4>2. CycleFits(parent, late, k) /\ IsParents(parent)
        BY <1>1, <3>1 DEF CycleInv, TreeTyped, IsParents
      <4> QED
        BY <1>2, <4>1, <4>2, LateWriteFits
    <3> QED
      BY <3>2, <3>3
  <2> QED
    BY <2>1, <2>2
<1> QED
  BY <1>1, <1>3 DEF CycleInv

LEMMA LateGrows ==
  ASSUME TreeTyped, NEW c \in Clients, NEW w \in TreeOrders, NoteWrite(c, w)
  PROVE  treeLate \subseteq treeLate' /\ treeLate' \in SUBSET TreeOrders
BY DEF TreeTyped, NoteWrite

LEMMA WriteIsTyped ==
  ASSUME TreeTyped, NEW c \in Clients, NEW j \in TreeJobs, job' = [job EXCEPT ![c] = j],
         NEW w \in TreeOrders, NEW up \in TreeOrders \cup {NoParent}, NEW r \in TreeOrders,
         NEW n \in 0..MaxLevel, NEW t \in Times, WriteRow(c, w, up, r, n, t),
         treeTorn' \in BOOLEAN
  PROVE  TreeTyped' /\ parent' = MovedTo(parent, w, up) /\ NoteWrite(c, w)
<1>1. NoteWrite(c, w)
  BY DEF WriteRow
<1>2. treeLate' \in SUBSET TreeOrders
  BY <1>1, LateGrows
<1> QED
  BY <1>1, <1>2 DEF TreeTyped, WriteRow, MovedTo

\* The request of a client, as the invariant has it.
LEMMA RequestFits ==
  ASSUME CycleInv, NEW c \in Clients
  PROVE  \E j \in TreeJobs : job[c] = j /\ CycleFits(parent, treeLate, j)
BY DEF CycleInv, TreeTyped

LEMMA DetachOrderKeepsCycles ==
  ASSUME CycleInv, NEW c \in Clients, NEW w \in TreeOrders, DetachOrder(c, w)
  PROVE  CycleInv'
<1>1. PICK j : j = [op |-> "move", stage |-> "detach", on |-> w, times |-> times[w]]
  OBVIOUS
<1>2. j \in Detaches
  BY <1>1 DEF Detaches, CycleInv, TreeTyped
<1>3. j \in TreeJobs /\ CycleFits(parent, treeLate, j)
  BY <1>2 DEF TreeJobs, Detaches, CycleFits, Is
<1>4. job' = [job EXCEPT ![c] = j] /\ UNCHANGED treeData
  BY <1>1 DEF DetachOrder, Accept
<1> QED
  BY <1>3, <1>4, QuietKeepsCycles

LEMMA DetachSaveKeepsCycles ==
  ASSUME CycleInv, NEW c \in Clients, DetachSave(c)
  PROVE  CycleInv'
<1>1. PICK j \in TreeJobs : job[c] = j
  BY RequestFits
<1>2. j \in Detaches
  BY <1>1, TreeJobKinds DEF DetachSave, At
<1>3. PICK w, t : w = j.on /\ t = j.times
  OBVIOUS
<1>4. w \in TreeOrders /\ t \in Times
  BY <1>2, <1>3 DEF Detaches
<1>5. PICK k : k = [op |-> "move", stage |-> "find", on |-> w, level |-> 0,
                    root |-> w, todo |-> << >>]
  OBVIOUS
<1>6. k \in TreeJobs /\ CycleFits(parent', treeLate', k)
  <2>1. k \in Finds
    BY <1>4, <1>5 DEF Finds
  <2>2. k \in TreeJobs /\ k.op = "move" /\ k.stage = "find" /\ k.todo = << >>
    BY <1>5, <2>1 DEF TreeJobs
  <2>3. RowsKept(parent', treeLate', k.todo)
    BY <2>2 DEF RowsKept
  <2> QED
    BY <2>2, <2>3 DEF CycleFits, Is
<1>7. /\ job' = [job EXCEPT ![c] = k] /\ WriteRow(c, w, parent[w], w, 0, t)
      /\ treeTorn' \in BOOLEAN
  BY <1>1, <1>3, <1>5 DEF DetachSave, Continue
<1>8. TreeTyped /\ parent[w] \in TreeOrders \cup {NoParent} /\ 0 \in 0..MaxLevel
  BY <1>4, MaxLevelAssumption DEF CycleInv, TreeTyped
<1>9. TreeTyped' /\ parent' = MovedTo(parent, w, parent[w]) /\ NoteWrite(c, w)
  BY <1>4, <1>6, <1>7, <1>8, WriteIsTyped
<1>10. parent' = parent /\ treeLate \subseteq treeLate'
  BY <1>4, <1>8, <1>9, LateGrows DEF MovedTo, TreeTyped
<1>11. NoFreeCycle(parent', treeLate')
  BY <1>10 DEF CycleInv, NoFreeCycle
<1> QED
  BY <1>4, <1>6, <1>7, <1>8, <1>9, <1>11, WriteKeepsCycles

LEMMA UpdateParentKeepsCycles ==
  ASSUME CycleInv, NEW c \in Clients, NEW w \in TreeOrders, NEW p \in TreeOrders,
         UpdateParent(c, w, p)
  PROVE  CycleInv'
<1>1. PICK j : j = [op |-> "move", stage |-> "walk", on |-> w, to |-> p,
                    current |-> p, visited |-> {}, times |-> times[w]]
  OBVIOUS
<1>2. j \in Walks
  BY <1>1 DEF Walks, CycleInv, TreeTyped
<1>3. /\ j.op = "move" /\ j.stage = "walk" /\ j.on = w /\ j.to = p /\ j.current = p
      /\ j \in TreeJobs
  BY <1>1, <1>2 DEF TreeJobs
<1>4. WalkFits(parent, treeLate, w, p, p)
  BY DEF WalkFits, ClosedIn, MovedTo, CycleInv, TreeTyped
<1>5. CycleFits(parent, treeLate, j)
  BY <1>3, <1>4 DEF CycleFits, Is
<1>6. job' = [job EXCEPT ![c] = j] /\ UNCHANGED treeData
  BY <1>1 DEF UpdateParent, Accept
<1> QED
  BY <1>3, <1>5, <1>6, QuietKeepsCycles

LEMMA WalkKeepsCycles ==
  ASSUME CycleInv, NEW c \in Clients, Walk(c)
  PROVE  CycleInv'
<1>1. PICK j \in TreeJobs : job[c] = j /\ CycleFits(parent, treeLate, j)
  BY RequestFits
<1>2. j \in Walks /\ Is(j, "move", "walk")
  BY <1>1, TreeJobKinds DEF Walk, At, Is
<1>3. PICK on, to, current : on = j.on /\ to = j.to /\ current = j.current
  OBVIOUS
<1>4. /\ on \in TreeOrders /\ to \in TreeOrders /\ current \in TreeOrders
      /\ j.times \in Times /\ j.visited \in SUBSET TreeOrders
      /\ WalkFits(parent, treeLate, on, to, current)
  BY <1>1, <1>2, <1>3 DEF Walks, CycleFits
<1>5. UNCHANGED treeData
  BY DEF Walk
<1>6. CASE Reaches(j)
  <2>1. job' = [job EXCEPT ![c] = NoJob]
    BY <1>1, <1>6 DEF Walk, Reply, Continue
  <2>2. NoJob \in TreeJobs /\ CycleFits(parent, treeLate, NoJob)
    BY DEF TreeJobs, CycleFits, Is, NoJob
  <2> QED
    BY <1>5, <2>1, <2>2, QuietKeepsCycles
<1>7. CASE ~Reaches(j) /\ parent[current] = NoParent
  <2>1. PICK k : k = [op |-> "move", stage |-> "read", on |-> on, to |-> to, times |-> j.times]
    OBVIOUS
  <2>2. k \in Reads
    BY <1>4, <2>1 DEF Reads
  <2>3. k \in TreeJobs /\ k.op = "move" /\ k.stage = "read" /\ k.on = on /\ k.to = to
    BY <2>1, <2>2 DEF TreeJobs
  <2>4. JoinFits(parent, treeLate, on, to)
    <3> SUFFICES ASSUME NEW S \in SUBSET TreeOrders, on \in S,
                        ClosedIn(MovedTo(parent, on, to), S), S \cap treeLate = {}
                 PROVE  FALSE
      BY DEF JoinFits
    <3>1. current \in S /\ current # on
      BY <1>3, <1>4, <1>7 DEF WalkFits, Reaches
    <3>2. MovedTo(parent, on, to)[current] = NoParent
      BY <1>4, <1>7, <3>1 DEF MovedTo, CycleInv, TreeTyped
    <3> QED
      BY <3>1, <3>2, NoParentAssumption DEF ClosedIn
  <2>5. CycleFits(parent, treeLate, k)
    BY <2>3, <2>4 DEF CycleFits, Is
  <2>6. job' = [job EXCEPT ![c] = k]
    BY <1>1, <1>3, <1>7, <2>1 DEF Walk, Continue
  <2> QED
    BY <1>5, <2>3, <2>5, <2>6, QuietKeepsCycles
<1>8. CASE ~Reaches(j) /\ parent[current] # NoParent
  <2>1. PICK k : k = [j EXCEPT !.current = parent[current], !.visited = j.visited \cup {current}]
    OBVIOUS
  <2>2. parent[current] \in TreeOrders /\ j.visited \cup {current} \in SUBSET TreeOrders
    BY <1>4, <1>8 DEF CycleInv, TreeTyped
  <2>3. k \in Walks
    BY <1>2, <2>1, <2>2 DEF Walks
  <2>4. /\ k \in TreeJobs /\ k.op = "move" /\ k.stage = "walk" /\ k.on = on /\ k.to = to
        /\ k.current = parent[current]
    BY <1>2, <1>3, <2>1, <2>3 DEF TreeJobs, Walks
  <2>5. WalkFits(parent, treeLate, on, to, parent[current])
    <3> SUFFICES ASSUME NEW S \in SUBSET TreeOrders, on \in S,
                        ClosedIn(MovedTo(parent, on, to), S), S \cap treeLate = {}
                 PROVE  parent[current] \in S
      BY DEF WalkFits
    <3>1. current \in S /\ current # on
      BY <1>3, <1>4, <1>8 DEF WalkFits, Reaches
    <3>2. MovedTo(parent, on, to)[current] = parent[current]
      BY <1>4, <3>1 DEF MovedTo, CycleInv, TreeTyped
    <3> QED
      BY <3>1, <3>2 DEF ClosedIn
  <2>6. CycleFits(parent, treeLate, k)
    BY <2>4, <2>5 DEF CycleFits, Is
  <2>7. job' = [job EXCEPT ![c] = k]
    BY <1>1, <1>3, <1>8, <2>1 DEF Walk, Continue
  <2> QED
    BY <1>5, <2>4, <2>6, <2>7, QuietKeepsCycles
<1> QED
  BY <1>6, <1>7, <1>8

LEMMA ReadParentKeepsCycles ==
  ASSUME CycleInv, NEW c \in Clients, ReadParent(c)
  PROVE  CycleInv'
<1>1. PICK j \in TreeJobs : job[c] = j /\ CycleFits(parent, treeLate, j)
  BY RequestFits
<1>2. j \in Reads /\ Is(j, "move", "read")
  BY <1>1, TreeJobKinds DEF ReadParent, At, Is
<1>3. PICK on, to : on = j.on /\ to = j.to
  OBVIOUS
<1>4. /\ on \in TreeOrders /\ to \in TreeOrders /\ j.times \in Times
      /\ JoinFits(parent, treeLate, on, to)
  BY <1>1, <1>2, <1>3 DEF Reads, CycleFits
<1>5. PICK k : k = [op |-> "move", stage |-> "save", on |-> on, to |-> to,
                    root |-> root[to], level |-> level[to] + 1, times |-> j.times]
  OBVIOUS
<1>6. root[to] \in TreeOrders /\ level[to] + 1 \in Nat
  BY <1>4, MaxLevelAssumption DEF CycleInv, TreeTyped
<1>7. k \in ParentSaves
  BY <1>4, <1>5, <1>6 DEF ParentSaves
<1>8. k \in TreeJobs /\ k.op = "move" /\ k.stage = "save" /\ k.on = on /\ k.to = to
  BY <1>5, <1>7 DEF TreeJobs
<1>9. CycleFits(parent, treeLate, k)
  BY <1>4, <1>8 DEF CycleFits, Is
<1>10. job' = [job EXCEPT ![c] = k] /\ UNCHANGED treeData
  BY <1>1, <1>3, <1>5 DEF ReadParent, Continue
<1> QED
  BY <1>8, <1>9, <1>10, QuietKeepsCycles

LEMMA SaveParentKeepsCycles ==
  ASSUME CycleInv, NEW c \in Clients, SaveParent(c)
  PROVE  CycleInv'
<1>1. PICK j \in TreeJobs : job[c] = j /\ CycleFits(parent, treeLate, j)
  BY RequestFits
<1>2. j \in ParentSaves /\ Is(j, "move", "save")
  BY <1>1, TreeJobKinds DEF SaveParent, At, Is
<1>3. PICK on, to, r, n, t : on = j.on /\ to = j.to /\ r = j.root /\ n = j.level /\ t = j.times
  OBVIOUS
<1>4. /\ on \in TreeOrders /\ to \in TreeOrders /\ r \in TreeOrders /\ n \in Nat /\ t \in Times
      /\ JoinFits(parent, treeLate, on, to)
  BY <1>1, <1>2, <1>3 DEF ParentSaves, CycleFits
<1>5. PICK k : k = [op |-> "move", stage |-> "find", on |-> on, level |-> n,
                    root |-> r, todo |-> << >>]
  OBVIOUS
<1>6. k \in TreeJobs /\ CycleFits(parent', treeLate', k)
  <2>1. k \in Finds
    BY <1>4, <1>5 DEF Finds
  <2>2. k \in TreeJobs /\ k.op = "move" /\ k.stage = "find" /\ k.todo = << >>
    BY <1>5, <2>1 DEF TreeJobs
  <2>3. RowsKept(parent', treeLate', k.todo)
    BY <2>2 DEF RowsKept
  <2> QED
    BY <2>2, <2>3 DEF CycleFits, Is
<1>7. /\ job' = [job EXCEPT ![c] = k] /\ WriteRow(c, on, to, r, n, t)
      /\ n <= MaxLevel /\ UNCHANGED treeTorn
  BY <1>1, <1>3, <1>5 DEF SaveParent, Continue
<1>8. TreeTyped /\ n \in 0..MaxLevel /\ treeTorn' \in BOOLEAN
  BY <1>4, <1>7, MaxLevelAssumption DEF CycleInv, TreeTyped
<1>9. TreeTyped' /\ parent' = MovedTo(parent, on, to) /\ NoteWrite(c, on)
  BY <1>4, <1>6, <1>7, <1>8, WriteIsTyped
<1>10. treeLate \subseteq treeLate'
  BY <1>4, <1>8, <1>9, LateGrows
<1>11. NoFreeCycle(parent', treeLate')
  <2> SUFFICES ASSUME NEW S \in SUBSET TreeOrders, S # {}, ClosedIn(parent', S)
               PROVE  S \cap treeLate # {}
    BY <1>10 DEF NoFreeCycle
  <2>1. CASE on \in S
    BY <1>4, <1>9, <2>1 DEF JoinFits
  <2>2. CASE on \notin S
    <3>1. ClosedIn(parent, S)
      BY <1>8, <1>9, <2>2 DEF ClosedIn, MovedTo, TreeTyped
    <3> QED
      BY <3>1 DEF CycleInv, NoFreeCycle
  <2> QED
    BY <2>1, <2>2
<1> QED
  BY <1>4, <1>6, <1>7, <1>8, <1>9, <1>11, WriteKeepsCycles

LEMMA Joined ==
  ASSUME NEW s \in Seq(ChildRows), NEW t \in Seq(ChildRows), NEW q, q = s \o t
  PROVE  /\ q \in Seq(ChildRows) /\ DOMAIN q = 1..(Len(s) + Len(t))
         /\ Len(s) \in Nat /\ Len(t) \in Nat /\ DOMAIN s = 1..Len(s) /\ DOMAIN t = 1..Len(t)
         /\ \A k \in DOMAIN q : IF k <= Len(s) THEN k \in DOMAIN s /\ q[k] = s[k]
                                ELSE k - Len(s) \in DOMAIN t /\ q[k] = t[k - Len(s)]
         /\ \A k \in DOMAIN s : k \in DOMAIN q
         /\ \A k \in DOMAIN t : k + Len(s) \in DOMAIN q /\ q[k + Len(s)] = t[k]
OBVIOUS

LEMMA Headed ==
  ASSUME NEW t \in Seq(ChildRows), t # << >>, NEW q, q = Tail(t)
  PROVE  /\ q \in Seq(ChildRows) /\ Head(t) = t[1] /\ 1 \in DOMAIN t
         /\ DOMAIN t = 1..Len(t) /\ DOMAIN q = 1..(Len(t) - 1) /\ Len(t) \in Nat
         /\ \A k \in DOMAIN q : k + 1 \in DOMAIN t /\ q[k] = t[k + 1]
         /\ \A k \in DOMAIN t : k # 1 => k - 1 \in DOMAIN q /\ q[k - 1] = t[k]
OBVIOUS

LEMMA FindChildrenKeepsCycles ==
  ASSUME CycleInv, NEW c \in Clients, FindChildren(c)
  PROVE  CycleInv'
<1>1. PICK j \in TreeJobs : job[c] = j /\ CycleFits(parent, treeLate, j)
  BY RequestFits
<1>2. j \in Finds /\ Is(j, "move", "find")
  BY <1>1, TreeJobKinds DEF FindChildren, At, Is
<1>3. PICK on, n, r, todo : on = j.on /\ n = j.level /\ r = j.root /\ todo = j.todo
  OBVIOUS
<1>4. /\ on \in TreeOrders /\ n \in Nat /\ r \in TreeOrders /\ todo \in Seq(ChildRows)
      /\ RowsKept(parent, treeLate, todo)
  BY <1>1, <1>2, <1>3 DEF Finds, CycleFits
<1>5. PICK s : s = SetToSeq(FoundRows(parent, times, on, n))
  OBVIOUS
<1>6. ListsRows(s, parent, times, on, n)
  BY <1>4, <1>5, RowsAreListed DEF CycleInv, TreeTyped, IsParents
<1>7. PICK now : now = s \o todo
  OBVIOUS
<1>8. PICK k : k = [op |-> "move", stage |-> "child", root |-> r, todo |-> now]
  OBVIOUS
<1>9. /\ now \in Seq(ChildRows)
      /\ \A i \in DOMAIN now : \/ i \in DOMAIN s /\ now[i] = s[i]
                               \/ i - Len(s) \in DOMAIN todo /\ now[i] = todo[i - Len(s)]
  BY <1>4, <1>6, <1>7, Joined DEF ListsRows
<1>10. k \in ChildSaves
  BY <1>4, <1>8, <1>9 DEF ChildSaves
<1>11. k \in TreeJobs /\ k.op = "move" /\ k.stage = "child" /\ k.todo = now
  BY <1>8, <1>10 DEF TreeJobs
<1>12. RowsKept(parent, treeLate, now)
  <2> SUFFICES ASSUME NEW i \in DOMAIN now
               PROVE  now[i].on \in treeLate \/ now[i].parent = parent[now[i].on]
    BY DEF RowsKept
  <2>1. CASE i \in DOMAIN s /\ now[i] = s[i]
    BY <1>6, <2>1 DEF ListsRows
  <2>2. CASE i - Len(s) \in DOMAIN todo /\ now[i] = todo[i - Len(s)]
    BY <1>4, <2>2 DEF RowsKept
  <2> QED
    BY <1>9, <2>1, <2>2
<1>13. CycleFits(parent, treeLate, k)
  BY <1>11, <1>12 DEF CycleFits, Is
<1>14. FoundRows(parent, times, on, n) = {Below(w, n) : w \in Children(on)}
  BY DEF FoundRows, Below, Children
<1>15. job' = [job EXCEPT ![c] = k] /\ UNCHANGED treeData
  BY <1>1, <1>3, <1>5, <1>7, <1>8, <1>14 DEF FindChildren, Continue
<1> QED
  BY <1>11, <1>13, <1>15, QuietKeepsCycles

LEMMA SaveChildKeepsCycles ==
  ASSUME CycleInv, NEW c \in Clients, SaveChild(c)
  PROVE  CycleInv'
<1>1. PICK j \in TreeJobs : job[c] = j /\ CycleFits(parent, treeLate, j)
  BY RequestFits
<1>2. j \in ChildSaves /\ Is(j, "move", "child")
  BY <1>1, TreeJobKinds DEF SaveChild, At, Is
<1>3. PICK r, todo, rest : r = j.root /\ todo = j.todo /\ rest = Tail(todo)
  OBVIOUS
<1>4. /\ r \in TreeOrders /\ todo \in Seq(ChildRows) /\ todo # << >>
      /\ RowsKept(parent, treeLate, todo)
  BY <1>1, <1>2, <1>3 DEF ChildSaves, CycleFits, SaveChild
<1>5. PICK row : row = Head(todo)
  OBVIOUS
<1>6. /\ rest \in Seq(ChildRows) /\ 1 \in DOMAIN todo /\ row = todo[1]
      /\ \A i \in DOMAIN rest : i + 1 \in DOMAIN todo /\ rest[i] = todo[i + 1]
  BY <1>3, <1>4, <1>5, Headed
<1>7. PICK w, up, n, t : w = row.on /\ up = row.parent /\ n = row.level /\ t = row.times
  OBVIOUS
<1>8. /\ w \in TreeOrders /\ up \in TreeOrders \cup {NoParent} /\ n \in Nat /\ t \in Times
      /\ w \in treeLate \/ up = parent[w]
  BY <1>4, <1>6, <1>7, RowsAreTyped DEF RowsKept
<1>9. PICK k : k = [op |-> "move", stage |-> "find", on |-> w, level |-> n,
                    root |-> r, todo |-> rest]
  OBVIOUS
<1>10. k \in Finds
  BY <1>4, <1>6, <1>8, <1>9 DEF Finds
<1>11. k \in TreeJobs /\ k.op = "move" /\ k.stage = "find" /\ k.todo = rest
  BY <1>9, <1>10 DEF TreeJobs
<1>12. /\ job' = [job EXCEPT ![c] = k] /\ WriteRow(c, w, up, r, n, t)
       /\ n <= MaxLevel /\ UNCHANGED treeTorn
  BY <1>1, <1>3, <1>5, <1>7, <1>9 DEF SaveChild, Continue
<1>13. TreeTyped /\ n \in 0..MaxLevel /\ treeTorn' \in BOOLEAN
  BY <1>8, <1>12, MaxLevelAssumption DEF CycleInv, TreeTyped
<1>14. TreeTyped' /\ parent' = MovedTo(parent, w, up) /\ NoteWrite(c, w)
  BY <1>4, <1>8, <1>11, <1>12, <1>13, WriteIsTyped
<1>15. treeLate \subseteq treeLate'
  BY <1>8, <1>13, <1>14, LateGrows
<1>16. /\ parent'[w] = up /\ \A x \in TreeOrders : x # w => parent'[x] = parent[x]
  BY <1>8, <1>13, <1>14 DEF MovedTo, TreeTyped
<1>17. RowsKept(parent', treeLate', rest)
  <2> SUFFICES ASSUME NEW i \in DOMAIN rest
               PROVE  rest[i].on \in treeLate' \/ rest[i].parent = parent'[rest[i].on]
    BY DEF RowsKept
  <2>1. PICK e : e = rest[i]
    OBVIOUS
  <2>2. e = todo[i + 1] /\ i + 1 \in DOMAIN todo
    BY <1>6, <2>1
  <2>3. (e.on \in treeLate \/ e.parent = parent[e.on]) /\ e.on \in TreeOrders
    BY <1>4, <2>2, RowsAreTyped DEF RowsKept
  <2>4. e.on \in treeLate' \/ e.parent = parent'[e.on]
    BY <1>8, <1>15, <1>16, <2>3
  <2> QED
    BY <2>1, <2>4
<1>18. CycleFits(parent', treeLate', k)
  BY <1>11, <1>17 DEF CycleFits, Is
<1>19. NoFreeCycle(parent', treeLate')
  <2> SUFFICES ASSUME NEW S \in SUBSET TreeOrders, S # {}, ClosedIn(parent', S),
                      S \cap treeLate' = {}
               PROVE  FALSE
    BY DEF NoFreeCycle
  <2>1. w \in S => up = parent[w]
    BY <1>8, <1>15
  <2>2. \A x \in S : parent'[x] = parent[x]
    BY <1>16, <2>1
  <2>3. ClosedIn(parent, S) /\ S \cap treeLate = {}
    BY <1>15, <2>2 DEF ClosedIn
  <2> QED
    BY <2>3 DEF CycleInv, NoFreeCycle
<1> QED
  BY <1>8, <1>11, <1>12, <1>14, <1>18, <1>19, WriteKeepsCycles

LEMMA ReplyKeepsCycles ==
  ASSUME CycleInv, NEW c \in Clients, Reply(c), UNCHANGED treeData
  PROVE  CycleInv'
<1>1. job' = [job EXCEPT ![c] = NoJob]
  BY DEF Reply, Continue
<1>2. NoJob \in TreeJobs /\ CycleFits(parent, treeLate, NoJob)
  BY DEF TreeJobs, CycleFits, Is, NoJob
<1> QED
  BY <1>1, <1>2, QuietKeepsCycles

LEMMA TreeDieKeepsCycles ==
  ASSUME CycleInv, NEW c \in Clients, TreeDie(c)
  PROVE  CycleInv'
<1>1. job' = [job EXCEPT ![c] = NoJob] /\ UNCHANGED <<parent, treeLate>>
  BY DEF TreeDie, Reply, Continue
<1>2. NoJob \in TreeJobs /\ CycleFits(parent, treeLate, NoJob)
  BY DEF TreeJobs, CycleFits, Is, NoJob
<1>3. TreeTyped'
  BY <1>1, <1>2 DEF TreeDie, CycleInv, TreeTyped
<1>4. \A d \in Clients, k \in TreeJobs : job'[d] = k => CycleFits(parent, treeLate, k)
  BY <1>1, <1>2 DEF CycleInv, TreeTyped
<1> QED
  BY <1>1, <1>3, <1>4 DEF CycleInv

\* What a query below r reads.
DepthIn(p, S) == [w \in S |-> Cardinality(AboveIn(p, w))]

LEMMA QueryIsGiven ==
  ASSUME TreeTyped, NEW r \in TreeOrders, NEW S, S = Nodes(parent, r),
         NEW d, d = DepthIn(parent, S)
  PROVE  Given(S, parent, level, d, times) /\ r \in S
<1>1. S \in SUBSET TreeOrders /\ r \in S
  BY DEF Nodes
<1>2. IsParents(parent)
  BY DEF TreeTyped, IsParents
<1>3. ASSUME NEW w \in TreeOrders PROVE Cardinality(AboveIn(parent, w)) \in Nat
  <2>1. AboveIn(parent, w) \in SUBSET TreeOrders
    <3>n. PICK n \in Nat : \E up : /\ n = Cardinality(TreeOrders) /\ Climbs(up, n, parent, w)
                                   /\ AboveIn(parent, w) = {up[k] : k \in 1..n} \ {NoParent}
      BY <1>2, ClimbExists
    <3>1. PICK up : /\ Climbs(up, n, parent, w)
                    /\ AboveIn(parent, w) = {up[k] : k \in 1..n} \ {NoParent}
      BY <3>n
    <3>2. \A k \in 1..n : k \in 0..n
      BY <3>1
    <3> QED
      BY <3>1, <3>2 DEF Climbs
  <2> QED
    BY <2>1, FS_Subset, FS_CardinalityType, TreeOrdersAssumption
<1>4. d \in [S -> Int]
  BY <1>1, <1>3 DEF DepthIn
<1>5. level \in [TreeOrders -> Int]
  BY MaxLevelAssumption DEF TreeTyped
<1>6. IsFiniteSet(S)
  BY <1>1, FS_Subset, TreeOrdersAssumption
<1> QED
  BY <1>1, <1>2, <1>4, <1>5, <1>6 DEF Given, TreeTyped

\* The request of a recalculation below r.
PathJob(r, S, d) ==
  [op |-> "path", stage |-> "persist", on |-> r,
   rows |-> Recalculated(S, parent, level, d, times), todo |-> InQueryOrder(S, d)]

LEMMA RecalculateStarts ==
  ASSUME TreeTyped, NEW c \in Clients, NEW r \in TreeOrders, Recalculate(c, r),
         NEW S, S = Nodes(parent, r), NEW d, d = DepthIn(parent, S)
  PROVE  /\ job[c] = NoJob /\ job' = [job EXCEPT ![c] = PathJob(r, S, d)]
         /\ UNCHANGED treeData
BY DEF Recalculate, Accept, PathJob, Nodes, DepthIn

LEMMA PathJobIsTyped ==
  ASSUME TreeTyped, NEW r \in TreeOrders, NEW S, S = Nodes(parent, r),
         NEW d, d = DepthIn(parent, S), NEW j, j = PathJob(r, S, d)
  PROVE  /\ j \in Paths /\ DOMAIN j.rows = S /\ j.on = r /\ r \in S
         /\ DOMAIN j.todo = 1..Len(j.todo) /\ \A k \in DOMAIN j.todo : j.todo[k] \in S
         /\ \A w \in S : \E k \in DOMAIN j.todo : j.todo[k] = w
<1>1. Given(S, parent, level, d, times) /\ r \in S
  BY QueryIsGiven
<1>2. PICK rows, q : rows = Recalculated(S, parent, level, d, times) /\ q = InQueryOrder(S, d)
  OBVIOUS
<1>3. rows \in [S -> Times] /\ S \in SUBSET TreeOrders /\ IsFiniteSet(S) /\ d \in [S -> Int]
  BY <1>1, <1>2, RecalculatedIsTyped DEF Given
<1>4. PICK n : n = Cardinality(S)
  OBVIOUS
<1>5. n \in Nat /\ Enumerates(q, S)
  BY <1>2, <1>3, <1>4, QueryEnumerates, FS_CardinalityType
<1>6. /\ q \in Seq(TreeOrders) /\ DOMAIN q = 1..Len(q) /\ DOMAIN q = 1..n
      /\ \A k \in 1..n : q[k] \in S
  <2>1. q \in [1..n -> S] /\ q \in [1..n -> TreeOrders]
    BY <1>3, <1>4, <1>5 DEF Enumerates
  <2> QED
    BY <1>5, <2>1
<1>7. \A w \in S : \E k \in 1..n : q[k] = w
  BY <1>4, <1>5 DEF Enumerates
<1>8. rows \in PathRows
  BY <1>3 DEF PathRows
<1>9. j = [op |-> "path", stage |-> "persist", on |-> r, rows |-> rows, todo |-> q]
  BY <1>2 DEF PathJob
<1>10. j \in Paths /\ j.rows = rows /\ j.todo = q /\ j.on = r
  BY <1>6, <1>8, <1>9 DEF Paths
<1> QED
  BY <1>1, <1>3, <1>6, <1>7, <1>10

LEMMA RecalculateKeepsCycles ==
  ASSUME CycleInv, NEW c \in Clients, NEW r \in TreeOrders, Recalculate(c, r)
  PROVE  CycleInv'
<1>1. PICK S : S = Nodes(parent, r)
  OBVIOUS
<1>2. PICK d : d = DepthIn(parent, S)
  OBVIOUS
<1>3. PICK j : j = PathJob(r, S, d)
  OBVIOUS
<1>4. TreeTyped
  BY DEF CycleInv
<1>5. job' = [job EXCEPT ![c] = j] /\ UNCHANGED treeData
  BY <1>1, <1>2, <1>3, <1>4, RecalculateStarts
<1>6. /\ j \in Paths /\ DOMAIN j.rows = S /\ j.on = r /\ r \in S
      /\ \A k \in DOMAIN j.todo : j.todo[k] \in S
  BY <1>1, <1>2, <1>3, <1>4, PathJobIsTyped
<1>7. j \in TreeJobs /\ CycleFits(parent, treeLate, j)
  <2>1. j \in TreeJobs /\ j.op = "path"
    BY <1>6 DEF TreeJobs, Paths
  <2>2. PathKept(j)
    BY <1>6 DEF PathKept
  <2> QED
    BY <2>1, <2>2 DEF CycleFits, Is
<1> QED
  BY <1>5, <1>7, QuietKeepsCycles

\* A path that persists its next order.
LEMMA PersistNodeWrites ==
  ASSUME TreeTyped, NEW c \in Clients, PersistNode(c), NEW j \in Paths, job[c] = j
  PROVE  \E w \in TreeOrders, k \in Paths :
           /\ w = Head(j.todo) /\ j.todo # << >>
           /\ k.on = j.on /\ k.rows = j.rows /\ k.todo = Tail(j.todo)
           /\ job' = [job EXCEPT ![c] = k]
           /\ times' = [times EXCEPT ![w] = j.rows[w]] /\ NoteWrite(c, w)
           /\ UNCHANGED <<parent, root, level, treeTorn>>
<1>1. PICK todo : todo = j.todo
  OBVIOUS
<1>2. todo \in Seq(TreeOrders) /\ todo # << >>
  BY <1>1 DEF Paths, PersistNode
<1>3. PICK k : k = [j EXCEPT !.todo = Tail(todo)]
  OBVIOUS
<1>4. Tail(todo) \in Seq(TreeOrders) /\ Head(todo) \in TreeOrders
  BY <1>2
<1>5. k \in Paths /\ k.on = j.on /\ k.rows = j.rows /\ k.todo = Tail(todo)
  BY <1>3, <1>4 DEF Paths
<1>6. job' = [job EXCEPT ![c] = k]
  BY <1>1, <1>3 DEF PersistNode, Continue
<1> QED
  BY <1>1, <1>2, <1>4, <1>5, <1>6 DEF PersistNode

LEMMA PersistNodeKeepsCycles ==
  ASSUME CycleInv, NEW c \in Clients, PersistNode(c)
  PROVE  CycleInv'
<1>1. PICK j \in TreeJobs : job[c] = j /\ CycleFits(parent, treeLate, j)
  BY RequestFits
<1>2. j \in Paths /\ j.op = "path"
  BY <1>1, TreeJobKinds DEF PersistNode, At
<1>3. PathKept(j) /\ TreeTyped
  BY <1>1, <1>2 DEF CycleFits, CycleInv
<1>4. PICK w \in TreeOrders, k \in Paths :
        /\ w = Head(j.todo) /\ j.todo # << >>
        /\ k.on = j.on /\ k.rows = j.rows /\ k.todo = Tail(j.todo)
        /\ job' = [job EXCEPT ![c] = k]
        /\ times' = [times EXCEPT ![w] = j.rows[w]] /\ NoteWrite(c, w)
        /\ UNCHANGED <<parent, root, level, treeTorn>>
  BY <1>1, <1>2, <1>3, PersistNodeWrites
<1>5. PICK todo, rest, rows : todo = j.todo /\ rest = k.todo /\ rows = j.rows
  OBVIOUS
<1>6. /\ todo \in Seq(TreeOrders) /\ todo # << >> /\ rest = Tail(todo) /\ rows \in PathRows
      /\ \A i \in DOMAIN todo : todo[i] \in DOMAIN rows
      /\ j.on \in DOMAIN rows
  BY <1>2, <1>3, <1>4, <1>5 DEF Paths, PathKept
<1>7. /\ 1 \in DOMAIN todo /\ Head(todo) = todo[1]
      /\ \A i \in DOMAIN rest : i + 1 \in DOMAIN todo /\ rest[i] = todo[i + 1]
  BY <1>6
<1>8. rows[w] \in Times
  <2>1. w \in DOMAIN rows
    BY <1>4, <1>5, <1>6, <1>7
  <2>2. PICK S \in SUBSET TreeOrders : rows \in [S -> Times]
    BY <1>6 DEF PathRows
  <2> QED
    BY <2>1, <2>2
<1>9. k \in TreeJobs /\ k.op = "path"
  BY DEF TreeJobs, Paths
<1>10. PathKept(k)
  BY <1>4, <1>5, <1>6, <1>7 DEF PathKept
<1>11. CycleFits(parent, treeLate', k)
  BY <1>9, <1>10 DEF CycleFits, Is
<1>12. treeLate \subseteq treeLate' /\ treeLate' \in SUBSET TreeOrders
  BY <1>3, <1>4, LateGrows
<1>13. TreeTyped'
  BY <1>3, <1>4, <1>5, <1>8, <1>9, <1>12 DEF TreeTyped
<1>14. NoFreeCycle(parent, treeLate')
  BY <1>12 DEF CycleInv, NoFreeCycle
<1>15. parent = MovedTo(parent, w, parent[w]) /\ parent[w] \in TreeOrders \cup {NoParent}
  BY <1>3 DEF MovedTo, TreeTyped
<1> QED
  BY <1>4, <1>9, <1>11, <1>13, <1>14, <1>15, WriteKeepsCycles

LEMMA CyclesKept == ASSUME CycleInv, [TreeNext]_treeVars PROVE CycleInv'
<1>1. CASE UNCHANGED treeVars
  BY <1>1 DEF CycleInv, TreeTyped, treeVars, treeData, reqVars
<1>2. ASSUME NEW c \in Clients, NEW w \in TreeOrders, DetachOrder(c, w) PROVE CycleInv'
  BY <1>2, DetachOrderKeepsCycles
<1>3. ASSUME NEW c \in Clients, NEW w \in TreeOrders, Recalculate(c, w) PROVE CycleInv'
  BY <1>3, RecalculateKeepsCycles
<1>4. ASSUME NEW c \in Clients, NEW w \in TreeOrders, NEW p \in TreeOrders, UpdateParent(c, w, p)
      PROVE CycleInv'
  BY <1>4, UpdateParentKeepsCycles
<1>5. ASSUME NEW c \in Clients, DetachSave(c) PROVE CycleInv'
  BY <1>5, DetachSaveKeepsCycles
<1>6. ASSUME NEW c \in Clients, Walk(c) PROVE CycleInv'
  BY <1>6, WalkKeepsCycles
<1>7. ASSUME NEW c \in Clients, ReadParent(c) PROVE CycleInv'
  BY <1>7, ReadParentKeepsCycles
<1>8. ASSUME NEW c \in Clients, SaveParent(c) PROVE CycleInv'
  BY <1>8, SaveParentKeepsCycles
<1>9. ASSUME NEW c \in Clients, FindChildren(c) PROVE CycleInv'
  BY <1>9, FindChildrenKeepsCycles
<1>10. ASSUME NEW c \in Clients, SaveChild(c) PROVE CycleInv'
  BY <1>10, SaveChildKeepsCycles
<1>11. ASSUME NEW c \in Clients, Moved(c) \/ Recalculation(c) PROVE CycleInv'
  BY <1>11, ReplyKeepsCycles DEF Moved, Recalculation
<1>12. ASSUME NEW c \in Clients, PersistNode(c) PROVE CycleInv'
  BY <1>12, PersistNodeKeepsCycles
<1>13. ASSUME NEW c \in Clients, TreeDie(c) PROVE CycleInv'
  BY <1>13, TreeDieKeepsCycles
<1> QED
  BY <1>1, <1>2, <1>3, <1>4, <1>5, <1>6, <1>7, <1>8, <1>9, <1>10, <1>11, <1>12, <1>13
     DEF TreeNext

LEMMA CyclesStart == ASSUME ReqInit, TreeInit PROVE CycleInv
<1>1. /\ IsParents(parent) /\ \A w \in TreeOrders : w \notin AboveIn(parent, w)
  BY DEF TreeInit, Forests, IsParents
<1>2. Acyclic(parent)
  BY <1>1, ForestIsAcyclic
<1>3. NoFreeCycle(parent, treeLate)
  BY <1>2 DEF NoFreeCycle, Acyclic
<1>4. level \in [TreeOrders -> 0..MaxLevel]
  <2>1. ASSUME NEW w \in TreeOrders PROVE Cardinality(AboveIn(parent, w)) \in 0..MaxLevel
    <3>1. AboveIn(parent, w) \in SUBSET (TreeOrders \ {w})
      BY <1>1, <1>2, AboveIsLeast
    <3>2. /\ IsFiniteSet(TreeOrders \ {w})
          /\ Cardinality(TreeOrders \ {w}) = Cardinality(TreeOrders) - 1
      BY FS_RemoveElement, TreeOrdersAssumption
    <3>3. /\ IsFiniteSet(AboveIn(parent, w))
          /\ Cardinality(AboveIn(parent, w)) <= Cardinality(TreeOrders \ {w})
      BY <3>1, <3>2, FS_Subset
    <3>4. /\ Cardinality(AboveIn(parent, w)) \in Nat /\ Cardinality(TreeOrders) \in Nat
      BY <3>3, FS_CardinalityType, TreeOrdersAssumption
    <3> QED
      BY <3>2, <3>3, <3>4, TreeOrdersAssumption, MaxLevelAssumption
  <2> QED
    BY <2>1 DEF TreeInit
<1>5. root \in [TreeOrders -> TreeOrders]
  <2>1. ASSUME NEW w \in TreeOrders
        PROVE  (CHOOSE u \in AboveIn(parent, w) \cup {w} : parent[u] = NoParent) \in TreeOrders
    <3>1. \E u \in AboveIn(parent, w) \cup {w} : u \in TreeOrders /\ parent[u] = NoParent
      BY <1>1, <1>2, RootExists
    <3>2. AboveIn(parent, w) \in SUBSET TreeOrders
      BY <1>1, <1>2, AboveIsLeast
    <3> QED
      BY <3>1, <3>2
  <2> QED
    BY <2>1 DEF TreeInit
<1>6. times \in [TreeOrders -> Times]
  BY DEF TreeInit, NoTimes, Times, MaybeTime
<1>7. NoJob \in TreeJobs /\ CycleFits(parent, treeLate, NoJob)
  BY DEF TreeJobs, CycleFits, Is, NoJob
<1>8. job \in [Clients -> TreeJobs] /\ \A c \in Clients : job[c] = NoJob
  BY <1>7 DEF ReqInit
<1>9. TreeTyped
  BY <1>1, <1>4, <1>5, <1>6, <1>8 DEF TreeTyped, TreeInit, IsParents
<1> QED
  BY <1>3, <1>7, <1>8, <1>9 DEF CycleInv

LEMMA TreeHoldsCycles == TreeSpec => []CycleInv
<1>1. ReqInit /\ TreeInit => CycleInv
  BY CyclesStart
<1>2. CycleInv /\ [TreeNext]_treeVars => CycleInv'
  BY CyclesKept
<1> QED
  BY <1>1, <1>2, PTL DEF TreeSpec

\* Parents, roots, levels and times of orders stay so: a level counts the
\* orders above at first, and is bounded where it is saved.
THEOREM TreeIsTyped == TreeSpec => []TreeTypeOK
<1>1. CycleInv => TreeTypeOK
  <2> SUFFICES ASSUME TreeTyped PROVE TreeTypeOK
    BY DEF CycleInv
  <2>1. ASSUME NEW w \in TreeOrders
        PROVE  {times[w].ef, times[w].ls} \subseteq Int \cup {NoTime} /\ times[w].critical \in BOOLEAN
    <3>1. times[w] \in Times
      BY DEF TreeTyped
    <3> QED
      BY <3>1 DEF Times, MaybeTime
  <2> QED
    BY <2>1 DEF TreeTyped, TreeTypeOK
<1> QED
  BY <1>1, TreeHoldsCycles, PTL

LEMMA FreeCyclesAreLate == ASSUME CycleInv PROVE CyclesAreLate
<1> SUFFICES ASSUME NEW w \in TreeOrders, w \in AboveIn(parent, w)
             PROVE  AboveIn(parent, w) \cap treeLate # {}
  BY DEF CyclesAreLate
<1>1. IsParents(parent)
  BY DEF CycleInv, TreeTyped, IsParents
<1>2. PICK S \in SUBSET TreeOrders : w \in S /\ S \subseteq AboveIn(parent, w) /\ ClosedIn(parent, S)
  BY <1>1, CycleIsClosed
<1>3. S \cap treeLate # {}
  BY <1>2 DEF CycleInv, NoFreeCycle
<1> QED
  BY <1>2, <1>3

\* Changes of parents that do not overlap close no cycle, although the walk
\* up from the new parent and the save of the row are separate statements.
THEOREM CyclesStayLate == TreeSpec => []CyclesAreLate
<1>1. CycleInv => CyclesAreLate
  BY FreeCyclesAreLate
<1> QED
  BY <1>1, TreeHoldsCycles, PTL

-----------------------------------------------------------------------------
(* Levels and roots *)

CountsUp(p, l, r, w) == l[w] = l[p[w]] + 1 /\ r[w] = r[p[w]]
AllCount(p, l, r) == \A w \in TreeOrders : p[w] # NoParent => CountsUp(p, l, r, w)

\* Depth first, v has its turn after w: its parent is above w, and it is not.
AfterIn(p, w, v) == p[v] \in AboveIn(p, w) /\ v \notin AboveIn(p, w) \cup {w}

\* The rows to save go by the level and the root rt of their parents, which
\* no row before them is.
RowsFit(p, l, r, rt, todo) ==
  \A k \in DOMAIN todo :
    /\ p[todo[k].on] # NoParent
    /\ todo[k].level = l[p[todo[k].on]] + 1 /\ rt = r[p[todo[k].on]]
    /\ \A i \in DOMAIN todo : i < k => AfterIn(p, todo[i].on, todo[k].on)
FindFits(p, l, r, on, n, rt, todo) ==
  /\ rt = r[on] /\ n = l[on] /\ RowsFit(p, l, r, rt, todo)
  /\ \A k \in DOMAIN todo : AfterIn(p, on, todo[k].on)

MoveFits(p, l, r, j) ==
  /\ Is(j, "move", "save") => j.root = r[j.to] /\ j.level = l[j.to] + 1
  /\ Is(j, "move", "find") => FindFits(p, l, r, j.on, j.level, j.root, j.todo)
  /\ Is(j, "move", "child") => RowsFit(p, l, r, j.root, j.todo)

\* A path holds the longest paths when levels count, which they do when its
\* first order is persisted.
PathFits(p, l, r, t, j) ==
  j.op = "path" =>
    /\ AllCount(p, l, r) => \A w \in DOMAIN j.rows : j.rows[w].critical <=> LongestIn(p, j.on, w)
    /\ \A w \in DOMAIN j.rows :
         (\A k \in DOMAIN j.todo : j.todo[k] # w) => AllCount(p, l, r) /\ t[w] = j.rows[w]

\* The request still has to save w.
Owes(p, j, w) ==
  \/ Is(j, "move", "find") /\ j.on = p[w]
  \/ /\ Is(j, "move", "find") \/ Is(j, "move", "child")
     /\ \E k \in DOMAIN j.todo : j.todo[k].on = w

LevelsOwed(p, l, r, jobs) ==
  \A w \in TreeOrders :
    p[w] # NoParent => CountsUp(p, l, r, w) \/ \E c \in Clients : Owes(p, jobs[c], w)

LevelInv ==
  treeLate = {} /\ ~treeTorn =>
    /\ LevelsOwed(parent, level, root, job)
    /\ \A c \in Clients, j \in TreeJobs :
         job[c] = j => /\ MoveFits(parent, level, root, j)
                       /\ PathFits(parent, level, root, times, j)

LEMMA NothingOwed ==
  /\ \A p, w : ~Owes(p, NoJob, w)
  /\ \A p, l, r, t : MoveFits(p, l, r, NoJob) /\ PathFits(p, l, r, t, NoJob)
BY DEF Owes, MoveFits, PathFits, Is, NoJob

LEMMA QuietKeepsLevels ==
  ASSUME CycleInv, LevelInv, NEW c \in Clients, NEW i, job[c] = i, NEW j \in TreeJobs,
         job' = [job EXCEPT ![c] = j], UNCHANGED treeData,
         treeLate = {} /\ ~treeTorn =>
           /\ MoveFits(parent, level, root, j) /\ PathFits(parent, level, root, times, j)
           /\ \A w \in TreeOrders : Owes(parent, i, w) => Owes(parent, j, w)
  PROVE  LevelInv'
<1>1. UNCHANGED <<parent, root, level, times, treeLate, treeTorn>>
  BY DEF treeData
<1> SUFFICES ASSUME treeLate = {}, ~treeTorn
             PROVE  /\ LevelsOwed(parent, level, root, job')
                    /\ \A d \in Clients, k \in TreeJobs :
                         job'[d] = k => /\ MoveFits(parent, level, root, k)
                                        /\ PathFits(parent, level, root, times, k)
  BY <1>1 DEF LevelInv
<1>2. job \in [Clients -> TreeJobs]
  BY DEF CycleInv, TreeTyped
<1>3. ASSUME NEW w \in TreeOrders, NEW d \in Clients, Owes(parent, job[d], w)
      PROVE  \E e \in Clients : Owes(parent, job'[e], w)
  <2>1. CASE d = c
    BY <1>2, <1>3, <2>1
  <2>2. CASE d # c
    BY <1>2, <1>3, <2>2
  <2> QED
    BY <2>1, <2>2
<1>4. LevelsOwed(parent, level, root, job')
  BY <1>3 DEF LevelInv, LevelsOwed
<1>5. \A d \in Clients, k \in TreeJobs : job'[d] = k => (d = c /\ k = j) \/ job[d] = k
  BY <1>2
<1> QED
  BY <1>4, <1>5 DEF LevelInv

\* The client that writes is alone.
LEMMA WriteIsAlone ==
  ASSUME NEW c \in Clients, NEW w, NoteWrite(c, w), treeLate' = {}
  PROVE  treeLate = {} /\ \A d \in Clients : d # c => job[d] = NoJob
BY DEF NoteWrite

LEMMA AloneOwes ==
  ASSUME LevelInv, treeLate = {}, ~treeTorn, NEW c \in Clients, NEW j \in TreeJobs,
         job[c] = j, \A d \in Clients : d # c => job[d] = NoJob
  PROVE  /\ \A w \in TreeOrders :
              parent[w] # NoParent => CountsUp(parent, level, root, w) \/ Owes(parent, j, w)
         /\ MoveFits(parent, level, root, j) /\ PathFits(parent, level, root, times, j)
<1>1. \A w \in TreeOrders :
        (\E d \in Clients : Owes(parent, job[d], w)) => Owes(parent, j, w)
  BY NothingOwed
<1> QED
  BY <1>1 DEF LevelInv, LevelsOwed

LEMMA WriteKeepsLevels ==
  ASSUME CycleInv, NEW c \in Clients, NEW j \in TreeJobs,
         job' = [job EXCEPT ![c] = j], \A d \in Clients : d # c => job[d] = NoJob,
         NEW p, p = parent', NEW l, l = level', NEW r, r = root', NEW t, t = times',
         MoveFits(p, l, r, j), PathFits(p, l, r, t, j),
         \A w \in TreeOrders : p[w] # NoParent => CountsUp(p, l, r, w) \/ Owes(p, j, w)
  PROVE  LevelInv'
<1>1. job'[c] = j /\ \A d \in Clients : d # c => job'[d] = NoJob
  BY DEF CycleInv, TreeTyped
<1>2. LevelsOwed(p, l, r, job')
  BY <1>1 DEF LevelsOwed
<1>3. \A d \in Clients, k \in TreeJobs : job'[d] = k => MoveFits(p, l, r, k) /\ PathFits(p, l, r, t, k)
  BY <1>1, NothingOwed
<1> QED
  BY <1>2, <1>3 DEF LevelInv

-----------------------------------------------------------------------------
(* What a save and a query of children do to the levels *)

PutAt(f, x, v) == [f EXCEPT ![x] = v]

LEMMA JoinCounts ==
  ASSUME NEW p, IsParents(p), NEW l \in [TreeOrders -> Int], NEW r \in [TreeOrders -> TreeOrders],
         NEW on \in TreeOrders, NEW to \in TreeOrders, on # to,
         NEW rt, rt = r[to], NEW n, n = l[to] + 1, AllCount(p, l, r),
         NEW q, q = MovedTo(p, on, to), NEW m, m = PutAt(l, on, n),
         NEW s, s = PutAt(r, on, rt)
  PROVE  /\ m[on] = n /\ s[on] = rt
         /\ \A x \in TreeOrders : q[x] # NoParent => CountsUp(q, m, s, x) \/ q[x] = on
<1>1. /\ q[on] = to /\ m[on] = n /\ s[on] = rt
      /\ \A x \in TreeOrders : x # on => q[x] = p[x] /\ m[x] = l[x] /\ s[x] = r[x]
  BY DEF MovedTo, PutAt, IsParents
<1>2. ASSUME NEW x \in TreeOrders, q[x] # NoParent, q[x] # on PROVE CountsUp(q, m, s, x)
  <2>1. CASE x = on
    BY <1>1, <2>1 DEF CountsUp
  <2>2. CASE x # on
    <3>1. CountsUp(p, l, r, x) /\ p[x] \in TreeOrders
      BY <1>1, <1>2, <2>2 DEF AllCount, IsParents
    <3> QED
      BY <1>1, <1>2, <2>2, <3>1 DEF CountsUp
  <2> QED
    BY <2>1, <2>2
<1> QED
  BY <1>1, <1>2

\* With levels m and roots s, all count but the children of w.
CountButBelow(p, l, r, m, s, w) ==
  \A x \in TreeOrders : p[x] # NoParent /\ p[x] # w /\ (x = w \/ CountsUp(p, l, r, x))
                          => CountsUp(p, m, s, x)

LEMMA ChildCounts ==
  ASSUME NEW p, IsParents(p), Acyclic(p), NEW l \in [TreeOrders -> Int],
         NEW r \in [TreeOrders -> TreeOrders], NEW rt, NEW todo \in Seq(ChildRows), todo # << >>,
         RowsFit(p, l, r, rt, todo), NEW row, row = Head(todo), NEW w, w = row.on,
         NEW n, n = row.level, NEW rest, rest = Tail(todo),
         NEW m, m = PutAt(l, w, n), NEW s, s = PutAt(r, w, rt)
  PROVE  /\ FindFits(p, m, s, w, n, rt, rest)
         /\ CountButBelow(p, l, r, m, s, w)
<1>1. /\ rest \in Seq(ChildRows) /\ row = todo[1] /\ 1 \in DOMAIN todo
      /\ \A k \in DOMAIN rest : k + 1 \in DOMAIN todo /\ rest[k] = todo[k + 1]
      /\ \A k \in DOMAIN rest : k \in Nat \ {0}
  BY Headed
<1>2. /\ w \in TreeOrders /\ p[w] # NoParent /\ n = l[p[w]] + 1 /\ rt = r[p[w]]
  BY <1>1, RowsAreTyped DEF RowsFit
<1>3. /\ m[w] = n /\ s[w] = rt
      /\ \A x \in TreeOrders : x # w => m[x] = l[x] /\ s[x] = r[x]
  BY <1>2 DEF PutAt
<1>4. p[w] \in TreeOrders /\ p[w] # w /\ w \notin AboveIn(p, w)
  BY <1>2, AboveOfParent, AboveIsLeast
<1>5. ASSUME NEW x \in TreeOrders, p[x] # NoParent, p[x] # w, x = w \/ CountsUp(p, l, r, x)
      PROVE  CountsUp(p, m, s, x)
  <2>1. p[x] \in TreeOrders
    BY <1>5 DEF IsParents
  <2>2. CASE x = w
    BY <1>2, <1>3, <1>4, <2>2 DEF CountsUp
  <2>3. CASE x # w
    BY <1>3, <1>5, <2>1, <2>3 DEF CountsUp
  <2> QED
    BY <2>2, <2>3
<1>6. ASSUME NEW k \in DOMAIN rest
      PROVE  /\ p[rest[k].on] # NoParent
             /\ rest[k].level = m[p[rest[k].on]] + 1 /\ rt = s[p[rest[k].on]]
             /\ \A i \in DOMAIN rest : i < k => AfterIn(p, rest[i].on, rest[k].on)
             /\ AfterIn(p, w, rest[k].on)
  <2>1. PICK v, e, h : v = rest[k].on /\ e = rest[k].level /\ h = k + 1
    OBVIOUS
  <2>2. h \in DOMAIN todo /\ todo[h].on = v /\ todo[h].level = e /\ v \in TreeOrders /\ 1 < h
    BY <1>1, <2>1, RowsAreTyped
  <2>3. /\ p[v] # NoParent /\ e = l[p[v]] + 1 /\ rt = r[p[v]]
        /\ \A i \in DOMAIN todo : i < h => AfterIn(p, todo[i].on, v)
    BY <2>2 DEF RowsFit
  <2>4. AfterIn(p, w, v)
    BY <1>1, <2>2, <2>3
  <2>5. p[v] # w /\ p[v] \in TreeOrders
    BY <1>4, <2>2, <2>3, <2>4 DEF AfterIn, IsParents
  <2>6. e = m[p[v]] + 1 /\ rt = s[p[v]]
    BY <1>3, <2>3, <2>5
  <2>7. ASSUME NEW i \in DOMAIN rest, i < k PROVE AfterIn(p, rest[i].on, v)
    <3>1. i + 1 \in DOMAIN todo /\ rest[i] = todo[i + 1] /\ i + 1 < h
      BY <1>1, <2>1, <2>7
    <3> QED
      BY <2>3, <3>1
  <2> QED
    BY <2>1, <2>3, <2>4, <2>6, <2>7
<1>7. RowsFit(p, m, s, rt, rest)
  BY <1>6 DEF RowsFit
<1> QED
  BY <1>3, <1>5, <1>6, <1>7 DEF FindFits, CountButBelow

LEMMA FoundFits ==
  ASSUME NEW p, IsParents(p), Acyclic(p), NEW l, NEW r, NEW t, NEW on \in TreeOrders, NEW n, NEW rt,
         NEW todo \in Seq(ChildRows), FindFits(p, l, r, on, n, rt, todo),
         NEW s, ListsRows(s, p, t, on, n), NEW q, q = s \o todo
  PROVE  RowsFit(p, l, r, rt, q)
<1>1. /\ s \in Seq(ChildRows) /\ q \in Seq(ChildRows) /\ Len(s) \in Nat
      /\ DOMAIN q = 1..(Len(s) + Len(todo)) /\ DOMAIN s = 1..Len(s)
      /\ \A k \in DOMAIN q : IF k <= Len(s) THEN k \in DOMAIN s /\ q[k] = s[k]
                             ELSE k - Len(s) \in DOMAIN todo /\ q[k] = todo[k - Len(s)]
  BY Joined DEF ListsRows
<1>2. on # NoParent /\ on \in TreeOrders
  BY NoParentAssumption
\* A child of on.
<1>3. ASSUME NEW w \in TreeOrders, p[w] = on
      PROVE  /\ AboveIn(p, w) = {on} \cup AboveIn(p, on) /\ w \notin AboveIn(p, w) \cup {on}
             /\ w \notin AboveIn(p, on)
  BY <1>2, <1>3, AboveOfParent, AboveIsLeast
<1>4. on \notin AboveIn(p, on)
  BY AboveIsLeast
<1>5. \A k \in DOMAIN s : /\ s[k].on \in TreeOrders /\ p[s[k].on] = on /\ s[k].level = n + 1
  BY DEF ListsRows
<1>6. \A k \in DOMAIN todo : /\ todo[k].on \in TreeOrders /\ AfterIn(p, on, todo[k].on)
                             /\ p[todo[k].on] # NoParent
                             /\ todo[k].level = l[p[todo[k].on]] + 1 /\ rt = r[p[todo[k].on]]
                             /\ \A i \in DOMAIN todo : i < k => AfterIn(p, todo[i].on, todo[k].on)
  BY RowsAreTyped DEF FindFits, RowsFit
<1>7. rt = r[on] /\ n = l[on]
  BY DEF FindFits
<1> SUFFICES ASSUME NEW k \in DOMAIN q
             PROVE  /\ p[q[k].on] # NoParent
                    /\ q[k].level = l[p[q[k].on]] + 1 /\ rt = r[p[q[k].on]]
                    /\ \A i \in DOMAIN q : i < k => AfterIn(p, q[i].on, q[k].on)
  BY DEF RowsFit
<1>8. CASE k <= Len(s)
  <2>1. k \in DOMAIN s /\ q[k] = s[k]
    BY <1>1, <1>8
  <2>2. PICK v : v = s[k].on
    OBVIOUS
  <2>3. v \in TreeOrders /\ p[v] = on /\ s[k].level = n + 1
    BY <1>5, <2>1, <2>2
  <2>4. ASSUME NEW i \in DOMAIN q, i < k PROVE AfterIn(p, q[i].on, v)
    <3>1. i <= Len(s)
      BY <1>1, <1>8, <2>4
    <3>2. i \in DOMAIN s /\ q[i] = s[i] /\ i # k
      BY <1>1, <2>4, <3>1
    <3>3. PICK w : w = s[i].on
      OBVIOUS
    <3>4. w \in TreeOrders /\ p[w] = on /\ w # v
      BY <1>5, <2>1, <2>2, <3>2, <3>3 DEF ListsRows
    <3>5. AboveIn(p, w) = {on} \cup AboveIn(p, on)
      BY <1>3, <3>4
    <3>6. v # on /\ v \notin AboveIn(p, on)
      BY <1>3, <2>3
    <3> QED
      BY <2>3, <3>2, <3>3, <3>4, <3>5, <3>6 DEF AfterIn
  <2> QED
    BY <1>2, <1>7, <2>1, <2>2, <2>3, <2>4
<1>9. CASE ~(k <= Len(s))
  <2>1. PICK h : h = k - Len(s)
    OBVIOUS
  <2>2. h \in DOMAIN todo /\ q[k] = todo[h]
    BY <1>1, <1>9, <2>1
  <2>3. PICK v : v = todo[h].on
    OBVIOUS
  <2>4. /\ v \in TreeOrders /\ AfterIn(p, on, v) /\ p[v] # NoParent
        /\ todo[h].level = l[p[v]] + 1 /\ rt = r[p[v]]
        /\ \A i \in DOMAIN todo : i < h => AfterIn(p, todo[i].on, v)
    BY <1>6, <2>2, <2>3
  <2>5. ASSUME NEW i \in DOMAIN q, i < k PROVE AfterIn(p, q[i].on, v)
    <3>1. CASE i <= Len(s)
      <4>1. i \in DOMAIN s /\ q[i] = s[i]
        BY <1>1, <3>1
      <4>2. PICK w : w = s[i].on
        OBVIOUS
      <4>3. w \in TreeOrders /\ p[w] = on
        BY <1>5, <4>1, <4>2
      <4>4. AboveIn(p, w) = {on} \cup AboveIn(p, on)
        BY <1>3, <4>3
      <4>5. v # w
        BY <1>4, <2>4, <4>3 DEF AfterIn
      <4> QED
        BY <2>4, <4>1, <4>2, <4>4, <4>5 DEF AfterIn
    <3>2. CASE ~(i <= Len(s))
      <4>1. PICK g : g = i - Len(s)
        OBVIOUS
      <4>2. g \in DOMAIN todo /\ q[i] = todo[g]
        BY <1>1, <3>2, <4>1
      <4>3. g < h
        BY <1>1, <2>1, <2>5, <4>1
      <4> QED
        BY <2>4, <4>2, <4>3
    <3> QED
      BY <3>1, <3>2
  <2> QED
    BY <2>2, <2>3, <2>4, <2>5
<1> QED
  BY <1>8, <1>9

-----------------------------------------------------------------------------
(* The steps *)

TreeInv == CycleInv /\ LevelInv

LEMMA ForestWhenFree ==
  ASSUME CycleInv, treeLate = {}
  PROVE  /\ IsParents(parent) /\ Acyclic(parent)
         /\ level \in [TreeOrders -> Int] /\ root \in [TreeOrders -> TreeOrders]
<1>1. Acyclic(parent)
  BY DEF CycleInv, NoFreeCycle, Acyclic
<1> QED
  BY <1>1, MaxLevelAssumption DEF CycleInv, TreeTyped, IsParents

\* A stage of a change of parent that saves nothing and owes nothing.
LEMMA EarlyMove ==
  ASSUME NEW j, j.op = "move", j.stage \in {"detach", "walk", "read"}
  PROVE  /\ \A p, w : ~Owes(p, j, w)
         /\ \A p, l, r, t : MoveFits(p, l, r, j) /\ PathFits(p, l, r, t, j)
BY DEF Owes, MoveFits, PathFits, Is

LEMMA AcceptKeepsLevels ==
  ASSUME TreeInv, NEW c \in Clients, NEW j, Accept(c, j), j \in Detaches \cup Walks,
         UNCHANGED treeData
  PROVE  LevelInv'
<1>1. j \in TreeJobs /\ j.op = "move" /\ j.stage \in {"detach", "walk", "read"}
  BY DEF TreeJobs, Detaches, Walks
<1>2. job[c] = NoJob /\ job' = [job EXCEPT ![c] = j]
  BY DEF Accept
<1> QED
  BY <1>1, <1>2, EarlyMove, NothingOwed, QuietKeepsLevels DEF TreeInv

LEMMA DetachOrderKeepsLevels ==
  ASSUME TreeInv, NEW c \in Clients, NEW w \in TreeOrders, DetachOrder(c, w)
  PROVE  LevelInv'
<1>1. PICK j : j = [op |-> "move", stage |-> "detach", on |-> w, times |-> times[w]]
  OBVIOUS
<1>2. j \in Detaches
  BY <1>1 DEF Detaches, TreeInv, CycleInv, TreeTyped
<1>3. Accept(c, j) /\ UNCHANGED treeData
  BY <1>1 DEF DetachOrder
<1> QED
  BY <1>2, <1>3, AcceptKeepsLevels

LEMMA UpdateParentKeepsLevels ==
  ASSUME TreeInv, NEW c \in Clients, NEW w \in TreeOrders, NEW p \in TreeOrders,
         UpdateParent(c, w, p)
  PROVE  LevelInv'
<1>1. PICK j : j = [op |-> "move", stage |-> "walk", on |-> w, to |-> p,
                    current |-> p, visited |-> {}, times |-> times[w]]
  OBVIOUS
<1>2. j \in Walks
  BY <1>1 DEF Walks, TreeInv, CycleInv, TreeTyped
<1>3. Accept(c, j) /\ UNCHANGED treeData
  BY <1>1 DEF UpdateParent
<1> QED
  BY <1>2, <1>3, AcceptKeepsLevels

\* A request that owes nothing ends, or has written nothing yet.
LEMMA IdleKeepsLevels ==
  ASSUME TreeInv, NEW c \in Clients, NEW i, job[c] = i, \A w : ~Owes(parent, i, w),
         NEW j \in TreeJobs, job' = [job EXCEPT ![c] = j], UNCHANGED treeData,
         j = NoJob \/ (j.op = "move" /\ j.stage \in {"detach", "walk", "read"})
  PROVE  LevelInv'
<1>1. MoveFits(parent, level, root, j) /\ PathFits(parent, level, root, times, j)
  BY EarlyMove, NothingOwed
<1> QED
  BY <1>1, QuietKeepsLevels DEF TreeInv

LEMMA WalkKeepsLevels ==
  ASSUME TreeInv, NEW c \in Clients, Walk(c), CycleInv'
  PROVE  LevelInv'
<1>1. PICK i, j : i = job[c] /\ j = job'[c]
  OBVIOUS
<1>2. i.op = "move" /\ i.stage = "walk" /\ i \in Walks /\ UNCHANGED treeData
  <2>1. i \in TreeJobs
    BY <1>1 DEF TreeInv, CycleInv, TreeTyped
  <2> QED
    BY <1>1, <2>1, TreeJobKinds DEF Walk, At
<1>3. \A w : ~Owes(parent, i, w)
  BY <1>2, EarlyMove
<1>4. j \in TreeJobs
  BY <1>1 DEF CycleInv, TreeTyped
<1>5. job \in [Clients -> TreeJobs]
  BY DEF TreeInv, CycleInv, TreeTyped
<1>6. CASE Reaches(i)
  <2>1. job' = [job EXCEPT ![c] = NoJob]
    BY <1>1, <1>6 DEF Walk, Reply, Continue
  <2>2. j = NoJob
    BY <1>1, <1>5, <2>1
  <2> QED
    BY <1>1, <1>2, <1>3, <1>4, <2>1, <2>2, IdleKeepsLevels
<1>7. CASE ~Reaches(i) /\ parent[i.current] = NoParent
  <2>1. PICK k : k = [op |-> "move", stage |-> "read", on |-> i.on, to |-> i.to, times |-> i.times]
    OBVIOUS
  <2>2. job' = [job EXCEPT ![c] = k]
    BY <1>1, <1>7, <2>1 DEF Walk, Continue
  <2>3. j = k /\ k.op = "move" /\ k.stage = "read"
    BY <1>1, <1>5, <2>1, <2>2
  <2> QED
    BY <1>1, <1>2, <1>3, <1>4, <2>2, <2>3, IdleKeepsLevels
<1>8. CASE ~Reaches(i) /\ parent[i.current] # NoParent
  <2>1. PICK k : k = [i EXCEPT !.current = parent[i.current], !.visited = i.visited \cup {i.current}]
    OBVIOUS
  <2>2. job' = [job EXCEPT ![c] = k]
    BY <1>1, <1>8, <2>1 DEF Walk, Continue
  <2>3. j = k
    BY <1>1, <1>5, <2>2
  <2>4. k.op = "move" /\ k.stage = "walk"
    BY <1>2, <2>1 DEF Walks
  <2> QED
    BY <1>1, <1>2, <1>3, <1>4, <2>2, <2>3, <2>4, IdleKeepsLevels
<1> QED
  BY <1>6, <1>7, <1>8

LEMMA ReadParentKeepsLevels ==
  ASSUME TreeInv, NEW c \in Clients, ReadParent(c), CycleInv'
  PROVE  LevelInv'
<1>1. PICK i \in TreeJobs : i = job[c]
  BY DEF TreeInv, CycleInv, TreeTyped
<1>2. i.op = "move" /\ i.stage = "read" /\ UNCHANGED treeData
  BY <1>1 DEF ReadParent, At
<1>3. \A w : ~Owes(parent, i, w)
  BY <1>2, EarlyMove
<1>4. PICK k : k = [op |-> "move", stage |-> "save", on |-> i.on, to |-> i.to,
                    root |-> root[i.to], level |-> level[i.to] + 1, times |-> i.times]
  OBVIOUS
<1>5. job' = [job EXCEPT ![c] = k]
  BY <1>1, <1>4 DEF ReadParent, Continue
<1>6. k \in TreeJobs
  <2>1. job'[c] = k
    BY <1>5 DEF TreeInv, CycleInv, TreeTyped
  <2> QED
    BY <2>1 DEF CycleInv, TreeTyped
<1>7. /\ k.op = "move" /\ k.stage = "save" /\ k.to = i.to /\ k.root = root[i.to]
      /\ k.level = level[i.to] + 1
  BY <1>4
<1>8. MoveFits(parent, level, root, k) /\ PathFits(parent, level, root, times, k)
  BY <1>7 DEF MoveFits, PathFits, Is
<1> QED
  BY <1>1, <1>2, <1>3, <1>5, <1>6, <1>8, QuietKeepsLevels DEF TreeInv

LEMMA FindChildrenKeepsLevels ==
  ASSUME TreeInv, NEW c \in Clients, FindChildren(c), CycleInv'
  PROVE  LevelInv'
<1>1. PICK j \in TreeJobs : j = job[c]
  BY DEF TreeInv, CycleInv, TreeTyped
<1>2. j \in Finds /\ Is(j, "move", "find") /\ UNCHANGED treeData
  BY <1>1, TreeJobKinds DEF FindChildren, At, Is
<1>3. PICK on, n, r, todo : on = j.on /\ n = j.level /\ r = j.root /\ todo = j.todo
  OBVIOUS
<1>4. on \in TreeOrders /\ n \in Nat /\ r \in TreeOrders /\ todo \in Seq(ChildRows)
  BY <1>2, <1>3 DEF Finds
<1>5. PICK s : s = SetToSeq(FoundRows(parent, times, on, n))
  OBVIOUS
<1>6. ListsRows(s, parent, times, on, n)
  BY <1>4, <1>5, RowsAreListed DEF TreeInv, CycleInv, TreeTyped, IsParents
<1>7. PICK now : now = s \o todo
  OBVIOUS
<1>8. PICK k : k = [op |-> "move", stage |-> "child", root |-> r, todo |-> now]
  OBVIOUS
<1>9. FoundRows(parent, times, on, n) = {Below(w, n) : w \in Children(on)}
  BY DEF FoundRows, Below, Children
<1>10. job' = [job EXCEPT ![c] = k]
  BY <1>1, <1>3, <1>5, <1>7, <1>8, <1>9 DEF FindChildren, Continue
<1>11. k \in TreeJobs
  <2>1. job'[c] = k
    BY <1>10 DEF TreeInv, CycleInv, TreeTyped
  <2> QED
    BY <2>1 DEF CycleInv, TreeTyped
<1>12. k.op = "move" /\ k.stage = "child" /\ k.root = r /\ k.todo = now
  BY <1>8
<1>13. ASSUME treeLate = {}, ~treeTorn
       PROVE  MoveFits(parent, level, root, k) /\ PathFits(parent, level, root, times, k)
  <2>1. MoveFits(parent, level, root, j)
    BY <1>1, <1>13 DEF TreeInv, LevelInv
  <2>2. FindFits(parent, level, root, on, n, r, todo)
    BY <1>2, <1>3, <2>1 DEF MoveFits
  <2>3. RowsFit(parent, level, root, r, now)
    BY <1>4, <1>6, <1>7, <1>13, <2>2, ForestWhenFree, FoundFits DEF TreeInv
  <2> QED
    BY <1>12, <2>3 DEF MoveFits, PathFits, Is
<1>14. ASSUME NEW w \in TreeOrders, Owes(parent, j, w) PROVE Owes(parent, k, w)
  <2>1. \E x \in DOMAIN now : now[x].on = w
    <3>1. CASE on = parent[w]
      <4>1. PICK x \in DOMAIN s : s[x].on = w
        BY <1>6, <3>1 DEF ListsRows
      <4>2. x \in DOMAIN now /\ now[x] = s[x]
        <5>1. s \in Seq(ChildRows)
          BY <1>6 DEF ListsRows
        <5>2. /\ \A y \in DOMAIN s : y \in DOMAIN now
              /\ DOMAIN s = 1..Len(s) /\ Len(s) \in Nat
              /\ \A y \in DOMAIN now : y <= Len(s) => now[y] = s[y]
          BY <1>4, <1>7, <5>1, Joined
        <5> QED
          BY <4>1, <5>2
      <4> QED
        BY <4>1, <4>2
    <3>2. CASE \E x \in DOMAIN todo : todo[x].on = w
      <4>1. PICK x \in DOMAIN todo : todo[x].on = w
        BY <3>2
      <4>2. x + Len(s) \in DOMAIN now /\ now[x + Len(s)] = todo[x]
        BY <1>4, <1>6, <1>7, Joined DEF ListsRows
      <4> QED
        BY <4>1, <4>2
    <3> QED
      BY <1>3, <1>14, <3>1, <3>2 DEF Owes
  <2> QED
    BY <1>12, <2>1 DEF Owes, Is
<1> QED
  BY <1>1, <1>2, <1>10, <1>11, <1>13, <1>14, QuietKeepsLevels DEF TreeInv

LEMMA SaveParentKeepsLevels ==
  ASSUME TreeInv, NEW c \in Clients, SaveParent(c), CycleInv', treeLate' = {}, ~treeTorn'
  PROVE  LevelInv'
<1>1. PICK j \in TreeJobs : job[c] = j /\ CycleFits(parent, treeLate, j)
  BY RequestFits DEF TreeInv
<1>2. j \in ParentSaves /\ Is(j, "move", "save")
  BY <1>1, TreeJobKinds DEF SaveParent, At, Is
<1>3. PICK on, to, r, n, t : on = j.on /\ to = j.to /\ r = j.root /\ n = j.level /\ t = j.times
  OBVIOUS
<1>4. /\ on \in TreeOrders /\ to \in TreeOrders
      /\ JoinFits(parent, treeLate, on, to)
  BY <1>1, <1>2, <1>3 DEF ParentSaves, CycleFits
<1>5. PICK k : k = [op |-> "move", stage |-> "find", on |-> on, level |-> n,
                    root |-> r, todo |-> << >>]
  OBVIOUS
<1>6. /\ job' = [job EXCEPT ![c] = k] /\ WriteRow(c, on, to, r, n, t)
      /\ UNCHANGED treeTorn
  BY <1>1, <1>3, <1>5 DEF SaveParent, Continue
<1>7. /\ parent' = MovedTo(parent, on, to) /\ root' = PutAt(root, on, r)
      /\ level' = PutAt(level, on, n) /\ NoteWrite(c, on)
  BY <1>6 DEF WriteRow, MovedTo, PutAt
<1>8. treeLate = {} /\ ~treeTorn /\ \A d \in Clients : d # c => job[d] = NoJob
  BY <1>6, <1>7, WriteIsAlone
<1>9. /\ IsParents(parent) /\ level \in [TreeOrders -> Int] /\ root \in [TreeOrders -> TreeOrders]
  BY <1>8, ForestWhenFree DEF TreeInv
<1>10. on # to
  <2> SUFFICES ASSUME on = to PROVE FALSE
    OBVIOUS
  <2>1. ClosedIn(MovedTo(parent, on, to), {on})
    BY <1>4, <1>9 DEF ClosedIn, MovedTo, IsParents
  <2> QED
    BY <1>4, <1>8, <2>1 DEF JoinFits
<1>11. /\ \A w \in TreeOrders :
            parent[w] # NoParent => CountsUp(parent, level, root, w) \/ Owes(parent, j, w)
       /\ MoveFits(parent, level, root, j)
  BY <1>1, <1>8, AloneOwes DEF TreeInv
<1>12. AllCount(parent, level, root)
  BY <1>2, <1>11 DEF AllCount, Owes, Is
<1>13. r = root[to] /\ n = level[to] + 1
  BY <1>2, <1>3, <1>11 DEF MoveFits
<1>14. PICK q, m, s : q = parent' /\ m = level' /\ s = root'
  OBVIOUS
<1>15. /\ m[on] = n /\ s[on] = r
       /\ \A x \in TreeOrders : q[x] # NoParent => CountsUp(q, m, s, x) \/ q[x] = on
  BY <1>4, <1>7, <1>9, <1>10, <1>12, <1>13, <1>14, JoinCounts
<1>16. k \in TreeJobs
  <2>1. job'[c] = k
    BY <1>6 DEF TreeInv, CycleInv, TreeTyped
  <2> QED
    BY <2>1 DEF CycleInv, TreeTyped
<1>17. /\ k.op = "move" /\ k.stage = "find" /\ k.on = on /\ k.level = n /\ k.root = r
       /\ k.todo = << >>
  BY <1>5
<1>18. MoveFits(q, m, s, k) /\ PathFits(q, m, s, times', k)
  <2>1. FindFits(q, m, s, on, n, r, << >>)
    BY <1>15 DEF FindFits, RowsFit
  <2> QED
    BY <1>17, <2>1 DEF MoveFits, PathFits, Is
<1>19. \A x \in TreeOrders : q[x] # NoParent => CountsUp(q, m, s, x) \/ Owes(q, k, x)
  BY <1>15, <1>17 DEF Owes, Is
<1>20. PICK u : u = times'
  OBVIOUS
<1>21. CycleInv
  BY DEF TreeInv
<1> QED
  BY <1>6, <1>8, <1>14, <1>16, <1>18, <1>19, <1>20, <1>21, WriteKeepsLevels

LEMMA SaveChildKeepsLevels ==
  ASSUME TreeInv, NEW c \in Clients, SaveChild(c), CycleInv', treeLate' = {}, ~treeTorn'
  PROVE  LevelInv'
<1>1. PICK j \in TreeJobs : job[c] = j /\ CycleFits(parent, treeLate, j)
  BY RequestFits DEF TreeInv
<1>2. j \in ChildSaves /\ Is(j, "move", "child")
  BY <1>1, TreeJobKinds DEF SaveChild, At, Is
<1>3. PICK r, todo, rest : r = j.root /\ todo = j.todo /\ rest = Tail(todo)
  OBVIOUS
<1>4. /\ r \in TreeOrders /\ todo \in Seq(ChildRows) /\ todo # << >>
      /\ RowsKept(parent, treeLate, todo)
  BY <1>1, <1>2, <1>3 DEF ChildSaves, CycleFits, SaveChild
<1>5. PICK row : row = Head(todo)
  OBVIOUS
<1>6. /\ 1 \in DOMAIN todo /\ row = todo[1]
      /\ \A i \in DOMAIN todo : i # 1 => i - 1 \in DOMAIN rest /\ rest[i - 1] = todo[i]
  BY <1>3, <1>4, <1>5, Headed
<1>7. PICK w, up, n, t : w = row.on /\ up = row.parent /\ n = row.level /\ t = row.times
  OBVIOUS
<1>8. PICK k : k = [op |-> "move", stage |-> "find", on |-> w, level |-> n,
                    root |-> r, todo |-> rest]
  OBVIOUS
<1>9. /\ job' = [job EXCEPT ![c] = k] /\ WriteRow(c, w, up, r, n, t)
      /\ UNCHANGED treeTorn
  BY <1>1, <1>3, <1>5, <1>7, <1>8 DEF SaveChild, Continue
<1>10. /\ parent' = [parent EXCEPT ![w] = up] /\ root' = PutAt(root, w, r)
       /\ level' = PutAt(level, w, n) /\ NoteWrite(c, w)
  BY <1>9 DEF WriteRow, PutAt
<1>11. treeLate = {} /\ ~treeTorn /\ \A d \in Clients : d # c => job[d] = NoJob
  BY <1>9, <1>10, WriteIsAlone
<1>12. /\ IsParents(parent) /\ Acyclic(parent) /\ level \in [TreeOrders -> Int]
       /\ root \in [TreeOrders -> TreeOrders]
  BY <1>11, ForestWhenFree DEF TreeInv
<1>13. w \in TreeOrders /\ up = parent[w]
  BY <1>4, <1>6, <1>7, <1>11, RowsAreTyped DEF RowsKept
<1>14. parent' = parent
  BY <1>10, <1>12, <1>13 DEF IsParents
<1>15. /\ \A x \in TreeOrders :
            parent[x] # NoParent => CountsUp(parent, level, root, x) \/ Owes(parent, j, x)
       /\ MoveFits(parent, level, root, j)
  BY <1>1, <1>11, AloneOwes DEF TreeInv
<1>16. RowsFit(parent, level, root, r, todo)
  BY <1>2, <1>3, <1>15 DEF MoveFits
<1>17. PICK m, s, u : m = level' /\ s = root' /\ u = times'
  OBVIOUS
<1>18. /\ FindFits(parent, m, s, w, n, r, rest)
       /\ CountButBelow(parent, level, root, m, s, w)
  BY <1>3, <1>4, <1>5, <1>7, <1>10, <1>12, <1>16, <1>17, ChildCounts
<1>19. k \in TreeJobs
  <2>1. job'[c] = k
    BY <1>9 DEF TreeInv, CycleInv, TreeTyped
  <2> QED
    BY <2>1 DEF CycleInv, TreeTyped
<1>20. /\ k.op = "move" /\ k.stage = "find" /\ k.on = w /\ k.level = n /\ k.root = r
       /\ k.todo = rest
  BY <1>8
<1>21. MoveFits(parent, m, s, k) /\ PathFits(parent, m, s, u, k)
  BY <1>18, <1>20 DEF MoveFits, PathFits, Is
<1>22. ASSUME NEW x \in TreeOrders, parent[x] # NoParent
       PROVE  CountsUp(parent, m, s, x) \/ Owes(parent, k, x)
  <2>1. CASE parent[x] = w
    BY <1>20, <2>1 DEF Owes, Is
  <2>2. CASE parent[x] # w /\ (x = w \/ CountsUp(parent, level, root, x))
    BY <1>18, <1>22, <2>2 DEF CountButBelow
  <2>3. CASE x # w /\ Owes(parent, j, x)
    <3>1. PICK i \in DOMAIN todo : todo[i].on = x
      BY <1>2, <1>3, <2>3 DEF Owes, Is
    <3>2. i # 1
      BY <1>6, <1>7, <2>3, <3>1
    <3>3. i - 1 \in DOMAIN rest /\ rest[i - 1].on = x
      BY <1>6, <3>1, <3>2
    <3> QED
      BY <1>20, <3>3 DEF Owes, Is
  <2> QED
    BY <1>15, <1>22, <2>1, <2>2, <2>3
<1>23. CycleInv
  BY DEF TreeInv
<1> QED
  BY <1>9, <1>11, <1>14, <1>17, <1>19, <1>21, <1>22, <1>23, WriteKeepsLevels

LEMMA RecalculateKeepsLevels ==
  ASSUME TreeInv, NEW c \in Clients, NEW r \in TreeOrders, Recalculate(c, r)
  PROVE  LevelInv'
<1>1. PICK S : S = Nodes(parent, r)
  OBVIOUS
<1>2. PICK d : d = DepthIn(parent, S)
  OBVIOUS
<1>3. PICK j : j = PathJob(r, S, d)
  OBVIOUS
<1>4. TreeTyped /\ CycleInv /\ LevelInv
  BY DEF TreeInv, CycleInv
<1>5. job[c] = NoJob /\ job' = [job EXCEPT ![c] = j] /\ UNCHANGED treeData
  BY <1>1, <1>2, <1>3, <1>4, RecalculateStarts
<1>6. /\ j \in Paths /\ DOMAIN j.rows = S /\ j.on = r
      /\ \A w \in S : \E k \in DOMAIN j.todo : j.todo[k] = w
  BY <1>1, <1>2, <1>3, <1>4, PathJobIsTyped
<1>7. j \in TreeJobs /\ j.op = "path"
  BY <1>6 DEF TreeJobs, Paths
<1>8. PICK rows : rows = Recalculated(S, parent, level, d, times)
  OBVIOUS
<1>9. j.rows = rows
  BY <1>3, <1>8 DEF PathJob
<1>10. ASSUME treeLate = {}, AllCount(parent, level, root)
       PROVE  \A w \in S : rows[w].critical <=> LongestIn(parent, r, w)
  <2>1. Ranked(parent, level)
    BY <1>4, <1>10, ForestWhenFree DEF Ranked, AllCount, CountsUp
  <2>2. Given(S, parent, level, d, times)
    BY <1>1, <1>2, <1>4, QueryIsGiven
  <2> QED
    BY <1>1, <1>8, <2>1, <2>2, RecalculatedIsRight
<1>11. ASSUME treeLate = {}, ~treeTorn
       PROVE  MoveFits(parent, level, root, j) /\ PathFits(parent, level, root, times, j)
  <2>1. MoveFits(parent, level, root, j)
    BY <1>7 DEF MoveFits, Is
  <2>2. AllCount(parent, level, root) =>
          \A w \in DOMAIN j.rows : j.rows[w].critical <=> LongestIn(parent, j.on, w)
    BY <1>6, <1>9, <1>10, <1>11
  <2>3. \A w \in DOMAIN j.rows : ~\A k \in DOMAIN j.todo : j.todo[k] # w
    BY <1>6
  <2>4. PathFits(parent, level, root, times, j)
    BY <2>2, <2>3 DEF PathFits
  <2> QED
    BY <2>1, <2>4
<1>12. \A w \in TreeOrders : Owes(parent, NoJob, w) => Owes(parent, j, w)
  BY NothingOwed
<1> QED
  BY <1>4, <1>5, <1>7, <1>11, <1>12, QuietKeepsLevels

(* A path that writes the first row it still owes owes the rest, one place  *)
(* down.                                                                    *)
LEMMA RestIsOwed ==
  ASSUME NEW todo \in Seq(TreeOrders), todo # << >>, NEW rest, rest = Tail(todo),
         NEW i \in DOMAIN todo
  PROVE  \/ i = 1 /\ todo[i] = Head(todo)
         \/ i - 1 \in DOMAIN rest /\ rest[i - 1] = todo[i]
<1>1. /\ Head(todo) = todo[1] /\ Len(todo) \in Nat /\ DOMAIN todo = 1..Len(todo)
      /\ Len(rest) = Len(todo) - 1 /\ rest \in Seq(TreeOrders)
      /\ \A k \in 1..Len(rest) : rest[k] = todo[k + 1]
  OBVIOUS
<1>2. DOMAIN rest = 1..Len(rest)
  BY <1>1
<1>3. CASE i = 1
  BY <1>1, <1>3
<1>4. CASE i # 1
  <2>1. i \in Int /\ i - 1 \in 1..Len(rest) /\ (i - 1) + 1 = i
    BY <1>1, <1>4
  <2> QED
    BY <1>1, <1>2, <2>1
<1> QED
  BY <1>3, <1>4

LEMMA PersistNodeKeepsLevels ==
  ASSUME TreeInv, NEW c \in Clients, PersistNode(c), treeLate' = {}, ~treeTorn'
  PROVE  LevelInv'
<1>1. PICK j \in TreeJobs : job[c] = j /\ CycleFits(parent, treeLate, j)
  BY RequestFits DEF TreeInv
<1>2. j \in Paths /\ j.op = "path"
  BY <1>1, TreeJobKinds DEF PersistNode, At
<1>3. PathKept(j) /\ TreeTyped /\ CycleInv
  BY <1>1, <1>2 DEF CycleFits, TreeInv, CycleInv
<1>4. PICK w \in TreeOrders, k \in Paths :
        /\ w = Head(j.todo) /\ j.todo # << >>
        /\ k.on = j.on /\ k.rows = j.rows /\ k.todo = Tail(j.todo)
        /\ job' = [job EXCEPT ![c] = k]
        /\ times' = [times EXCEPT ![w] = j.rows[w]] /\ NoteWrite(c, w)
        /\ UNCHANGED <<parent, root, level, treeTorn>>
  BY <1>1, <1>2, <1>3, PersistNodeWrites
<1>5. treeLate = {} /\ ~treeTorn /\ \A d \in Clients : d # c => job[d] = NoJob
  BY <1>4, WriteIsAlone
<1>6. /\ \A x \in TreeOrders :
           parent[x] # NoParent => CountsUp(parent, level, root, x) \/ Owes(parent, j, x)
      /\ PathFits(parent, level, root, times, j)
  BY <1>1, <1>5, AloneOwes DEF TreeInv
<1>7. AllCount(parent, level, root)
  BY <1>2, <1>6 DEF AllCount, Owes, Is
<1>8. PICK todo, rest, rows, u : todo = j.todo /\ rest = k.todo /\ rows = j.rows /\ u = times'
  OBVIOUS
<1>9. todo \in Seq(TreeOrders) /\ todo # << >> /\ rest = Tail(todo) /\ w = Head(todo)
  BY <1>2, <1>4, <1>8 DEF Paths
<1>10. \A i \in DOMAIN todo :
         \/ i = 1 /\ todo[i] = w
         \/ i - 1 \in DOMAIN rest /\ rest[i - 1] = todo[i]
  <2> SUFFICES ASSUME NEW i \in DOMAIN todo
               PROVE  \/ i = 1 /\ todo[i] = w
                      \/ i - 1 \in DOMAIN rest /\ rest[i - 1] = todo[i]
    OBVIOUS
  <2>1. \/ i = 1 /\ todo[i] = Head(todo)
        \/ i - 1 \in DOMAIN rest /\ rest[i - 1] = todo[i]
    BY <1>9, RestIsOwed
  <2> QED
    BY <1>9, <2>1
<1>11. /\ u[w] = rows[w]
       /\ \A x \in TreeOrders : x # w => u[x] = times[x]
  BY <1>3, <1>4, <1>8 DEF TreeTyped
<1>12. /\ \A x \in DOMAIN rows : rows[x].critical <=> LongestIn(parent, j.on, x)
       /\ \A x \in DOMAIN rows : (\A i \in DOMAIN todo : todo[i] # x) => times[x] = rows[x]
  BY <1>2, <1>6, <1>7, <1>8 DEF PathFits
<1>13. \A x \in DOMAIN rows : x \in TreeOrders
  <2>1. rows \in PathRows
    BY <1>2, <1>8 DEF Paths
  <2>2. PICK S \in SUBSET TreeOrders : rows \in [S -> Times]
    BY <2>1 DEF PathRows
  <2> QED
    BY <2>2
<1>14. ASSUME NEW x \in DOMAIN rows, \A i \in DOMAIN rest : rest[i] # x PROVE u[x] = rows[x]
  <2>1. CASE x = w
    BY <1>11, <2>1
  <2>2. CASE x # w
    <3>1. \A i \in DOMAIN todo : todo[i] # x
      BY <1>10, <1>14, <2>2
    <3> QED
      BY <1>11, <1>12, <1>13, <2>2, <3>1
  <2> QED
    BY <2>1, <2>2
<1>15. k \in TreeJobs /\ k.op = "path"
  BY DEF TreeJobs, Paths
<1>16. PathFits(parent, level, root, u, k)
  BY <1>4, <1>7, <1>8, <1>12, <1>14 DEF PathFits
<1>17. MoveFits(parent, level, root, k)
  BY <1>15 DEF MoveFits, Is
<1>18. \A x \in TreeOrders :
         parent[x] # NoParent => CountsUp(parent, level, root, x) \/ Owes(parent, k, x)
  BY <1>7 DEF AllCount
<1>19. /\ parent = parent' /\ level = level' /\ root = root'
       /\ job' = [job EXCEPT ![c] = k]
  BY <1>4
<1> QED
  BY <1>3, <1>5, <1>8, <1>15, <1>16, <1>17, <1>18, <1>19, WriteKeepsLevels

LEMMA ReplyKeepsLevels ==
  ASSUME TreeInv, NEW c \in Clients, Moved(c) \/ Recalculation(c)
  PROVE  LevelInv'
<1>1. PICK j \in TreeJobs : j = job[c]
  BY DEF TreeInv, CycleInv, TreeTyped
<1>2. \A w : ~Owes(parent, j, w)
  BY <1>1 DEF Moved, Recalculation, At, Owes, Is
<1>3. job' = [job EXCEPT ![c] = NoJob] /\ UNCHANGED treeData
  BY DEF Moved, Recalculation, Reply, Continue
<1>4. NoJob \in TreeJobs
  BY DEF TreeJobs
<1> QED
  BY <1>1, <1>2, <1>3, <1>4, IdleKeepsLevels

LEMMA LevelsKept == ASSUME TreeInv, [TreeNext]_treeVars PROVE TreeInv'
<1>1. CycleInv'
  BY CyclesKept DEF TreeInv
<1> SUFFICES LevelInv'
  BY <1>1 DEF TreeInv
<1>2. CASE UNCHANGED treeVars
  BY <1>2 DEF TreeInv, LevelInv, treeVars, treeData, reqVars
<1>3. ASSUME NEW c \in Clients, NEW w \in TreeOrders, DetachOrder(c, w) PROVE LevelInv'
  BY <1>3, DetachOrderKeepsLevels
<1>4. ASSUME NEW c \in Clients, NEW w \in TreeOrders, Recalculate(c, w) PROVE LevelInv'
  BY <1>4, RecalculateKeepsLevels
<1>5. ASSUME NEW c \in Clients, NEW w \in TreeOrders, NEW p \in TreeOrders, UpdateParent(c, w, p)
      PROVE LevelInv'
  BY <1>5, UpdateParentKeepsLevels
<1>6. ASSUME NEW c \in Clients, DetachSave(c) \/ TreeDie(c) PROVE LevelInv'
  BY <1>6 DEF DetachSave, TreeDie, LevelInv
<1>7. ASSUME NEW c \in Clients, Walk(c) PROVE LevelInv'
  BY <1>1, <1>7, WalkKeepsLevels
<1>8. ASSUME NEW c \in Clients, ReadParent(c) PROVE LevelInv'
  BY <1>1, <1>8, ReadParentKeepsLevels
<1>9. ASSUME NEW c \in Clients, SaveParent(c) PROVE LevelInv'
  BY <1>1, <1>9, SaveParentKeepsLevels DEF LevelInv
<1>10. ASSUME NEW c \in Clients, FindChildren(c) PROVE LevelInv'
  BY <1>1, <1>10, FindChildrenKeepsLevels
<1>11. ASSUME NEW c \in Clients, SaveChild(c) PROVE LevelInv'
  BY <1>1, <1>11, SaveChildKeepsLevels DEF LevelInv
<1>12. ASSUME NEW c \in Clients, Moved(c) \/ Recalculation(c) PROVE LevelInv'
  BY <1>12, ReplyKeepsLevels
<1>13. ASSUME NEW c \in Clients, PersistNode(c) PROVE LevelInv'
  BY <1>13, PersistNodeKeepsLevels DEF LevelInv
<1> QED
  BY <1>2, <1>3, <1>4, <1>5, <1>6, <1>7, <1>8, <1>9, <1>10, <1>11, <1>12, <1>13
     DEF TreeNext

LEMMA LevelsStart == ASSUME ReqInit, TreeInit PROVE TreeInv
<1>1. CycleInv
  BY CyclesStart
<1>2. treeLate = {} /\ \A c \in Clients : job[c] = NoJob
  BY DEF TreeInit, ReqInit
<1>3. IsParents(parent) /\ Acyclic(parent)
  BY <1>1, <1>2, ForestWhenFree
<1>4. ASSUME NEW w \in TreeOrders, parent[w] # NoParent PROVE CountsUp(parent, level, root, w)
  <2>1. PICK v \in TreeOrders : v = parent[w]
    BY <1>3, <1>4 DEF IsParents
  <2>2. AboveIn(parent, w) = {v} \cup AboveIn(parent, v)
    BY <1>3, <1>4, <2>1, AboveOfParent
  <2>3. AboveIn(parent, v) \in SUBSET TreeOrders /\ v \notin AboveIn(parent, v)
    BY <1>3, AboveIsLeast
  <2>4. IsFiniteSet(AboveIn(parent, v))
    BY <2>3, FS_Subset, TreeOrdersAssumption
  <2>5. Cardinality(AboveIn(parent, v) \cup {v}) = Cardinality(AboveIn(parent, v)) + 1
    BY <2>3, <2>4, FS_AddElement
  <2>6. AboveIn(parent, w) = AboveIn(parent, v) \cup {v}
    BY <2>2
  <2>7. level[w] = level[v] + 1
    BY <2>5, <2>6 DEF TreeInit
  <2>8. PICK x, y : x = root[w] /\ y = root[v]
    OBVIOUS
  <2>9. x = CHOOSE u \in AboveIn(parent, w) \cup {w} : parent[u] = NoParent
    BY <2>8 DEF TreeInit
  <2>10. y = CHOOSE u \in AboveIn(parent, v) \cup {v} : parent[u] = NoParent
    BY <2>8 DEF TreeInit
  <2>11. x \in AboveIn(parent, w) \cup {w} /\ parent[x] = NoParent
    BY <1>3, <2>9, RootExists
  <2>12. y \in AboveIn(parent, v) \cup {v} /\ parent[y] = NoParent
    BY <1>3, <2>10, RootExists
  <2>13. x = y
    BY <1>3, <2>6, <2>11, <2>12, RootIsOne
  <2> QED
    BY <2>1, <2>7, <2>8, <2>13 DEF CountsUp
<1>5. LevelInv
  BY <1>2, <1>4, NothingOwed DEF LevelInv, LevelsOwed
<1> QED
  BY <1>1, <1>5 DEF TreeInv

LEMMA LevelsThenCount == ASSUME TreeInv PROVE LevelsCount
<1> SUFFICES ASSUME \A c \in Clients : job[c] = NoJob, treeLate = {}, ~treeTorn,
                    NEW w \in TreeOrders, parent[w] # NoParent
             PROVE  LevelCounts(w)
  BY DEF LevelsCount
<1>1. CountsUp(parent, level, root, w)
  BY NothingOwed DEF TreeInv, LevelInv, LevelsOwed
<1> QED
  BY <1>1 DEF CountsUp, LevelCounts

LEMMA PathsAreLongest == ASSUME TreeInv PROVE CriticalIsLongest
<1> SUFFICES ASSUME NEW c \in Clients, At(c, "path", "persist"), job[c].todo = << >>,
                    treeLate = {}, ~treeTorn, NEW w \in DOMAIN job[c].rows
             PROVE  times[w].critical <=> OnLongest(job[c].on, w)
  BY DEF CriticalIsLongest
<1>1. PICK j \in TreeJobs : j = job[c]
  BY DEF TreeInv, CycleInv, TreeTyped
<1>2. j.op = "path" /\ j.todo = << >> /\ w \in DOMAIN j.rows
  BY <1>1 DEF At
<1>3. PathFits(parent, level, root, times, j)
  BY <1>1 DEF TreeInv, LevelInv
<1>4. AllCount(parent, level, root) /\ times[w] = j.rows[w]
  BY <1>2, <1>3 DEF PathFits
<1>5. j.rows[w].critical <=> LongestIn(parent, j.on, w)
  BY <1>2, <1>3, <1>4 DEF PathFits
<1> QED
  BY <1>1, <1>4, <1>5, LongestIsOn

\* Cycles are late, levels and roots follow the parents depth first, and the
\* critical path, in two passes by these levels, marks the longest paths.
THEOREM TreeStaysSound == TreeSpec => []TreeIsSound
<1>1. ReqInit /\ TreeInit => TreeInv
  BY LevelsStart
<1>2. TreeInv /\ [TreeNext]_treeVars => TreeInv'
  BY LevelsKept
<1>3. TreeInv => TreeIsSound
  BY FreeCyclesAreLate, LevelsThenCount, PathsAreLongest DEF TreeIsSound, TreeInv
<1> QED
  BY <1>1, <1>2, <1>3, PTL DEF TreeSpec
=============================================================================
