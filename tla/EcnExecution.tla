---------------------------- MODULE EcnExecution ----------------------------
(***************************************************************************)
(* Engineering change notices: the execution plan of a notice, its items,  *)
(* the assessment of the work in progress, and the versions of bills of    *)
(* material and routings they act on (EcnExecutionService,                 *)
(* WipImpactService, BomService, RoutingService, and MesEventService for   *)
(* ECN_EXECUTED).                                                          *)
(*                                                                         *)
(* A plan is executed by hand or by a cron job that runs every five        *)
(* minutes without waiting for the run before.  Each item clones the       *)
(* version it names in a transaction; all other writes are statements of   *)
(* their own, so a plan that dies stays where it was.  The effective date  *)
(* of a plan is taken as come.                                             *)
(*                                                                         *)
(* A version is a row, known by its id; its number is a column of its own, *)
(* unique among the versions of the object, and free again once the row    *)
(* is deleted.  A request body that creates or updates a version may name  *)
(* its status and its number, and is taken at its word.                    *)
(*                                                                         *)
(* The rest is history: the clones made of a version, the plans two        *)
(* requests worked on at the same time (contended), the objects whose      *)
(* version was written while another request had read it (overlapped),     *)
(* those with a status taken from a request body (handWritten), and those  *)
(* where a number was changed or given free (renumbered).                  *)
(***************************************************************************)
EXTENDS Requests

CONSTANTS Objects,       \* the bills of material and routings, over all versions
          KindOf,        \* [Objects -> {"BOM", "ROUTING"}]
          Plans,         \* the execution plans
          WorkOrders,    \* the open work orders
          ReleasedWith,  \* [WorkOrders -> [Kinds -> Objects \cup {NoObject}]]
          NoObject,      \* no such reference
          Bodies,        \* the statuses a request body may name
          MaxVersion     \* bound: versions of an object, and their numbers

ASSUME KindAssumption == KindOf \in [Objects -> {"BOM", "ROUTING"}]
ASSUME VersionAssumption == MaxVersion \in Nat \ {0}
ASSUME BodiesAssumption ==
  Bodies \subseteq {"DRAFT", "ACTIVE", "INACTIVE", "OBSOLETE"}
ASSUME NoObjectAssumption == NoObject \notin Objects
ASSUME ReleasedWithAssumption ==
  \A w \in WorkOrders : ReleasedWith[w] \in
    [{"BOM", "ROUTING"} -> Objects \cup {NoObject}]

VARIABLES version, number, clones, plan, item, assessment, wip, uses, sent,
          contended, overlapped, handWritten, renumbered

byHand == <<handWritten, renumbered>>
ecnData == <<version, number, clones, plan, item, assessment, wip, uses, sent,
             contended, overlapped, byHand>>
ecnVars == <<ecnData, reqVars>>

-----------------------------------------------------------------------------
Versions == 1..MaxVersion
Written == {"DRAFT", "ACTIVE", "INACTIVE", "OBSOLETE"}
VersionStatus == Written \cup {"none", "deleted"}
PlanStatus ==
  {"none", "PENDING", "IN_PROGRESS", "COMPLETED", "FAILED", "CANCELLED"}
Item == [source : Versions, status : {"PENDING", "COMPLETED", "FAILED"}]
NoItem == [source |-> 0, status |-> "none"]
Suggestion == {"CONTINUE_OLD", "SWITCH_NEW", "SUSPEND_REVIEW"}

\* What a work order refers to, and what ECN_EXECUTED asks it to refer to.
Kinds == {"BOM", "ROUTING"}
NoRef == [object |-> NoObject, version |-> 0]
Ref == [object : Objects, version : Versions] \cup {NoRef}

ActiveVersions(o) == {v \in Versions : version[o][v] = "ACTIVE"}
Existing(o) == {v \in Versions : version[o][v] \in Written}
HasLatest(o, v, S) == v \in S /\ \A u \in S : number[o][u] <= number[o][v]

\* Ids are given in turn; a row that was deleted leaves its id unused.
IsNextId(o, n) ==
  version[o][n] = "none" /\ \A m \in 1..(n - 1) : version[o][m] # "none"

\* uk_plm_bom, uk_plm_routing
NumberFree(o, k) == \A v \in Existing(o) : number[o][v] # k

\* UPDATE ... WHERE id: there may be no such row any more.
Put(o, v, s) ==
  IF version[o][v] \in Written THEN [version[o] EXCEPT ![v] = s] ELSE version[o]

ItemsOf(p) == {o \in Objects : item[p][o] # NoItem}
InUse(o, v) ==
  \E w \in WorkOrders, k \in Kinds : uses[w][k] = [object |-> o, version |-> v]

EcnInit ==
  /\ version = [o \in Objects |-> [v \in Versions |->
                  IF v = 1 THEN "ACTIVE" ELSE "none"]]
  /\ number = [o \in Objects |-> [v \in Versions |-> IF v = 1 THEN 1 ELSE 0]]
  /\ clones = [o \in Objects |-> [v \in Versions |-> 0]]
  /\ plan = [p \in Plans |-> "none"]
  /\ item = [p \in Plans |-> [o \in Objects |-> NoItem]]
  /\ assessment = [p \in Plans |-> "none"]
  /\ wip = [p \in Plans |-> << >>]
  /\ uses = [w \in WorkOrders |-> [k \in Kinds |->
       IF ReleasedWith[w][k] = NoObject THEN NoRef
       ELSE [object |-> ReleasedWith[w][k], version |-> 1]]]
  /\ sent = [p \in Plans |-> {}]
  /\ contended = {} /\ overlapped = {} /\ handWritten = {} /\ renumbered = {}

\* A request on plan p; another one on it may be in flight.
On(c, p, j) ==
  /\ Accept(c, j)
  /\ contended' =
       IF \E d \in Clients \ {c} : job[d] # NoJob /\ "plan" \in DOMAIN job[d]
                                   /\ job[d].plan = p
       THEN contended \cup {p} ELSE contended

\* Client c writes versions of o; another client that has read them is late.
Writes(c, o) ==
  overlapped' =
    IF \E d \in Clients \ {c} : job[d] # NoJob /\ "object" \in DOMAIN job[d]
                                /\ job[d].object = o
    THEN overlapped \cup {o} ELSE overlapped

-----------------------------------------------------------------------------
(* A notice is issued: the plan, its items, the assessment *)

IssueNotice(c, p, S) ==
  /\ plan[p] = "none"
  /\ On(c, p, [op |-> "issue", plan |-> p, stage |-> "items", objects |-> S])
  /\ plan' = [plan EXCEPT ![p] = "PENDING"]
  /\ UNCHANGED <<version, number, clones, item, assessment, wip, uses, sent,
                 overlapped, byHand>>

\* An item for each object with an active version; a plan without one is done.
SaveItems(c) ==
  /\ At(c, "issue", "items")
  /\ LET p == job[c].plan
         S == {o \in job[c].objects : ActiveVersions(o) # {}}
     IN /\ \E newest \in [S -> Versions] :
             /\ \A o \in S : HasLatest(o, newest[o], ActiveVersions(o))
             /\ item' = [item EXCEPT ![p] = [o \in Objects |->
                  IF o \in S THEN [source |-> newest[o], status |-> "PENDING"]
                             ELSE NoItem]]
        /\ plan' = IF S = {} THEN [plan EXCEPT ![p] = "COMPLETED"] ELSE plan
        /\ Continue(c, [op |-> "issue", plan |-> p, stage |-> "assess"])
  /\ UNCHANGED <<version, number, clones, assessment, wip, uses, sent,
                 contended, overlapped, byHand>>

\* The open orders that refer to an item: the assessment is saved first ...
Assess(c) ==
  /\ At(c, "issue", "assess")
  /\ LET p == job[c].plan
         affected == {w \in WorkOrders : \E o \in ItemsOf(p) :
                        uses[w][KindOf[o]] =
                          [object |-> o, version |-> item[p][o].source]}
     IN /\ assessment' = [assessment EXCEPT ![p] = "PENDING"]
        /\ Continue(c, [op |-> "issue", plan |-> p, stage |-> "orders",
                        affected |-> affected])
  /\ UNCHANGED <<version, number, clones, plan, item, wip, uses, sent,
                 contended, overlapped, byHand>>

\* ... and then its orders, each with a suggestion that follows from how far
\* the order is.
SuggestOrders(c) ==
  /\ At(c, "issue", "orders")
  /\ \E s \in [job[c].affected -> Suggestion] :
       wip' = [wip EXCEPT ![job[c].plan] = s]
  /\ Reply(c)
  /\ UNCHANGED <<version, number, clones, plan, item, assessment, uses, sent,
                 contended, overlapped, byHand>>

Override(p, w, s) ==
  /\ w \in DOMAIN wip[p]
  /\ s # "SUSPEND_REVIEW"
  /\ Once
  /\ wip' = [wip EXCEPT ![p][w] = s]
  /\ UNCHANGED <<version, number, clones, plan, item, assessment, uses, sent,
                 contended, overlapped, byHand>>

Reviewed(p) == \A w \in DOMAIN wip[p] : wip[p][w] # "SUSPEND_REVIEW"

ConfirmAssessment(p) ==
  /\ assessment[p] = "PENDING"
  /\ Reviewed(p)
  /\ Once
  /\ assessment' = [assessment EXCEPT ![p] = "CONFIRMED"]
  /\ UNCHANGED <<version, number, clones, plan, item, wip, uses, sent,
                 contended, overlapped, byHand>>

-----------------------------------------------------------------------------
(* Execution *)

\* Variant: only a completed plan is refused
ExecutableUnlessDone(p) == plan[p] \notin {"none", "COMPLETED"}

Executable(p) == plan[p] = "PENDING"

\* The cron job, or triggerManually: no assessment counts as a confirmed one.
Trigger(c, p) ==
  /\ Executable(p)
  /\ assessment[p] \in {"none", "CONFIRMED"}
  /\ On(c, p, [op |-> "execute", plan |-> p, stage |-> "check"])
  /\ UNCHANGED <<version, number, clones, plan, item, assessment, wip, uses,
                 sent, overlapped, byHand>>

Check(c) ==
  /\ At(c, "execute", "check")
  /\ LET p == job[c].plan
     IN IF Executable(p)
        THEN Continue(c, [op |-> "execute", plan |-> p, stage |-> "begin"])
        ELSE Reply(c)
  /\ UNCHANGED ecnData

Executing(p, todo, failed, affected) ==
  [op |-> "execute", plan |-> p, stage |-> "item", todo |-> todo,
   failed |-> failed, affected |-> affected]

\* ... at one of its items, before its version is cloned ...
ExecutingItem(p, o, stage, todo, failed, affected) ==
  [op |-> "execute", plan |-> p, stage |-> stage, todo |-> todo,
   failed |-> failed, affected |-> affected, object |-> o]

\* ... and after.
ExecutedItem(p, o, n, todo, failed, affected) ==
  [op |-> "execute", plan |-> p, stage |-> "complete", todo |-> todo,
   failed |-> failed, affected |-> affected, object |-> o, made |-> n]

NobodyAffected == [w \in WorkOrders |-> [k \in Kinds |-> NoRef]]

\* The plan is in progress, and its items are loaded.
Begin(c) ==
  /\ At(c, "execute", "begin")
  /\ LET p == job[c].plan
     IN /\ plan' = [plan EXCEPT ![p] = "IN_PROGRESS"]
        /\ Continue(c, Executing(p, {o \in ItemsOf(p) :
                                       item[p][o].status # "COMPLETED"},
                                 FALSE, NobodyAffected))
  /\ UNCHANGED <<version, number, clones, item, assessment, wip, uses, sent,
                 contended, overlapped, byHand>>

\* One item at a time.
StartItem(c, o) ==
  /\ At(c, "execute", "item")
  /\ o \in job[c].todo
  /\ item' = [item EXCEPT ![job[c].plan][o].status = "PENDING"]
  /\ Continue(c, ExecutingItem(job[c].plan, o, "read", job[c].todo, job[c].failed,
                              job[c].affected))
  /\ UNCHANGED <<version, number, clones, plan, assessment, wip, uses, sent,
                 contended, overlapped, byHand>>

\* cloneAndApply reads the version the item names.
ReadSource(c) ==
  /\ At(c, "execute", "read")
  /\ LET active == version[job[c].object][item[job[c].plan][job[c].object].source]
                     = "ACTIVE"
     IN Continue(c, [job[c] EXCEPT !.stage = IF active THEN "clone" ELSE "fail"])
  /\ UNCHANGED ecnData

\* Variant: the version cloned stays active
ClonedKeepingSource(o, v, n) == [version[o] EXCEPT ![n] = "ACTIVE"]

Cloned(o, v, n) == [Put(o, v, "OBSOLETE") EXCEPT ![n] = "ACTIVE"]

\* The transaction of cloneAndApply commits, or fails on the number.
Clone(c, n) ==
  /\ At(c, "execute", "clone")
  /\ LET p == job[c].plan  o == job[c].object
         v == item[p][o].source  k == number[o][v] + 1
     IN /\ IsNextId(o, n) /\ k \in Versions
        /\ IF NumberFree(o, k)
           THEN /\ version' = [version EXCEPT ![o] = Cloned(o, v, n)]
                /\ number' = [number EXCEPT ![o][n] = k]
                /\ clones' = [clones EXCEPT ![o][v] = clones[o][v] + 1]
                /\ Writes(c, o)
                /\ Continue(c, ExecutedItem(p, o, n, job[c].todo, job[c].failed,
                                           job[c].affected))
           ELSE /\ Continue(c, [job[c] EXCEPT !.stage = "fail"])
                /\ UNCHANGED <<version, number, clones, overlapped>>
  /\ UNCHANGED <<plan, item, assessment, wip, uses, sent, contended, byHand>>

\* The orders of the assessment, with the new version of this item.
WithItem(affected, p, o, v) ==
  [w \in WorkOrders |->
     IF w \in DOMAIN wip[p] /\ wip[p][w] = "SWITCH_NEW"
     THEN [affected[w] EXCEPT ![KindOf[o]] = [object |-> o, version |-> v]]
     ELSE affected[w]]

\* The item is completed, but fails if its log entry does.
CompleteItem(c) ==
  /\ At(c, "execute", "complete")
  /\ LET p == job[c].plan  o == job[c].object
         affected == WithItem(job[c].affected, p, o, job[c].made)
     IN /\ item' = [item EXCEPT ![p][o].status = "COMPLETED"]
        /\ \/ Continue(c, Executing(p, job[c].todo \ {o}, job[c].failed, affected))
           \/ Continue(c, ExecutingItem(p, o, "fail", job[c].todo, job[c].failed,
                                       affected))
  /\ UNCHANGED <<version, number, clones, plan, assessment, wip, uses, sent,
                 contended, overlapped, byHand>>

\* A statement of the item fails, before its version is cloned or after (the
\* assessment is read, and the item updated, when the clone is committed).
ItemFails(c) ==
  /\ job[c].op = "execute" /\ job[c].stage \in {"read", "clone", "complete"}
  /\ Continue(c, ExecutingItem(job[c].plan, job[c].object, "fail", job[c].todo,
                              job[c].failed, job[c].affected))
  /\ UNCHANGED ecnData

FailItem(c) ==
  /\ At(c, "execute", "fail")
  /\ LET p == job[c].plan  o == job[c].object
     IN /\ item' = [item EXCEPT ![p][o].status = "FAILED"]
        /\ Continue(c, Executing(p, job[c].todo \ {o}, TRUE, job[c].affected))
  /\ UNCHANGED <<version, number, clones, plan, assessment, wip, uses, sent,
                 contended, overlapped, byHand>>

\* Variant: failures of items are forgotten
FinalStatusBlind(failed) == "COMPLETED"

FinalStatus(failed) == IF failed THEN "FAILED" ELSE "COMPLETED"

Finish(c) ==
  /\ At(c, "execute", "item")
  /\ job[c].todo = {}
  /\ LET p == job[c].plan
     IN /\ plan' = [plan EXCEPT ![p] = FinalStatus(job[c].failed)]
        /\ IF job[c].failed THEN Reply(c)
           ELSE Continue(c, [job[c] EXCEPT !.stage = "announce"])
  /\ UNCHANGED <<version, number, clones, item, assessment, wip, uses, sent,
                 contended, overlapped, byHand>>

\* ECN_EXECUTED
Announce(c) ==
  /\ At(c, "execute", "announce")
  /\ sent' = [sent EXCEPT ![job[c].plan] = sent[job[c].plan] \cup {job[c].affected}]
  /\ Reply(c)
  /\ UNCHANGED <<version, number, clones, plan, item, assessment, wip, uses,
                 contended, overlapped, byHand>>

\* onEcnExecuted of the MES; the bus delivers at least once, in any order.
Switch(p) ==
  \E affected \in sent[p] :
     /\ uses' = [w \in WorkOrders |-> [k \in Kinds |->
          IF affected[w][k] # NoRef THEN affected[w][k] ELSE uses[w][k]]]
     /\ UNCHANGED <<reqVars, version, number, clones, plan, item, assessment,
                    wip, sent, contended, overlapped, byHand>>

-----------------------------------------------------------------------------
(* Retry and cancel *)

Retry(c, p) ==
  /\ plan[p] = "FAILED"
  /\ On(c, p, [op |-> "retry", plan |-> p, stage |-> "items"])
  /\ UNCHANGED <<version, number, clones, plan, item, assessment, wip, uses,
                 sent, overlapped, byHand>>

ResetItems(c) ==
  /\ At(c, "retry", "items")
  /\ LET p == job[c].plan
     IN /\ item' = [item EXCEPT ![p] = [o \in Objects |->
             IF item[p][o].status = "FAILED"
             THEN [item[p][o] EXCEPT !.status = "PENDING"] ELSE item[p][o]]]
        /\ Continue(c, [op |-> "retry", plan |-> p, stage |-> "plan"])
  /\ UNCHANGED <<version, number, clones, plan, assessment, wip, uses, sent,
                 contended, overlapped, byHand>>

ResetPlan(c) ==
  /\ At(c, "retry", "plan")
  /\ plan' = [plan EXCEPT ![job[c].plan] = "PENDING"]
  /\ Continue(c, [op |-> "execute", plan |-> job[c].plan, stage |-> "check"])
  /\ UNCHANGED <<version, number, clones, item, assessment, wip, uses, sent,
                 contended, overlapped, byHand>>

CancelPlan(c, p) ==
  /\ plan[p] \in {"PENDING", "FAILED"}
  /\ On(c, p, [op |-> "cancelPlan", plan |-> p, stage |-> "write"])
  /\ UNCHANGED <<version, number, clones, plan, item, assessment, wip, uses,
                 sent, overlapped, byHand>>

CancelPlanWrite(c) ==
  /\ At(c, "cancelPlan", "write")
  /\ plan' = [plan EXCEPT ![job[c].plan] = "CANCELLED"]
  /\ Reply(c)
  /\ UNCHANGED <<version, number, clones, item, assessment, wip, uses, sent,
                 contended, overlapped, byHand>>

-----------------------------------------------------------------------------
(* Versions changed by hand *)

\* create, with the status of the body or as a draft; copyRouting; the import
\* of a sheet.  The next number is read first ...
Create(c, o, s) ==
  /\ \E k \in Versions :
       /\ IF Existing(o) = {} THEN k = 1
          ELSE \E v \in Existing(o) :
                 HasLatest(o, v, Existing(o)) /\ k = number[o][v] + 1
       /\ Accept(c, [op |-> "create", of |-> o, number |-> k, to |-> s,
                     stage |-> "write"])
  /\ UNCHANGED ecnData

\* ... and the row inserted, unless another one has taken the number.
CreateWrite(c, n) ==
  /\ At(c, "create", "write")
  /\ LET o == job[c].of
     IN /\ IsNextId(o, n)
        /\ IF NumberFree(o, job[c].number)
           THEN /\ version' = [version EXCEPT ![o][n] = job[c].to]
                /\ number' = [number EXCEPT ![o][n] = job[c].number]
                /\ handWritten' = IF job[c].to = "DRAFT" THEN handWritten
                                  ELSE handWritten \cup {o}
           ELSE UNCHANGED <<version, number, handWritten>>
  /\ Reply(c)
  /\ UNCHANGED <<clones, plan, item, assessment, wip, uses, sent, contended,
                 overlapped, renumbered>>

\* update: a version that is not OBSOLETE when it is read ...
Edit(c, o, v, s, k) ==
  /\ v \in Existing(o) /\ version[o][v] # "OBSOLETE"
  /\ Accept(c, [op |-> "edit", of |-> o, version |-> v, to |-> s, number |-> k,
                stage |-> "write"])
  /\ UNCHANGED ecnData

\* ... is given the status the body names (none: none is named) ...
EditStatus(c) ==
  /\ At(c, "edit", "write") /\ job[c].to # "none"
  /\ version' = [version EXCEPT ![job[c].of] = Put(job[c].of, job[c].version, job[c].to)]
  /\ handWritten' = handWritten \cup {job[c].of}
  /\ Reply(c)
  /\ UNCHANGED <<number, clones, plan, item, assessment, wip, uses, sent, contended,
                 overlapped, renumbered>>

\* ... or its number, if no other version has it.
EditNumber(c) ==
  /\ At(c, "edit", "write") /\ job[c].to = "none"
  /\ LET o == job[c].of
     IN IF NumberFree(o, job[c].number)
        THEN /\ number' = [number EXCEPT ![o][job[c].version] = job[c].number]
             /\ renumbered' = renumbered \cup {o}
        ELSE UNCHANGED <<number, renumbered>>
  /\ Reply(c)
  /\ UNCHANGED <<version, clones, plan, item, assessment, wip, uses, sent, contended,
                 overlapped, handWritten>>

Delete(o, v) ==
  /\ v \in Existing(o)
  /\ Once
  /\ version' = [version EXCEPT ![o][v] = "deleted"]
  /\ renumbered' = renumbered \cup {o}
  /\ UNCHANGED <<number, clones, plan, item, assessment, wip, uses, sent, contended,
                 overlapped, handWritten>>

\* A bill of material must be a draft; a routing may be in any status.
Activate(c, o, v) ==
  /\ v \in Existing(o)
  /\ KindOf[o] = "BOM" => version[o][v] = "DRAFT"
  /\ Accept(c, [op |-> "activate", object |-> o, version |-> v,
                stage |-> "others"])
  /\ UNCHANGED ecnData

RetireOthers(c) ==
  /\ At(c, "activate", "others")
  /\ LET o == job[c].object
     IN /\ version' = [version EXCEPT ![o] = [u \in Versions |->
             IF u # job[c].version /\ version[o][u] = "ACTIVE"
             THEN "OBSOLETE" ELSE version[o][u]]]
        /\ Writes(c, o)
  /\ Continue(c, [job[c] EXCEPT !.stage = "own"])
  /\ UNCHANGED <<number, clones, plan, item, assessment, wip, uses, sent,
                 contended, byHand>>

MakeActive(c) ==
  /\ At(c, "activate", "own")
  /\ version' = [version EXCEPT ![job[c].object] =
                   Put(job[c].object, job[c].version, "ACTIVE")]
  /\ Writes(c, job[c].object)
  /\ Reply(c)
  /\ UNCHANGED <<number, clones, plan, item, assessment, wip, uses, sent,
                 contended, byHand>>

\* deactivate, obsolete, retire: no open order may use the version.
Withdraw(c, o, v, to) ==
  /\ \/ to = "INACTIVE" /\ KindOf[o] = "BOM" /\ version[o][v] = "ACTIVE"
     \/ /\ to = "OBSOLETE"
        /\ IF KindOf[o] = "BOM" THEN v \in Existing(o) /\ version[o][v] # "OBSOLETE"
                                ELSE version[o][v] = "ACTIVE"
  /\ ~InUse(o, v)
  /\ Accept(c, [op |-> "withdraw", object |-> o, version |-> v, to |-> to,
                stage |-> "write"])
  /\ UNCHANGED ecnData

WithdrawWrite(c) ==
  /\ At(c, "withdraw", "write")
  /\ version' = [version EXCEPT ![job[c].object] =
                   Put(job[c].object, job[c].version, job[c].to)]
  /\ Writes(c, job[c].object)
  /\ Reply(c)
  /\ UNCHANGED <<number, clones, plan, item, assessment, wip, uses, sent,
                 contended, byHand>>

\* A request dies with the process or with its connection to the database.
EcnDie(c) ==
  /\ job[c] # NoJob
  /\ Reply(c)
  /\ UNCHANGED ecnData

-----------------------------------------------------------------------------
EcnNext ==
  \/ \E p \in Plans :
       \/ \E w \in WorkOrders, s \in Suggestion : Override(p, w, s)
       \/ ConfirmAssessment(p) \/ Switch(p)
  \/ \E o \in Objects, v \in Versions : Delete(o, v)
  \/ \E c \in Clients :
       \/ \E p \in Plans :
            \/ \E S \in SUBSET Objects : IssueNotice(c, p, S)
            \/ Trigger(c, p) \/ Retry(c, p) \/ CancelPlan(c, p)
       \/ SaveItems(c) \/ Assess(c) \/ SuggestOrders(c)
       \/ Check(c) \/ Begin(c)
       \/ \E o \in Objects : StartItem(c, o)
       \/ ReadSource(c) \/ CompleteItem(c) \/ ItemFails(c) \/ FailItem(c)
       \/ \E n \in Versions : Clone(c, n) \/ CreateWrite(c, n)
       \/ Finish(c) \/ Announce(c)
       \/ ResetItems(c) \/ ResetPlan(c) \/ CancelPlanWrite(c)
       \/ \E o \in Objects, v \in Versions :
            \/ Activate(c, o, v)
            \/ \E to \in {"INACTIVE", "OBSOLETE"} : Withdraw(c, o, v, to)
            \/ \E s \in Bodies : Edit(c, o, v, s, 0)
            \/ \E k \in Versions : Edit(c, o, v, "none", k)
       \/ \E o \in Objects, s \in Bodies \cup {"DRAFT"} : Create(c, o, s)
       \/ EditStatus(c) \/ EditNumber(c)
       \/ RetireOthers(c) \/ MakeActive(c) \/ WithdrawWrite(c)
       \/ EcnDie(c)

EcnSpec == ReqInit /\ EcnInit /\ [][EcnNext]_ecnVars

-----------------------------------------------------------------------------
EcnTypeOK ==
  /\ version \in [Objects -> [Versions -> VersionStatus]]
  /\ number \in [Objects -> [Versions -> 0..MaxVersion]]
  /\ clones \in [Objects -> [Versions -> Nat]]
  /\ plan \in [Plans -> PlanStatus]
  /\ item \in [Plans -> [Objects -> Item \cup {NoItem}]]
  /\ assessment \in [Plans -> {"none", "PENDING", "CONFIRMED"}]
  /\ DOMAIN wip = Plans
  /\ \A p \in Plans : \A w \in DOMAIN wip[p] :
       w \in WorkOrders /\ wip[p][w] \in Suggestion
  /\ uses \in [WorkOrders -> [Kinds -> Ref]]
  /\ sent \in [Plans -> SUBSET [WorkOrders -> [Kinds -> Ref]]]
  /\ contended \subseteq Plans /\ overlapped \subseteq Objects
  /\ handWritten \subseteq Objects /\ renumbered \subseteq Objects

(***************************************************************************)
(* COMPLETED means applied, and applied once: an item only with its clone  *)
(* made, and a plan only with all of its items, through failures, crashes  *)
(* and retries; and no version is cloned twice, though a plan be executed  *)
(* by the cron job and by hand at the same time, or again after a crash or *)
(* a failure behind the clone.  Plans two requests work on at the same     *)
(* time may lack items, and a version may be cloned again when the number  *)
(* of its clone was given free by hand.                                    *)
(***************************************************************************)
CompletedMeansApplied ==
  /\ \A o \in Objects \ renumbered, v \in Versions : clones[o][v] <= 1
  /\ \A p \in Plans : \A o \in ItemsOf(p) :
       /\ item[p][o].status = "COMPLETED" => clones[o][item[p][o].source] > 0
       /\ plan[p] = "COMPLETED" /\ p \notin contended
            => item[p][o].status = "COMPLETED"

(***************************************************************************)
(* An object has at most one active version through executions, drafts,    *)
(* activations, withdrawals and deletions, unless a request wrote its      *)
(* versions after another one had read them, or a request body gave a      *)
(* version its status.                                                     *)
(***************************************************************************)
OneActiveVersion ==
  \A o \in Objects \ (overlapped \cup handWritten) :
    Cardinality(ActiveVersions(o)) <= 1

(***************************************************************************)
(* A plan that is COMPLETED or CANCELLED is at rest: neither it nor its    *)
(* items change again.  Plans two requests work on at once are excepted.   *)
(***************************************************************************)
EndedPlansRest ==
  [][\A p \in Plans :
       plan[p] \in {"COMPLETED", "CANCELLED"} /\ p \notin contended'
         => plan'[p] = plan[p] /\ item'[p] = item[p]]_ecnVars

=============================================================================
