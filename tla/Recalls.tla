------------------------------ MODULE Recalls ------------------------------
(***************************************************************************)
(* Traces of batches and recalls over them (TraceabilityEventService,      *)
(* TraceLinkService, ForwardTraceService, BackwardTraceService and         *)
(* RecallService, and WmsEventService for RECALL_FREEZE_REQUEST).          *)
(*                                                                         *)
(* A production that is completed names the batch of the warehouse it made *)
(* and those it consumed.  A trace is found or inserted for each, and a    *)
(* link from each input to the output.  A recall walks the links both ways *)
(* from one trace, and asks the warehouse to freeze the traces in stock.   *)
(*                                                                         *)
(* The request carries the numbers of traces, and the warehouse looks them *)
(* up among the numbers of its own batches: both are numbers here, and     *)
(* agree where they happen to.  Traces and links entered by hand, and the  *)
(* result of an inspection, are left out.                                  *)
(*                                                                         *)
(* consumption, disturbed and skipped are history: what was consumed for   *)
(* what, the assessments during which traces or links changed, the batches *)
(* whose freeze failed; so are due and sound of an assessment.             *)
(***************************************************************************)
EXTENDS Requests, SequencesExt

CONSTANTS Stocked,      \* the numbers of batches with stock
          Productions,  \* [output, inputs, material], as reported
          MaxDepth, MaxNodes

ASSUME StockedAssumption == Stocked \subseteq Nat \ {0}
ASSUME ProductionsAssumption ==
  \A p \in Productions : /\ p.output \in Nat \ {0} /\ p.inputs \in Seq(Nat \ {0})
                         /\ p.output \notin Range(p.inputs)
ASSUME LimitsAssumption == MaxDepth \in Nat /\ MaxNodes \in Nat \ {0}

VARIABLES traces,       \* by number: [batch, material, code, stock, frozen]
          links,        \* pairs <<input, output>> of their numbers
          row,          \* [Stocked -> the status of the stock]
          assessments,  \* by number: [status, listed, due, sound]
          consumption, disturbed, skipped

recallDocs == <<traces, links, row, assessments>>
recallPast == <<consumption, disturbed, skipped>>
recallData == <<recallDocs, recallPast>>
recallVars == <<recallData, reqVars>>

-----------------------------------------------------------------------------
RecallInit ==
  /\ traces = << >> /\ links = {}
  /\ row = [b \in Stocked |-> "AVAILABLE"]
  /\ assessments = << >>
  /\ consumption = {} /\ disturbed = {} /\ skipped = {}

Disturb ==
  disturbed' = disturbed \cup {a \in DOMAIN assessments :
                                 assessments[a].status = "CALCULATING"}

TracesOf(batch) == {t \in DOMAIN traces : traces[t].batch = batch}

-----------------------------------------------------------------------------
(* onProductionCompleted: the output first, then each input and its link. *)

ReportProduction(c, p) ==
  /\ Accept(c, [op |-> "trace", stage |-> "find", material |-> p.material, code |-> 0,
                todo |-> <<p.output>> \o p.inputs, output |-> 0])
  /\ consumption' = consumption \cup {<<b, p.output>> : b \in Range(p.inputs)}
  /\ UNCHANGED <<recallDocs, disturbed, skipped>>

\* The trace of the first batch to do is t: it is the output, or is linked.
WithTrace(c, t) ==
  IF job[c].output = 0
  THEN [job[c] EXCEPT !.stage = "find", !.todo = Tail(@), !.output = t]
  ELSE [job[c] EXCEPT !.stage = "link", !.todo = <<t>> \o Tail(@)]

Proceed(c, j) == IF j.todo = << >> THEN Reply(c) ELSE Continue(c, j)

\* The traces of a material are counted for the next code.
NextCode(material) ==
  Cardinality({t \in DOMAIN traces : traces[t].material = material}) + 1

FindTrace(c) ==
  /\ At(c, "trace", "find")
  /\ LET found == TracesOf(Head(job[c].todo))
     IN IF found = {} THEN Continue(c, [job[c] EXCEPT !.stage = "count"])
        ELSE \E t \in found : Proceed(c, WithTrace(c, t))
  /\ UNCHANGED recallData

CountTraces(c) ==
  /\ At(c, "trace", "count")
  /\ Continue(c, [job[c] EXCEPT !.stage = "insert", !.code = NextCode(job[c].material)])
  /\ UNCHANGED recallData

CodeIsTaken(material, code) ==
  \E t \in DOMAIN traces : traces[t].material = material /\ traces[t].code = code

\* A code is unique; the handler drops the error, and what is left to do.
InsertTrace(c) ==
  /\ At(c, "trace", "insert")
  /\ IF CodeIsTaken(job[c].material, job[c].code)
     THEN Reply(c) /\ UNCHANGED <<traces, disturbed>>
     ELSE /\ traces' = Append(traces,
                         [batch |-> Head(job[c].todo), material |-> job[c].material,
                          code |-> job[c].code, stock |-> "IN_STOCK", frozen |-> FALSE])
          /\ Disturb
          /\ Proceed(c, WithTrace(c, Len(traces) + 1))
  /\ UNCHANGED <<links, row, assessments, consumption, skipped>>

LinkTrace(c) ==
  /\ At(c, "trace", "link")
  /\ links' = links \cup {<<Head(job[c].todo), job[c].output>>}
  /\ Disturb
  /\ Proceed(c, [job[c] EXCEPT !.stage = "find", !.todo = Tail(@)])
  /\ UNCHANGED <<traces, row, assessments, consumption, skipped>>

\* STOCK_IN_COMPLETED: the trace of the batch is in stock, frozen or not.
StockIn(t) ==
  /\ traces[t].stock # "IN_STOCK"
  /\ traces' = [traces EXCEPT ![t].stock = "IN_STOCK"]
  /\ Disturb
  /\ Once
  /\ UNCHANGED <<links, row, assessments, consumption, skipped>>

-----------------------------------------------------------------------------
(* RecallService.assess *)

Directions == {"forward", "backward"}

Neighbours(direction, t) ==
  IF direction = "forward" THEN {l[2] : l \in {k \in links : k[1] = t}}
  ELSE {l[1] : l \in {k \in links : k[2] = t}}

\* Variant: the deepest level is left out
TooDeepAtLimit(depth) == depth >= MaxDepth

TooDeep(depth) == depth > MaxDepth

\* One turn of the loop of a search: nodes are the traces it has been at, with
\* the status each had; cut says that it has stopped at MaxNodes.
Turned(direction, s) ==
  LET at == Head(s.queue)
  IN IF Cardinality(DOMAIN s.nodes) >= MaxNodes
     THEN [s EXCEPT !.queue = << >>, !.cut = TRUE]
     ELSE IF at.trace \in DOMAIN s.nodes \/ TooDeep(at.depth)
     THEN [s EXCEPT !.queue = Tail(@)]
     ELSE LET nodes == [t \in DOMAIN s.nodes \cup {at.trace} |->
                          IF t \in DOMAIN s.nodes THEN s.nodes[t] ELSE traces[t].stock]
              next == Neighbours(direction, at.trace) \ DOMAIN nodes
          IN [s EXCEPT !.nodes = nodes,
                       !.queue = Tail(@) \o [i \in 1..Cardinality(next) |->
                          [trace |-> SetToSeq(next)[i], depth |-> at.depth + 1]]]

\* The number of an assessment is one more than there are, and unique.
AssessRecall(c, t) ==
  /\ Accept(c, [op |-> "assess", stage |-> "create", problem |-> t,
                no |-> Len(assessments) + 1])
  /\ UNCHANGED recallData

CreateAssessment(c) ==
  /\ At(c, "assess", "create")
  /\ IF job[c].no \in DOMAIN assessments
     THEN Reply(c) /\ UNCHANGED assessments
     ELSE /\ assessments' = Append(assessments, [status |-> "CALCULATING", listed |-> {},
                                                 due |-> {}, sound |-> FALSE])
          /\ Continue(c, [op |-> "assess", stage |-> "search", problem |-> job[c].problem,
                          no |-> job[c].no,
                          search |-> [d \in Directions |->
                            [queue |-> <<[trace |-> job[c].problem, depth |-> 0]>>,
                             nodes |-> << >>, cut |-> FALSE]]])
  /\ UNCHANGED <<traces, links, row, recallPast>>

\* Both searches go on at the same time.
SearchTraces(c, direction) ==
  /\ At(c, "assess", "search")
  /\ job[c].search[direction].queue # << >>
  /\ Continue(c, [job[c] EXCEPT !.search[direction] = Turned(direction, @)])
  /\ UNCHANGED recallData

-----------------------------------------------------------------------------
(* What a recall is due to list: those in stock among the batches consumed  *)
(* for the problem, or made of it, over MaxDepth productions.               *)

Within(relation, batch) ==
  LET reach[n \in Nat] ==
        IF n = 0 THEN {batch}
        ELSE reach[n - 1] \cup {p[2] : p \in {q \in relation : q[1] \in reach[n - 1]}}
  IN reach[MaxDepth]

Affected(t) ==
  LET batches == Within(consumption, traces[t].batch)
                 \cup Within({<<p[2], p[1]>> : p \in consumption}, traces[t].batch)
  IN {u \in DOMAIN traces : traces[u].stock = "IN_STOCK" /\ traces[u].batch \in batches}

\* Each batch has one trace at most, and all that was reported is linked.
TracedInFull ==
  /\ \A t, u \in DOMAIN traces : traces[t].batch = traces[u].batch => t = u
  /\ \A p \in consumption : \E l \in links : /\ traces[l[1]].batch = p[1]
                                          /\ traces[l[2]].batch = p[2]

\* A trace that both searches were at counts as the backward one saw it.
ClassifyTraces(c) ==
  /\ At(c, "assess", "search")
  /\ LET search == job[c].search
         back == search["backward"].nodes
         on == search["forward"].nodes
         Status(t) == IF t \in DOMAIN back THEN back[t] ELSE on[t]
         listed == {t \in DOMAIN back \cup DOMAIN on : Status(t) = "IN_STOCK"}
     IN /\ \A d \in Directions : search[d].queue = << >>
        /\ assessments' =
             [assessments EXCEPT ![job[c].no].listed = listed,
                                 ![job[c].no].due = Affected(job[c].problem),
                                 ![job[c].no].sound =
                                    /\ \A d \in Directions : ~search[d].cut
                                    /\ job[c].no \notin disturbed /\ TracedInFull]
        /\ Continue(c, [op |-> "assess", no |-> job[c].no, todo |-> SetToSeq(listed),
                        frozen |-> << >>,
                        stage |-> IF listed = {} THEN "complete" ELSE "freeze"])
  /\ UNCHANGED <<traces, links, row, recallPast>>

-----------------------------------------------------------------------------
(* Published by the recall, and handled before publish returns. *)

\* RECALL_FREEZE_REQUEST: a batch that fails is left out of the answer.
FreezeStock(c, done) ==
  /\ At(c, "assess", "freeze")
  /\ LET n == Head(job[c].todo)
         rest == Tail(job[c].todo)
         frozen == IF done THEN Append(job[c].frozen, n) ELSE job[c].frozen
     IN /\ row' = IF done /\ n \in Stocked THEN [row EXCEPT ![n] = "LOCKED"] ELSE row
        /\ skipped' = IF done THEN skipped ELSE skipped \cup {n}
        /\ Continue(c, IF rest # << >>
                       THEN [job[c] EXCEPT !.todo = rest, !.frozen = frozen]
                       ELSE [job[c] EXCEPT !.todo = frozen, !.frozen = << >>,
                                           !.stage = "mark"])
  /\ UNCHANGED <<traces, links, assessments, consumption, disturbed>>

\* RECALL_FREEZE_COMPLETED; an error is dropped, and what is left to do.
MarkFrozen(c) ==
  /\ At(c, "assess", "mark")
  /\ job[c].todo # << >>
  /\ LET n == Head(job[c].todo)
     IN IF TracesOf(n) = {} THEN UNCHANGED <<traces, disturbed>>
        ELSE /\ \E t \in TracesOf(n) :
                  traces' = [traces EXCEPT ![t].stock = "FROZEN", ![t].frozen = TRUE]
             /\ Disturb
  /\ Continue(c, [job[c] EXCEPT !.todo = Tail(@)])
  /\ UNCHANGED <<links, row, assessments, consumption, skipped>>

EndMarks(c) ==
  /\ At(c, "assess", "mark")
  /\ Continue(c, [job[c] EXCEPT !.todo = << >>, !.stage = "complete"])
  /\ UNCHANGED recallData

CompleteRecall(c) ==
  /\ At(c, "assess", "complete")
  /\ assessments' = [assessments EXCEPT ![job[c].no].status = "COMPLETED"]
  /\ Reply(c)
  /\ UNCHANGED <<traces, links, row, recallPast>>

\* A read of the search, or the last update, fails.
FailRecall(c) ==
  /\ At(c, "assess", "search") \/ At(c, "assess", "complete")
  /\ assessments' = [assessments EXCEPT ![job[c].no].status = "FAILED"]
  /\ Reply(c)
  /\ UNCHANGED <<traces, links, row, recallPast>>

-----------------------------------------------------------------------------
RecallDie(c) ==
  /\ job[c] # NoJob
  /\ Reply(c)
  /\ UNCHANGED recallData

RecallNext ==
  \/ \E c \in Clients :
       \/ \E p \in Productions : ReportProduction(c, p)
       \/ FindTrace(c) \/ CountTraces(c) \/ InsertTrace(c) \/ LinkTrace(c)
       \/ \E t \in DOMAIN traces : AssessRecall(c, t)
       \/ CreateAssessment(c)
       \/ \E d \in Directions : SearchTraces(c, d)
       \/ ClassifyTraces(c)
       \/ \E done \in BOOLEAN : FreezeStock(c, done)
       \/ MarkFrozen(c) \/ EndMarks(c)
       \/ CompleteRecall(c) \/ FailRecall(c) \/ RecallDie(c)
  \/ \E t \in DOMAIN traces : StockIn(t)

RecallSpec == ReqInit /\ RecallInit /\ [][RecallNext]_recallVars

-----------------------------------------------------------------------------
RecallTypeOK ==
  /\ traces \in Seq([batch : Nat \ {0}, material : {p.material : p \in Productions},
                     code : Nat, stock : {"IN_STOCK", "FROZEN"}, frozen : BOOLEAN])
  /\ links \subseteq (DOMAIN traces) \X (DOMAIN traces)
  /\ row \in [Stocked -> {"AVAILABLE", "LOCKED"}]
  /\ assessments \in Seq([status : {"CALCULATING", "COMPLETED", "FAILED"},
                          listed : SUBSET DOMAIN traces, due : SUBSET DOMAIN traces,
                          sound : BOOLEAN])

(***************************************************************************)
(* A recall that is COMPLETED has listed just the traces in stock of the   *)
(* batches consumed for the problem or made of it, unless they changed     *)
(* while it searched, were not traced in full (two productions at the same *)
(* time may each insert a trace, or fail), or were too many.  The stock of *)
(* the batches with the listed numbers is locked, except where that        *)
(* failed, and no other stock is.                                          *)
(***************************************************************************)
RecallIsComplete ==
  /\ \A a \in DOMAIN assessments :
       LET it == assessments[a]
       IN it.status = "COMPLETED" =>
            /\ it.sound => it.listed = it.due
            /\ \A n \in it.listed \cap Stocked : n \in skipped \/ row[n] = "LOCKED"
  /\ \A n \in Stocked : row[n] = "LOCKED" =>
       \E a \in DOMAIN assessments : n \in assessments[a].listed
  /\ \A t \in DOMAIN traces : traces[t].frozen /\ traces[t].batch \in Stocked
       => row[traces[t].batch] = "LOCKED"
=============================================================================
