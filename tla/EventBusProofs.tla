--------------------------- MODULE EventBusProofs ---------------------------
(***************************************************************************)
(* Theorems about EventBus for every set of events, handlers, publishers   *)
(* and ticks, every limit and every combination of faults.                 *)
(***************************************************************************)
EXTENDS EventBus, TLAPS

\* The stage of a task tells which record it is.
LEMMA PubStage ==
  ASSUME TypeOK, NEW p \in Publishers, pub[p].stage # "idle"
  PROVE  pub[p] \in BusyPub
  BY DEF TypeOK, NoPub

LEMMA TickStage ==
  ASSUME TypeOK, NEW t \in Ticks
  PROVE  /\ tick[t].stage = "pick" => tick[t] \in PickTick
         /\ tick[t].stage \in {"handlers", "fail"} => tick[t] \in WorkTick
  BY DEF TypeOK, NoTick, PickTick, WorkTick

\* A tick that has finished an event picks the next one or ends.
LEMMA RemainingType ==
  ASSUME NEW t \in Ticks, NEW e, tick[t] \in WorkTick
  PROVE  Remaining(t, e) \in PickTick \cup {NoTick}
<1>1. [tick[t].retry EXCEPT ![e] = 0] \in [Events -> Nat]
  BY DEF WorkTick
<1>2. tick[t].batch \ {e} \in SUBSET Events BY DEF WorkTick
<1> QED BY <1>1, <1>2 DEF Remaining, PickTick

\* an insert into the table
LEMMA InsertType ==
  ASSUME TypeOK, NEW e \in Events, NEW s \in Status, Insert(e, s)
  PROVE  store' \in [Events -> Row] /\ now' \in Nat
<1>1. [status |-> s, retryCount |-> 0, createdAt |-> now] \in Row
  BY DEF Row, TypeOK
<1> QED BY <1>1 DEF Insert, TypeOK

\* the two outcomes of a handler
LEMMA OutcomeType ==
  ASSUME TypeOK, NEW e \in Events, NEW h \in Handlers,
         Succeeds(e, h) \/ Throws
  PROVE  ran' \in [Events -> [Handlers -> Nat]] /\ failures' \in Nat
<1>1. CASE Succeeds(e, h) BY <1>1 DEF Succeeds, TypeOK
<1>2. CASE Throws BY <1>2 DEF Throws, TypeOK
<1> QED BY <1>1, <1>2

LEMMA TypeInit == Init => TypeOK
  BY DEF Init, TypeOK, NoRow, Row, Status

LEMMA TypeNext == TypeOK /\ [Next]_vars => TypeOK'
<1> SUFFICES ASSUME TypeOK, [Next]_vars PROVE TypeOK'
  OBVIOUS
<1>1. ASSUME NEW p \in Publishers, NEW e \in Events, PublishStart(p, e)
      PROVE  TypeOK'
  <2>1. [stage |-> "handlers", event |-> e, next |-> 1, error |-> "none"]
          \in BusyPub
    BY DEF BusyPub, Errors
  <2>2. pub' \in [Publishers -> BusyPub \cup {NoPub}]
    BY <1>1, <2>1 DEF PublishStart, TypeOK
  <2> QED BY <1>1, <2>2 DEF PublishStart, TypeOK
<1>2. ASSUME NEW p \in Publishers, PublishHandle(p) PROVE TypeOK'
  <2>1. pub[p] \in BusyPub BY <1>2, PubStage DEF PublishHandle
  <2>2. PICK error \in Errors :
          pub' = [pub EXCEPT ![p] =
                    [stage |-> "handlers", event |-> pub[p].event,
                     next |-> pub[p].next + 1, error |-> error]]
    <3>1. \A error \in Errors : HandlerError(p, error) \in Errors
      BY <2>1 DEF BusyPub, HandlerError
    <3>2. {"none", "empty", "message"} \subseteq Errors BY DEF Errors
    <3> QED BY <1>2, <3>1, <3>2 DEF PublishHandle
  <2>3. pub' \in [Publishers -> BusyPub \cup {NoPub}]
    <3>1. [stage |-> "handlers", event |-> pub[p].event,
           next |-> pub[p].next + 1, error |-> error] \in BusyPub
      BY <2>1 DEF BusyPub
    <3> QED BY <2>2, <3>1 DEF TypeOK
  <2>4. /\ pub[p].event \in Events
        /\ HandlersOf[pub[p].event][pub[p].next] \in Handlers
    <3>1. pub[p].event \in Events /\ pub[p].next \in Nat \ {0}
      BY <2>1 DEF BusyPub
    <3>2. HandlersOf[pub[p].event] \in Seq(Handlers) BY <3>1, BusConstants
    <3> QED BY <1>2, <3>1, <3>2 DEF PublishHandle
  <2>5. ran' \in [Events -> [Handlers -> Nat]] /\ failures' \in Nat
    BY <1>2, <2>4, OutcomeType DEF PublishHandle
  <2> QED BY <1>2, <2>3, <2>5 DEF PublishHandle, history, TypeOK
<1>3. ASSUME NEW p \in Publishers, PublishSave(p) PROVE TypeOK'
  <2>1. pub[p] \in BusyPub BY <1>3, PubStage DEF PublishSave
  <2>2. pub' \in [Publishers -> BusyPub \cup {NoPub}]
    BY <1>3, <2>1 DEF PublishSave, TypeOK, BusyPub
  <2>3. store' \in [Events -> Row] /\ now' \in Nat
    <3>1. pub[p].event \in Events BY <2>1 DEF BusyPub
    <3>2. StatusFor(pub[p].error) \in Status BY DEF StatusFor, Status
    <3> QED BY <1>3, <3>1, <3>2, InsertType DEF PublishSave, TypeOK
  <2>4. unheard' \subseteq Events
    BY <1>3, <2>1 DEF PublishSave, TypeOK, BusyPub
  <2> QED BY <1>3, <2>2, <2>3, <2>4 DEF PublishSave, TypeOK
<1>4. ASSUME NEW p \in Publishers, PublishMark(p) PROVE TypeOK'
  <2>1. pub[p].event \in Events
    BY <1>4, PubStage DEF PublishMark, BusyPub
  <2>2. Append(processedIds, pub[p].event) \in Seq(Events)
    BY <2>1 DEF TypeOK
  <2>3. \A ids \in Seq(Events) : Len(ids) > Cap => Tail(ids) \in Seq(Events)
    BY BusConstants
  <2>4. processedIds' \in Seq(Events)
    BY <1>4, <2>2, <2>3 DEF PublishMark, TypeOK
  <2> QED BY <1>4, <2>4 DEF PublishMark, history, TypeOK
<1>5. ASSUME NEW t \in Ticks, TickStart(t) PROVE TypeOK'
  <2>1. Eligible \in SUBSET Events BY DEF Eligible, Window, Waiting
  <2>2. \A e \in Events : store[e].retryCount \in Nat BY DEF TypeOK, Row
  <2>3. tick' \in [Ticks -> PickTick \cup WorkTick \cup {NoTick}]
    BY <1>5, <2>1, <2>2 DEF TickStart, TypeOK, PickTick
  <2> QED BY <1>5, <2>3 DEF TickStart, history, TypeOK
<1>6. ASSUME NEW t \in Ticks, TickPick(t) PROVE TypeOK'
  <2>1. tick[t] \in PickTick BY <1>6, TickStage DEF TickPick
  <2>2. PICK e \in tick[t].batch :
          \/ /\ store' = [store EXCEPT ![e].status = "PROCESSING"]
             /\ tick' = [tick EXCEPT ![t] =
                  [stage |-> "handlers", event |-> e, next |-> 1,
                   batch |-> tick[t].batch, retry |-> tick[t].retry]]
          \/ store' = store /\ tick' = [tick EXCEPT ![t] = NoTick]
    BY <1>6 DEF TickPick
  <2>3. e \in Events BY <2>1 DEF PickTick
  <2>4. [stage |-> "handlers", event |-> e, next |-> 1,
         batch |-> tick[t].batch, retry |-> tick[t].retry] \in WorkTick
    BY <2>1, <2>3 DEF PickTick, WorkTick
  <2>5. tick' \in [Ticks -> PickTick \cup WorkTick \cup {NoTick}]
    BY <2>2, <2>4 DEF TypeOK
  <2>6. store' \in [Events -> Row]
    <3>1. [store[e] EXCEPT !.status = "PROCESSING"] \in Row
      BY <2>3 DEF TypeOK, Row, Status
    <3> QED BY <2>2, <3>1 DEF TypeOK
  <2> QED BY <1>6, <2>5, <2>6 DEF TickPick, history, TypeOK
<1>7. ASSUME NEW t \in Ticks, TickHandle(t) PROVE TypeOK'
  <2>1. tick[t] \in WorkTick BY <1>7, TickStage DEF TickHandle
  <2>2. /\ [tick[t] EXCEPT !.next = @ + 1] \in WorkTick
        /\ [tick[t] EXCEPT !.stage = "fail"] \in WorkTick
    BY <2>1 DEF WorkTick
  <2>3. tick' \in [Ticks -> PickTick \cup WorkTick \cup {NoTick}]
    BY <1>7, <2>2 DEF TickHandle, TypeOK
  <2>4. /\ tick[t].event \in Events
        /\ HandlersOf[tick[t].event][tick[t].next] \in Handlers
    <3>1. tick[t].event \in Events /\ tick[t].next \in Nat \ {0}
      BY <2>1 DEF WorkTick
    <3>2. HandlersOf[tick[t].event] \in Seq(Handlers) BY <3>1, BusConstants
    <3> QED BY <1>7, <3>1, <3>2 DEF TickHandle
  <2>5. ran' \in [Events -> [Handlers -> Nat]] /\ failures' \in Nat
    BY <1>7, <2>4, OutcomeType DEF TickHandle, TypeOK
  <2> QED BY <1>7, <2>3, <2>5 DEF TickHandle, history, TypeOK
<1>8. ASSUME NEW t \in Ticks, TickComplete(t) PROVE TypeOK'
  <2>1. tick[t] \in WorkTick BY <1>8, TickStage DEF TickComplete
  <2>2. [tick[t] EXCEPT !.stage = "fail"] \in WorkTick BY <2>1 DEF WorkTick
  <2>3. Remaining(t, tick[t].event) \in PickTick \cup {NoTick}
    BY <2>1, RemainingType
  <2>4. tick' \in [Ticks -> PickTick \cup WorkTick \cup {NoTick}]
    BY <1>8, <2>2, <2>3 DEF TickComplete, TypeOK
  <2>5. tick[t].event \in Events BY <2>1 DEF WorkTick
  <2>6. store' \in [Events -> Row]
    <3>1. [store[tick[t].event] EXCEPT !.status = "COMPLETED"] \in Row
      BY ZenonT(60), <2>5 DEF TypeOK, Row, Status
    <3> QED BY <1>8, <3>1 DEF TickComplete, TypeOK
  <2> QED BY <1>8, <2>4, <2>6 DEF TickComplete, history, TypeOK
<1>9. ASSUME NEW t \in Ticks, TickFail(t) PROVE TypeOK'
  <2>1. tick[t] \in WorkTick BY <1>9, TickStage DEF TickFail
  <2>2. Remaining(t, tick[t].event) \in PickTick \cup {NoTick}
    BY <2>1, RemainingType
  <2>3. tick' \in [Ticks -> PickTick \cup WorkTick \cup {NoTick}]
    BY <1>9, <2>2 DEF TickFail, TypeOK
  <2>4. tick[t].event \in Events /\ NewRetryCount(t) \in Nat
    BY <2>1 DEF NewRetryCount, WorkTick
  <2>5. NewStatus(NewRetryCount(t)) \in Status BY DEF NewStatus, Status
  <2>6. store' \in [Events -> Row]
    <3>1. [store[tick[t].event] EXCEPT
             !.status = NewStatus(NewRetryCount(t)),
             !.retryCount = NewRetryCount(t)] \in Row
      BY <2>4, <2>5 DEF TypeOK, Row
    <3> QED BY <1>9, <3>1 DEF TickFail, TypeOK
  <2>7. attempts' \in [Events -> Nat] BY <1>9, <2>4 DEF TickFail, TypeOK
  <2> QED BY <1>9, <2>3, <2>6, <2>7 DEF TickFail, history, TypeOK
<1>10. ASSUME NEW e \in Events, InsertPending(e) PROVE TypeOK'
  <2>1. store' \in [Events -> Row] /\ now' \in Nat
    BY <1>10, InsertType DEF InsertPending, Status
  <2> QED BY <1>10, <2>1 DEF InsertPending, history, TypeOK
<1>11. ASSUME NEW e \in Events, Requeue(e) PROVE TypeOK'
  <2>1. store' \in [Events -> Row]
    <3>1. [store[e] EXCEPT !.status = "PENDING", !.retryCount = 0] \in Row
      BY DEF TypeOK, Row, Status
    <3> QED BY <1>11, <3>1 DEF Requeue, TypeOK
  <2> QED BY <1>11, <2>1 DEF Requeue, TypeOK
<1>12. CASE Crash
  BY <1>12 DEF Crash, history, TypeOK
<1>13. CASE UNCHANGED vars
  BY <1>13 DEF vars, TypeOK
<1> QED
  BY <1>1, <1>2, <1>3, <1>4, <1>5, <1>6, <1>7, <1>8, <1>9, <1>10, <1>11,
     <1>12, <1>13
  DEF Next, Publish, TickStep, TickEmpty

\* Every variable of the bus keeps its type, in particular a row its status
\* and a task its event, whatever the interleaving and the faults.
THEOREM TypeCorrect == Spec => []TypeOK
  BY TypeInit, TypeNext, PTL DEF Spec

(***************************************************************************)
(* At-least-once delivery.  CompletedMeansAllRan is not inductive: what is  *)
(* written as COMPLETED is decided many steps earlier, one handler at a     *)
(* time.  The invariant below says what each task in progress has achieved. *)
(***************************************************************************)
HandledBefore(e, n) ==
  \A i \in 1..Len(HandlersOf[e]) : i < n => ran[e][HandlersOf[e][i]] >= 1

TasksProgress ==
  /\ \A p \in Publishers :
       pub[p].stage = "handlers" /\ pub[p].error = "none" =>
         HandledBefore(pub[p].event, pub[p].next)
  /\ \A t \in Ticks :
       tick[t].stage = "handlers" => HandledBefore(tick[t].event, tick[t].next)

DeliveryInv == TypeOK /\ TasksProgress /\ CompletedMeansAllRan

\* Effects are never taken back.
LEMMA RanGrows ==
  ASSUME TypeOK, [Next]_vars
  PROVE  \A e \in Events, h \in Handlers : ran'[e][h] >= ran[e][h]
<1>1. ASSUME NEW e \in Events, NEW h \in Handlers, Succeeds(e, h)
      PROVE  \A f \in Events, g \in Handlers : ran'[f][g] >= ran[f][g]
  BY <1>1 DEF Succeeds, TypeOK
<1>2. CASE ran' = ran BY <1>2 DEF TypeOK
<1>3. ASSUME NEW p \in Publishers, PublishHandle(p)
      PROVE  \A f \in Events, g \in Handlers : ran'[f][g] >= ran[f][g]
  <2>1. pub[p] \in BusyPub BY <1>3, PubStage DEF PublishHandle
  <2>2. pub[p].event \in Events /\ pub[p].next \in Nat \ {0}
    BY <2>1 DEF BusyPub
  <2>3. HandlersOf[pub[p].event] \in Seq(Handlers) BY <2>2, BusConstants
  <2>4. HandlersOf[pub[p].event][pub[p].next] \in Handlers
    BY <1>3, <2>2, <2>3 DEF PublishHandle
  <2> QED BY <1>1, <1>2, <1>3, <2>2, <2>4 DEF PublishHandle, Throws
<1>4. ASSUME NEW t \in Ticks, TickHandle(t)
      PROVE  \A f \in Events, g \in Handlers : ran'[f][g] >= ran[f][g]
  <2>1. tick[t] \in WorkTick BY <1>4, TickStage DEF TickHandle
  <2>2. tick[t].event \in Events /\ tick[t].next \in Nat \ {0}
    BY <2>1 DEF WorkTick
  <2>3. HandlersOf[tick[t].event] \in Seq(Handlers) BY <2>2, BusConstants
  <2>4. HandlersOf[tick[t].event][tick[t].next] \in Handlers
    BY <1>4, <2>2, <2>3 DEF TickHandle
  <2> QED BY <1>1, <1>2, <1>4, <2>2, <2>4 DEF TickHandle, Throws
<1>5. ran' = ran \/ (\E p \in Publishers : PublishHandle(p))
                 \/ (\E t \in Ticks : TickHandle(t))
  BY DEF Next, Publish, TickStep, vars, PublishStart, PublishSave,
         PublishMark, TickStart, TickEmpty, TickPick, TickComplete, TickFail,
         InsertPending, Requeue, Crash
<1> QED BY <1>2, <1>3, <1>4, <1>5

\* What a task has achieved stays achieved.
LEMMA HandledStays ==
  ASSUME TypeOK, [Next]_vars, NEW e \in Events, NEW n, HandledBefore(e, n)
  PROVE  HandledBefore(e, n)'
<1> SUFFICES ASSUME NEW i \in 1..Len(HandlersOf[e]), i < n
             PROVE  ran'[e][HandlersOf[e][i]] >= 1
  BY DEF HandledBefore
<1>1. HandlersOf[e] \in Seq(Handlers) BY BusConstants
<1>2. HandlersOf[e][i] \in Handlers BY <1>1
<1>3. ran[e][HandlersOf[e][i]] >= 1 BY DEF HandledBefore
<1>4. TypeOK' BY TypeNext
<1>5. /\ ran[e][HandlersOf[e][i]] \in Nat
      /\ ran'[e][HandlersOf[e][i]] \in Nat
  BY <1>2, <1>4 DEF TypeOK
<1> QED BY <1>2, <1>3, <1>5, RanGrows

\* A handler that completes brings its task one further.
LEMMA HandledNext ==
  ASSUME TypeOK, [Next]_vars, NEW e \in Events, NEW n \in Nat \ {0},
         n <= Len(HandlersOf[e]), HandledBefore(e, n),
         Succeeds(e, HandlersOf[e][n])
  PROVE  HandledBefore(e, n + 1)'
<1>1. HandlersOf[e] \in Seq(Handlers) BY BusConstants
<1>2. HandlersOf[e][n] \in Handlers BY <1>1
<1>3. ran'[e][HandlersOf[e][n]] >= 1
  BY <1>2 DEF Succeeds, TypeOK
<1>4. HandledBefore(e, n)' BY HandledStays
<1> QED BY <1>1, <1>3, <1>4 DEF HandledBefore

LEMMA DeliveryInit == Init => DeliveryInv
  BY TypeInit
  DEF Init, DeliveryInv, TasksProgress, CompletedMeansAllRan, NoRow, NoPub,
      NoTick

\* A call of publish changes by its own steps and by a crash only.
LEMMA PubMoves ==
  ASSUME TypeOK, [Next]_vars, NEW p \in Publishers, pub'[p] # pub[p]
  PROVE  \/ \E e \in Events : PublishStart(p, e) /\ pub' # pub
         \/ PublishHandle(p) \/ PublishSave(p) \/ PublishMark(p) \/ Crash
<1>1. pub \in [Publishers -> BusyPub \cup {NoPub}] BY DEF TypeOK
<1>2. ASSUME NEW q \in Publishers, Publish(q)
      PROVE  \E r : pub' = [pub EXCEPT ![q] = r]
  <2>1. ASSUME NEW e \in Events, PublishStart(q, e)
        PROVE  \E r : pub' = [pub EXCEPT ![q] = r]
    <3>1. pub = [pub EXCEPT ![q] = pub[q]] BY <1>1
    <3> QED BY <2>1, <3>1 DEF PublishStart
  <2>2. CASE PublishSave(q)
    <3>1. pub' = [pub EXCEPT ![q] = [pub[q] EXCEPT !.stage = "mark"]]
      BY <2>2 DEF PublishSave
    <3> QED BY <3>1
  <2>3. CASE PublishHandle(q) BY <2>3 DEF PublishHandle
  <2>4. CASE PublishMark(q) BY <2>4 DEF PublishMark
  <2> QED BY <1>2, <2>1, <2>2, <2>3, <2>4 DEF Publish
<1>3. ASSUME NEW q \in Publishers, Publish(q), q # p PROVE FALSE
  BY <1>1, <1>2, <1>3
<1>4. pub' = pub \/ (\E q \in Publishers : Publish(q)) \/ Crash
  BY DEF Next, TickStep, vars, TickStart, TickEmpty, TickPick, TickHandle,
         TickComplete, TickFail, InsertPending, Requeue
<1> QED BY <1>3, <1>4 DEF Publish

LEMMA TickMoves ==
  ASSUME TypeOK, [Next]_vars, NEW t \in Ticks, tick'[t] # tick[t]
  PROVE  \/ TickStart(t) \/ TickPick(t) \/ TickHandle(t)
         \/ TickComplete(t) \/ TickFail(t) \/ Crash
<1>1. tick \in [Ticks -> PickTick \cup WorkTick \cup {NoTick}] BY DEF TypeOK
<1>2. ASSUME NEW u \in Ticks, TickStep(u)
      PROVE  \E r : tick' = [tick EXCEPT ![u] = r]
  <2>1. CASE TickEmpty(u)
    <3>1. tick = [tick EXCEPT ![u] = tick[u]] BY <1>1
    <3> QED BY <2>1, <3>1 DEF TickEmpty, vars
  <2>2. CASE TickHandle(u)
    <3>1. \/ tick' = [tick EXCEPT ![u] = [tick[u] EXCEPT !.next = @ + 1]]
          \/ tick' = [tick EXCEPT ![u] = [tick[u] EXCEPT !.stage = "fail"]]
      BY <2>2 DEF TickHandle
    <3> QED BY <3>1
  <2>3. CASE TickComplete(u)
    <3>1. \/ tick' = [tick EXCEPT ![u] = Remaining(u, tick[u].event)]
          \/ tick' = [tick EXCEPT ![u] = [tick[u] EXCEPT !.stage = "fail"]]
      BY <2>3 DEF TickComplete
    <3> QED BY <3>1
  <2>4. CASE TickStart(u) BY <2>4 DEF TickStart
  <2>5. CASE TickPick(u) BY <2>5 DEF TickPick
  <2>6. CASE TickFail(u) BY <2>6 DEF TickFail
  <2> QED BY <1>2, <2>1, <2>2, <2>3, <2>4, <2>5, <2>6 DEF TickStep
<1>3. ASSUME NEW u \in Ticks, TickStep(u), u # t PROVE FALSE
  BY <1>1, <1>2, <1>3
<1>4. tick' = tick \/ (\E u \in Ticks : TickStep(u)) \/ Crash
  BY DEF Next, Publish, vars, PublishStart, PublishHandle, PublishSave,
         PublishMark, InsertPending, Requeue
<1>5. ~TickEmpty(t) BY DEF TickEmpty, vars
<1> QED BY <1>3, <1>4, <1>5 DEF TickStep

\* The claims of the calls of publish: only the call that moves changes its own.
LEMMA PublishProgress ==
  ASSUME DeliveryInv, [Next]_vars, NEW p \in Publishers,
         NEW e \in Events, NEW n \in Nat,
         pub'[p].event = e, pub'[p].next = n,
         pub'[p].stage = "handlers", pub'[p].error = "none"
  PROVE  HandledBefore(e, n)'
<1>0. TypeOK BY DEF DeliveryInv
<1>f. pub \in [Publishers -> BusyPub \cup {NoPub}] BY <1>0 DEF TypeOK
<1>1. CASE pub'[p] = pub[p]
  <2>1. HandledBefore(pub[p].event, pub[p].next)
    BY <1>1 DEF DeliveryInv, TasksProgress
  <2>2. HandledBefore(e, n) BY <1>1, <2>1
  <2> QED BY <1>0, <2>2, HandledStays
<1>2. CASE \E f \in Events : PublishStart(p, f) /\ pub' # pub
  <2>1. n = 1 BY <1>0, <1>2 DEF PublishStart, TypeOK
  <2> QED BY <2>1 DEF HandledBefore
<1>3. CASE PublishHandle(p)
  <2>1. pub[p] \in BusyPub BY <1>0, <1>3, PubStage DEF PublishHandle
  <2>a. pub[p].next \in Nat \ {0} BY <2>1 DEF BusyPub
  <2>b. pub[p].next <= Len(HandlersOf[pub[p].event])
    BY <1>3 DEF PublishHandle
  <2>c. PICK error \in Errors :
          /\ pub' = [pub EXCEPT ![p] =
                       [stage |-> "handlers", event |-> pub[p].event,
                        next |-> pub[p].next + 1,
                        error |-> HandlerError(p, error)]]
          /\ error = "none" =>
               Succeeds(pub[p].event, HandlersOf[pub[p].event][pub[p].next])
    BY <1>3 DEF PublishHandle, Errors
  <2>2. /\ pub[p].event = e /\ n = pub[p].next + 1
        /\ HandlerError(p, error) = "none"
    BY <1>f, <2>c
  <2>3. Succeeds(e, HandlersOf[e][pub[p].next]) /\ pub[p].error = "none"
    BY <2>c, <2>2 DEF HandlerError
  <2>4. HandledBefore(e, pub[p].next)
    BY <1>3, <2>2, <2>3 DEF PublishHandle, DeliveryInv, TasksProgress
  <2> QED BY <1>0, <2>a, <2>b, <2>2, <2>3, <2>4, HandledNext
<1>4. CASE PublishMark(p) \/ Crash
  BY <1>f, <1>4 DEF PublishMark, Crash, NoPub
<1>6. CASE PublishSave(p)
  <2>1. pub[p] \in BusyPub BY <1>0, <1>6, PubStage DEF PublishSave
  <2>2. pub'[p] = [pub[p] EXCEPT !.stage = "mark"]
    BY <1>f, <1>6 DEF PublishSave
  <2> QED BY <2>1, <2>2 DEF BusyPub
<1> QED BY <1>0, <1>1, <1>2, <1>3, <1>4, <1>6, PubMoves

\* The claims of the ticks
LEMMA TickProgress ==
  ASSUME DeliveryInv, [Next]_vars, NEW t \in Ticks,
         NEW e \in Events, NEW n \in Nat,
         tick'[t].event = e, tick'[t].next = n, tick'[t].stage = "handlers"
  PROVE  HandledBefore(e, n)'
<1>0. TypeOK BY DEF DeliveryInv
<1>f. tick \in [Ticks -> PickTick \cup WorkTick \cup {NoTick}]
  BY <1>0 DEF TypeOK
<1>1. CASE tick'[t] = tick[t]
  <2>1. HandledBefore(tick[t].event, tick[t].next)
    BY <1>1 DEF DeliveryInv, TasksProgress
  <2>2. HandledBefore(e, n) BY <1>1, <2>1
  <2> QED BY <1>0, <2>2, HandledStays
<1>2. CASE TickPick(t)
  <2>1. n = 1 BY <1>0, <1>2 DEF TickPick, TypeOK, NoTick
  <2> QED BY <2>1 DEF HandledBefore
<1>3. CASE TickHandle(t)
  <2>1. tick[t] \in WorkTick BY <1>0, <1>3, TickStage DEF TickHandle
  <2>2. tick[t].next \in Nat \ {0} /\ tick[t].next <= Len(HandlersOf[tick[t].event])
    BY <1>3, <2>1 DEF TickHandle, WorkTick
  <2>3. /\ Succeeds(tick[t].event, HandlersOf[tick[t].event][tick[t].next])
        /\ tick'[t] = [tick[t] EXCEPT !.next = @ + 1]
    <3>1. tick' # [tick EXCEPT ![t] = [tick[t] EXCEPT !.stage = "fail"]]
      BY <1>f, <2>1 DEF WorkTick
    <3> QED BY <1>f, <1>3, <3>1 DEF TickHandle
  <2>4. tick[t].event = e /\ n = tick[t].next + 1
    BY <2>1, <2>3 DEF WorkTick
  <2>5. HandledBefore(e, tick[t].next)
    BY <1>3, <2>4 DEF TickHandle, DeliveryInv, TasksProgress
  <2> QED BY <1>0, <2>2, <2>3, <2>4, <2>5, HandledNext
<1>4. CASE TickStart(t) \/ Crash
  BY <1>f, <1>4 DEF TickStart, Crash, NoTick
<1>6. CASE TickComplete(t) \/ TickFail(t)
  <2>1. Remaining(t, tick[t].event).stage # "handlers"
    BY DEF Remaining, NoTick
  <2>2. tick[t] \in WorkTick BY <1>0, <1>6, TickStage DEF TickComplete, TickFail
  <2>3. \/ tick'[t] = Remaining(t, tick[t].event)
        \/ tick'[t] = [tick[t] EXCEPT !.stage = "fail"]
        \/ tick'[t] = NoTick
    BY <1>f, <1>6 DEF TickComplete, TickFail
  <2> QED BY <2>1, <2>2, <2>3 DEF NoTick, WorkTick
<1> QED BY <1>0, <1>1, <1>2, <1>3, <1>4, <1>6, TickMoves

\* What may happen to one row, and who does it
Saved(e, p) ==
  /\ PublishSave(p) /\ pub[p].event = e /\ store[e].status = "ABSENT"
  /\ store'[e] =
       [status |-> StatusFor(pub[p].error), retryCount |-> 0,
        createdAt |-> now]
  /\ pub[p].error = "empty" => e \in unheard'

Picked(e, t) ==
  /\ TickPick(t) /\ e \in tick[t].batch
  /\ store'[e] = [store[e] EXCEPT !.status = "PROCESSING"]
  /\ tick'[t] = [stage |-> "handlers", event |-> e, next |-> 1,
                 batch |-> tick[t].batch, retry |-> tick[t].retry]

Completed(e, t) ==
  /\ TickComplete(t) /\ tick[t].event = e
  /\ store'[e] = [store[e] EXCEPT !.status = "COMPLETED"]
  /\ tick'[t] = Remaining(t, e)

Failed(e, t) ==
  /\ TickFail(t) /\ tick[t].event = e
  /\ store'[e] = [store[e] EXCEPT !.status = NewStatus(NewRetryCount(t)),
                                  !.retryCount = NewRetryCount(t)]
  /\ tick'[t] = Remaining(t, e)

LEMMA RowMoves ==
  ASSUME TypeOK, [Next]_vars, NEW e \in Events, store'[e] # store[e]
  PROVE  \/ \E p \in Publishers : Saved(e, p)
         \/ \E t \in Ticks : Picked(e, t) \/ Completed(e, t) \/ Failed(e, t)
         \/ InsertPending(e)
         \/ Requeue(e)
<1>s. store \in [Events -> Row] BY DEF TypeOK
<1>t. tick \in [Ticks -> PickTick \cup WorkTick \cup {NoTick}] BY DEF TypeOK
<1>1. ASSUME NEW p \in Publishers, PublishSave(p) PROVE Saved(e, p)
  <2>1. pub[p].event \in Events
    BY <1>1, PubStage DEF PublishSave, BusyPub
  <2>2. /\ Insertable(pub[p].event)
        /\ Insert(pub[p].event, StatusFor(pub[p].error))
        /\ pub[p].error = "empty" => pub[p].event \in unheard'
    BY <1>1 DEF PublishSave
  <2>3. pub[p].event = e BY <1>s, <2>1, <2>2 DEF Insert
  <2> QED BY <1>1, <1>s, <2>2, <2>3 DEF Saved, Insert, Insertable
<1>2. ASSUME NEW t \in Ticks, TickPick(t) PROVE Picked(e, t)
  <2>1. tick[t] \in PickTick BY <1>2, TickStage DEF TickPick
  <2>2. PICK f \in tick[t].batch :
          /\ store' = [store EXCEPT ![f].status = "PROCESSING"]
          /\ tick' = [tick EXCEPT ![t] =
               [stage |-> "handlers", event |-> f, next |-> 1,
                batch |-> tick[t].batch, retry |-> tick[t].retry]]
    BY <1>2 DEF TickPick
  <2>3. f = e BY <1>s, <2>2
  <2> QED BY <1>2, <1>s, <1>t, <2>2, <2>3 DEF Picked
<1>3. ASSUME NEW t \in Ticks, TickComplete(t) PROVE Completed(e, t)
  <2>1. /\ store' = [store EXCEPT ![tick[t].event].status = "COMPLETED"]
        /\ tick' = [tick EXCEPT ![t] = Remaining(t, tick[t].event)]
    BY <1>3 DEF TickComplete
  <2>2. tick[t].event = e BY <1>s, <2>1
  <2> QED BY <1>3, <1>s, <1>t, <2>1, <2>2 DEF Completed
<1>4. ASSUME NEW t \in Ticks, TickFail(t) PROVE Failed(e, t)
  <2>1. /\ store' = [store EXCEPT ![tick[t].event] =
                      [@ EXCEPT !.status = NewStatus(NewRetryCount(t)),
                                !.retryCount = NewRetryCount(t)]]
        /\ tick' = [tick EXCEPT ![t] = Remaining(t, tick[t].event)]
    BY <1>4 DEF TickFail
  <2>2. tick[t].event = e BY <1>s, <2>1
  <2> QED BY <1>4, <1>s, <1>t, <2>1, <2>2 DEF Failed
<1>5. ASSUME NEW f \in Events, InsertPending(f) PROVE f = e
  BY <1>5, <1>s DEF InsertPending, Insert
<1>6. ASSUME NEW f \in Events, Requeue(f) PROVE f = e
  BY <1>6, <1>s DEF Requeue
<1> QED
  BY <1>1, <1>2, <1>3, <1>4, <1>5, <1>6
  DEF Next, Publish, TickStep, TickEmpty, vars, PublishStart, PublishHandle,
      PublishMark, TickStart, TickHandle, Crash

\* A row stays excepted until it is put back by hand.
LEMMA UnheardStays ==
  ASSUME TypeOK, [Next]_vars, NEW e \in Events, e \in unheard, ~Requeue(e)
  PROVE  e \in unheard'
<1>1. ASSUME NEW p \in Publishers, PublishSave(p) PROVE e \in unheard'
  BY <1>1 DEF PublishSave
<1>2. ASSUME NEW f \in Events, Requeue(f) PROVE e \in unheard'
  <2>1. f # e BY <1>2
  <2> QED BY <1>2, <2>1 DEF Requeue
<1>3. \/ unheard' = unheard
      \/ \E p \in Publishers : PublishSave(p)
      \/ \E f \in Events : Requeue(f)
  BY DEF Next, Publish, TickStep, vars, history, PublishStart, PublishHandle,
         PublishMark, TickStart, TickEmpty, TickPick, TickHandle,
         TickComplete, TickFail, InsertPending, Crash
<1> QED BY <1>1, <1>2, <1>3

LEMMA DeliveryNext == DeliveryInv /\ [Next]_vars => DeliveryInv'
<1> SUFFICES ASSUME DeliveryInv, [Next]_vars PROVE DeliveryInv'
  OBVIOUS
<1>0. TypeOK BY DEF DeliveryInv
<1>1. TypeOK' BY <1>0, TypeNext
<1>2. TasksProgress'
  <2>1. ASSUME NEW p \in Publishers, pub'[p].stage = "handlers",
               pub'[p].error = "none"
        PROVE  HandledBefore(pub[p].event, pub[p].next)'
    <3>1. pub'[p].event \in Events /\ pub'[p].next \in Nat
      BY <1>1, <2>1 DEF TypeOK, BusyPub, NoPub
    <3>2. \A e \in Events, n \in Nat :
            pub'[p].event = e /\ pub'[p].next = n => HandledBefore(e, n)'
      BY <2>1, PublishProgress
    <3> QED BY <3>1, <3>2 DEF HandledBefore
  <2>2. ASSUME NEW t \in Ticks, tick'[t].stage = "handlers"
        PROVE  HandledBefore(tick[t].event, tick[t].next)'
    <3>1. tick'[t].event \in Events /\ tick'[t].next \in Nat
      <4>1. tick'[t] \in PickTick \cup WorkTick \cup {NoTick}
        BY <1>1 DEF TypeOK
      <4>2. tick'[t] \in WorkTick BY <2>2, <4>1 DEF PickTick, NoTick
      <4> QED BY <4>2 DEF WorkTick
    <3>2. \A e \in Events, n \in Nat :
            tick'[t].event = e /\ tick'[t].next = n => HandledBefore(e, n)'
      BY <2>2, TickProgress
    <3> QED BY <3>1, <3>2 DEF HandledBefore
  <2> QED BY <2>1, <2>2 DEF TasksProgress
<1>3. CompletedMeansAllRan'
  <2> SUFFICES ASSUME NEW e \in Events, e \notin unheard',
                      store'[e].status = "COMPLETED"
               PROVE  HandledBefore(e, Len(HandlersOf[e]) + 1)'
    <3>1. \A e \in Events : HandlersOf[e] \in Seq(Handlers) BY BusConstants
    <3> QED BY <3>1 DEF CompletedMeansAllRan, HandledBefore
  <2> DEFINE all == Len(HandlersOf[e]) + 1
  <2>0. HandlersOf[e] \in Seq(Handlers) BY BusConstants
  <2>1. HandledBefore(e, all)
    <3>0. Requeue(e) => store'[e].status = "PENDING"
      BY <1>0 DEF Requeue, TypeOK, Row
    <3>1. CASE store[e].status = "COMPLETED"
      <4>1. e \notin unheard BY <1>0, <3>0, UnheardStays
      <4> QED BY <3>1, <4>1, <2>0
              DEF DeliveryInv, CompletedMeansAllRan, HandledBefore
    <3>2. ASSUME NEW p \in Publishers, Saved(e, p)
          PROVE  HandledBefore(e, all)
      <4>1. pub[p] \in BusyPub
        BY <1>0, <3>2, PubStage DEF Saved, PublishSave
      <4>2. pub[p].error = "none"
        BY <3>2, <4>1 DEF Saved, StatusFor, BusyPub, Errors
      <4>3. HandledBefore(e, pub[p].next)
        BY <3>2, <4>2 DEF Saved, PublishSave, DeliveryInv, TasksProgress
      <4>4. pub[p].next > Len(HandlersOf[e]) BY <3>2 DEF Saved, PublishSave
      <4>5. pub[p].next \in Nat BY <4>1 DEF BusyPub
      <4> QED BY <2>0, <4>3, <4>4, <4>5 DEF HandledBefore
    <3>3. ASSUME NEW t \in Ticks, Completed(e, t)
          PROVE  HandledBefore(e, all)
      <4>1. tick[t] \in WorkTick
        BY <1>0, <3>3, TickStage DEF Completed, TickComplete
      <4>2. HandledBefore(e, tick[t].next)
        BY <3>3 DEF Completed, TickComplete, DeliveryInv, TasksProgress
      <4>3. tick[t].next > Len(HandlersOf[e])
        BY <3>3 DEF Completed, TickComplete
      <4>4. tick[t].next \in Nat BY <4>1 DEF WorkTick
      <4> QED BY <2>0, <4>2, <4>3, <4>4 DEF HandledBefore
    <3>4. store[e] \in Row BY <1>0 DEF TypeOK
    <3>5. ASSUME NEW t \in Ticks PROVE ~Picked(e, t) /\ ~Failed(e, t)
      BY <3>4 DEF Picked, Failed, NewStatus, Row
    <3>6. ~InsertPending(e)
      BY <1>0 DEF InsertPending, Insert, TypeOK
    <3>7. ~Requeue(e)
      <4>1. Requeue(e) => store'[e] = [store[e] EXCEPT !.status = "PENDING",
                                                       !.retryCount = 0]
        BY <1>0 DEF Requeue, TypeOK
      <4> QED BY <3>4, <4>1 DEF Row
    <3> QED BY <1>0, <3>1, <3>2, <3>3, <3>5, <3>6, <3>7, RowMoves
  <2> QED BY <1>0, <2>1, HandledStays
<1> QED BY <1>1, <1>2, <1>3 DEF DeliveryInv

\* At-least-once delivery for every number of events, subscribers, concurrent
\* calls and overlapping ticks, with crashes, failing updates and manual
\* retries: a row that says COMPLETED was handled by all its subscribers, unless
\* publish stored it over a last error without a message.
THEOREM AtLeastOnce == Spec => []CompletedMeansAllRan
<1>1. DeliveryInv => CompletedMeansAllRan BY DEF DeliveryInv
<1> QED BY <1>1, DeliveryInit, DeliveryNext, PTL DEF Spec

(***************************************************************************)
(* The window of the poller                                                *)
(***************************************************************************)
LEMMA EligibleNext ==
  TypeOK /\ WaitingIsEligible /\ [Next]_vars => WaitingIsEligible'
<1> SUFFICES ASSUME TypeOK, WaitingIsEligible, [Next]_vars,
                    NEW e \in Events, store'[e].status \in {"PENDING", "FAILED"}
             PROVE  store'[e].retryCount < MaxRetries
  BY DEF WaitingIsEligible, Waiting
<1>r. store[e] \in Row /\ store \in [Events -> Row] BY DEF TypeOK
<1>m. MaxRetries \in Nat \ {0} BY BusConstants
<1>1. CASE store'[e] = store[e] BY <1>1 DEF WaitingIsEligible, Waiting
<1>2. ASSUME NEW p \in Publishers, Saved(e, p)
      PROVE  store'[e].retryCount < MaxRetries
  BY <1>2, <1>m DEF Saved, StatusFor
<1>3. ASSUME NEW t \in Ticks, Picked(e, t) \/ Completed(e, t) PROVE FALSE
  BY <1>3, <1>r DEF Picked, Completed, Row
<1>4. ASSUME NEW t \in Ticks, Failed(e, t)
      PROVE  store'[e].retryCount < MaxRetries
  <2>1. tick[t] \in WorkTick BY <1>4, TickStage DEF Failed, TickFail
  <2>2. NewRetryCount(t) \in Nat
    BY <1>4, <2>1 DEF NewRetryCount, WorkTick, Failed
  <2>3. /\ store'[e].status = NewStatus(NewRetryCount(t))
        /\ store'[e].retryCount = NewRetryCount(t)
    BY <1>4, <1>r DEF Failed, Row
  <2> QED BY <1>m, <2>2, <2>3 DEF NewStatus
<1>5. CASE InsertPending(e) BY <1>5, <1>r, <1>m DEF InsertPending, Insert
<1>6. CASE Requeue(e)
  <2>1. store'[e] = [store[e] EXCEPT !.status = "PENDING", !.retryCount = 0]
    BY <1>6, <1>r DEF Requeue
  <2> QED BY <1>r, <1>m, <2>1 DEF Row
<1> QED BY <1>1, <1>2, <1>3, <1>4, <1>5, <1>6, RowMoves

\* No row over the retry limit ever waits, so the filter behind the window
\* drops nothing and no row holds a place in the window for ever.
THEOREM WindowNotBlocked == Spec => []WaitingIsEligible
<1>1. Init => WaitingIsEligible BY DEF Init, WaitingIsEligible, Waiting, NoRow
<1> QED BY <1>1, TypeInit, TypeNext, EligibleNext, PTL DEF Spec

-----------------------------------------------------------------------------
(***************************************************************************)
(* EventBus implements EventDelivery when ticks do not overlap and nobody  *)
(* presses retry, for every number of events and handlers, with crashes    *)
(* and failing database updates.                                           *)
(***************************************************************************)

NoOverlap == \A t, u \in Ticks : t = u

\* A row that may still be tried has tries left, and no row has none to count.
TriesLeft ==
  \A e \in Events :
    /\ store[e].status \in {"PENDING", "FAILED", "PROCESSING"} =>
         store[e].retryCount < MaxRetries
    /\ store[e].status = "ABSENT" => store[e].retryCount = 0

\* What the tick read of row e is still true.
Fresh(t, e) == tick[t].retry[e] = store[e].retryCount

\* The rows of a batch belong to the tick: nobody else writes them.
BatchIsFresh ==
  \A t \in Ticks :
    /\ tick[t].stage \in {"handlers", "fail"} =>
         /\ tick[t].event \in tick[t].batch
         /\ store[tick[t].event].status = "PROCESSING"
    /\ tick[t].stage # "idle" =>
         \A e \in tick[t].batch :
           /\ Fresh(t, e)
           /\ e # tick[t].event => store[e].status \in {"PENDING", "FAILED"}

RefInv == TypeOK /\ TriesLeft /\ BatchIsFresh

LEMMA RefInit == Init => RefInv
  BY TypeInit, BusConstants
  DEF Init, RefInv, TriesLeft, BatchIsFresh, NoRow, NoTick

\* Without manual retries, RowMoves leaves the insert and the tick.
LEMMA NoRequeue ==
  ASSUME MaxRequeues = 0, TypeOK, NEW e \in Events
  PROVE  ~Requeue(e)
  BY DEF Requeue, TypeOK

LEMMA TriesNext ==
  ASSUME NoOverlap, MaxRequeues = 0, RefInv, [Next]_vars
  PROVE  TriesLeft'
<1> SUFFICES ASSUME NEW e \in Events
             PROVE  /\ store'[e].status \in {"PENDING", "FAILED", "PROCESSING"}
                         => store'[e].retryCount < MaxRetries
                    /\ store'[e].status = "ABSENT" => store'[e].retryCount = 0
  BY DEF TriesLeft
<1>0. TypeOK BY DEF RefInv
<1>r. store[e] \in Row BY <1>0 DEF TypeOK
<1>m. MaxRetries \in Nat \ {0} BY BusConstants
<1>1. CASE store'[e] = store[e] BY <1>1 DEF RefInv, TriesLeft
<1>2. ASSUME NEW p \in Publishers, Saved(e, p)
      PROVE  store'[e].status # "ABSENT" /\ store'[e].retryCount < MaxRetries
  BY <1>2, <1>m DEF Saved, StatusFor
<1>3. ASSUME NEW t \in Ticks, Picked(e, t)
      PROVE  store'[e].status # "ABSENT" /\ store'[e].retryCount < MaxRetries
  <2>1. tick[t] \in PickTick
    BY <1>0, <1>3, TickStage DEF Picked, TickPick
  <2>2. store[e].status \in {"PENDING", "FAILED"}
    <3>1. tick[t].stage = "pick" /\ tick[t].event # e
      BY <2>1, BusConstants DEF PickTick
    <3> QED BY <1>3, <3>1 DEF Picked, RefInv, BatchIsFresh
  <2> QED BY <1>3, <1>r, <2>2 DEF Picked, RefInv, TriesLeft, Row
<1>4. ASSUME NEW t \in Ticks, Completed(e, t)
      PROVE  store'[e].status = "COMPLETED"
  BY <1>4, <1>r DEF Completed, Row
<1>5. ASSUME NEW t \in Ticks, Failed(e, t)
      PROVE  \/ store'[e].status = "DEAD_LETTER"
             \/ /\ store'[e].status # "ABSENT"
                /\ store'[e].retryCount < MaxRetries
  <2>1. tick[t] \in WorkTick BY <1>0, <1>5, TickStage DEF Failed, TickFail
  <2>2. NewRetryCount(t) \in Nat
    BY <1>5, <2>1 DEF NewRetryCount, WorkTick, Failed
  <2>3. /\ store'[e].status = NewStatus(NewRetryCount(t))
        /\ store'[e].retryCount = NewRetryCount(t)
    BY <1>5, <1>r DEF Failed, Row
  <2> QED BY <1>m, <2>2, <2>3 DEF NewStatus
<1>6. CASE InsertPending(e)
  BY <1>0, <1>6, <1>m DEF InsertPending, Insert, TypeOK
<1> QED BY <1>0, <1>1, <1>2, <1>3, <1>4, <1>5, <1>6, RowMoves, NoRequeue

\* Only the tick itself writes the rows of its batch.
LEMMA BatchUntouched ==
  ASSUME NoOverlap, MaxRequeues = 0, RefInv, [Next]_vars,
         NEW t \in Ticks, tick[t].stage # "idle", NEW e \in tick[t].batch,
         e \in Events, store'[e] # store[e]
  PROVE  Picked(e, t) \/ Completed(e, t) \/ Failed(e, t)
<1>0. TypeOK BY DEF RefInv
<1>1. store[e].status # "ABSENT"
  <2>1. tick \in [Ticks -> PickTick \cup WorkTick \cup {NoTick}]
    BY <1>0 DEF TypeOK
  <2>2. \/ tick[t].event # e
        \/ tick[t].event = e /\ tick[t].stage \in {"handlers", "fail"}
    BY <2>1, BusConstants DEF PickTick, WorkTick, NoTick
  <2> QED BY <2>2 DEF RefInv, BatchIsFresh
<1>2. ~InsertPending(e) BY <1>1 DEF InsertPending
<1>3. ASSUME NEW p \in Publishers PROVE ~Saved(e, p) BY <1>1 DEF Saved
<1>4. \A u \in Ticks : u = t BY DEF NoOverlap
<1> QED BY <1>0, <1>2, <1>3, <1>4, RowMoves, NoRequeue

LEMMA BatchNext ==
  ASSUME NoOverlap, MaxRequeues = 0, RefInv, [Next]_vars
  PROVE  BatchIsFresh'
<1> DEFINE Good(t) ==
      /\ tick[t].stage \in {"handlers", "fail"} =>
           /\ tick[t].event \in tick[t].batch
           /\ store[tick[t].event].status = "PROCESSING"
      /\ tick[t].stage # "idle" =>
           \A e \in tick[t].batch :
             /\ Fresh(t, e)
             /\ e # tick[t].event => store[e].status \in {"PENDING", "FAILED"}
<1> SUFFICES ASSUME NEW t \in Ticks PROVE Good(t)'
  BY DEF BatchIsFresh
<1>0. TypeOK /\ Good(t) BY DEF RefInv, BatchIsFresh
<1>f. /\ tick \in [Ticks -> PickTick \cup WorkTick \cup {NoTick}]
      /\ store \in [Events -> Row]
  BY <1>0 DEF TypeOK
<1>b. tick[t].batch \subseteq Events
  BY <1>f DEF PickTick, WorkTick, NoTick
<1>1. CASE tick'[t] = tick[t]
  <2>1. CASE tick[t].stage = "idle" BY <1>1, <2>1
  <2>2. CASE tick[t].stage # "idle"
    <3>1. ASSUME NEW e \in tick[t].batch PROVE store'[e] = store[e]
      <4>1. SUFFICES ASSUME Picked(e, t) \/ Completed(e, t) \/ Failed(e, t)
                     PROVE  FALSE
        BY <1>b, <2>2, BatchUntouched
      <4>2. Remaining(t, e).stage \notin {"handlers", "fail"}
        BY DEF Remaining, NoTick
      <4> QED
        BY <1>1, <4>1, <4>2
        DEF Picked, Completed, Failed, TickPick, TickComplete, TickFail
    <3> QED BY <1>0, <1>1, <3>1 DEF Fresh
  <2> QED BY <2>1, <2>2
<1>2. CASE TickStart(t)
  <2>1. /\ store' = store
        /\ tick'[t] = [stage |-> "pick", event |-> NoEvent, next |-> 1,
             batch |-> Eligible,
             retry |-> [e \in Events |->
                          IF e \in Eligible THEN store[e].retryCount ELSE 0]]
    BY <1>2, <1>f DEF TickStart
  <2>2. \A e \in Eligible : e \in Events /\ store[e].status \in {"PENDING", "FAILED"}
    BY DEF Eligible, Window, Waiting
  <2> QED BY <2>1, <2>2 DEF Fresh
<1>3. CASE TickPick(t)
  <2>1. tick[t] \in PickTick BY <1>0, <1>3, TickStage DEF TickPick
  <2>2. CASE tick'[t] = NoTick BY <2>2 DEF NoTick
  <2>3. CASE tick'[t] # NoTick
    <3>1. PICK e \in tick[t].batch :
            /\ store' = [store EXCEPT ![e].status = "PROCESSING"]
            /\ tick' = [tick EXCEPT ![t] =
                  [stage |-> "handlers", event |-> e, next |-> 1,
                   batch |-> tick[t].batch, retry |-> tick[t].retry]]
      BY <1>3, <1>f, <2>3 DEF TickPick
    <3>2. \A f \in tick[t].batch :
            /\ f \in Events /\ f # tick[t].event
            /\ Fresh(t, f) /\ store[f].status \in {"PENDING", "FAILED"}
      BY <1>0, <1>b, <2>1, BusConstants DEF PickTick
    <3>3. /\ store'[e].status = "PROCESSING"
          /\ \A f \in Events : store'[f].retryCount = store[f].retryCount
          /\ \A f \in Events : f # e => store'[f] = store[f]
      BY <1>b, <1>f, <3>1 DEF Row
    <3>4. /\ tick'[t].event = e /\ tick'[t].batch = tick[t].batch
          /\ tick'[t].retry = tick[t].retry
      BY <1>f, <3>1
    <3> QED BY <3>2, <3>3, <3>4 DEF Fresh
  <2> QED BY <2>2, <2>3
<1>4. CASE TickHandle(t)
  <2>1. tick[t] \in WorkTick BY <1>0, <1>4, TickStage DEF TickHandle
  <2>2. /\ store' = store
        /\ \/ tick'[t] = [tick[t] EXCEPT !.next = @ + 1]
           \/ tick'[t] = [tick[t] EXCEPT !.stage = "fail"]
    BY <1>4, <1>f DEF TickHandle
  <2>3. /\ tick'[t].event = tick[t].event
        /\ tick'[t].batch = tick[t].batch /\ tick'[t].retry = tick[t].retry
        /\ tick[t].stage = "handlers"
    BY <1>4, <2>1, <2>2 DEF WorkTick, TickHandle
  <2> QED BY <1>0, <2>2, <2>3 DEF Fresh
<1>5. CASE TickComplete(t) \/ TickFail(t)
  <2>1. tick[t] \in WorkTick
    BY <1>0, <1>5, TickStage DEF TickComplete, TickFail
  <2>2. tick[t].event \in Events BY <2>1 DEF WorkTick
  <2>3. \/ tick'[t] = NoTick
        \/ store' = store /\ tick'[t] = [tick[t] EXCEPT !.stage = "fail"]
        \/ tick'[t] = Remaining(t, tick[t].event)
    BY <1>5, <1>f DEF TickComplete, TickFail
  <2>4. \A f \in Events : f # tick[t].event => store'[f] = store[f]
    <3>1. CASE TickComplete(t)
      <4>1. \/ store' = store
            \/ store' = [store EXCEPT ![tick[t].event].status = "COMPLETED"]
        BY <3>1 DEF TickComplete
      <4> QED BY <1>f, <4>1
    <3>2. CASE TickFail(t) BY <1>f, <3>2 DEF TickFail
    <3> QED BY <1>5, <3>1, <3>2
  <2>5. CASE tick'[t] = NoTick BY <2>5 DEF NoTick
  <2>6. CASE store' = store /\ tick'[t] = [tick[t] EXCEPT !.stage = "fail"]
    <3>1. /\ tick'[t].event = tick[t].event
          /\ tick'[t].batch = tick[t].batch /\ tick'[t].retry = tick[t].retry
          /\ tick[t].stage \in {"handlers", "fail"}
      BY <2>1, <2>6 DEF WorkTick
    <3> QED BY <1>0, <2>6, <3>1 DEF Fresh
  <2>7. CASE tick'[t] = Remaining(t, tick[t].event) /\ tick'[t] # NoTick
    <3>1. /\ tick'[t].stage = "pick"
          /\ tick'[t].batch = tick[t].batch \ {tick[t].event}
          /\ tick'[t].retry = [tick[t].retry EXCEPT ![tick[t].event] = 0]
      BY <2>7 DEF Remaining
    <3>2. \A f \in tick'[t].batch :
            /\ f \in Events /\ f # tick[t].event /\ f \in tick[t].batch
            /\ tick'[t].retry[f] = tick[t].retry[f]
      BY <1>b, <2>1, <2>2, <3>1 DEF WorkTick
    <3>3. tick[t].stage # "idle" BY <2>1 DEF WorkTick
    <3> QED BY <1>0, <2>4, <3>1, <3>2, <3>3 DEF Fresh
  <2> QED BY <2>3, <2>5, <2>6, <2>7
<1>6. CASE Crash BY <1>6, <1>f DEF Crash, NoTick
<1> QED BY <1>0, <1>1, <1>2, <1>3, <1>4, <1>5, <1>6, TickMoves

LEMMA RefNext ==
  ASSUME NoOverlap, MaxRequeues = 0, RefInv, [Next]_vars
  PROVE  RefInv'
  BY TypeNext, TriesNext, BatchNext DEF RefInv

\* A step writes one row at most.
LEMMA OneRow ==
  ASSUME TypeOK, [Next]_vars, NEW e \in Events, store'[e] # store[e]
  PROVE  \A f \in Events : f # e => store'[f] = store[f]
<1>s. store \in [Events -> Row] BY DEF TypeOK
<1> SUFFICES \E g, r : store' = [store EXCEPT ![g] = r]
  BY <1>s
<1>1. ASSUME NEW p \in Publishers, PublishSave(p)
      PROVE  \E g, r : store' = [store EXCEPT ![g] = r]
  BY <1>1 DEF PublishSave, Insert
<1>2. ASSUME NEW t \in Ticks, TickPick(t)
      PROVE  \E g, r : store' = [store EXCEPT ![g] = r]
  <2>1. PICK g : store' = [store EXCEPT ![g] =
                             [store[g] EXCEPT !.status = "PROCESSING"]]
    BY <1>2 DEF TickPick
  <2> QED BY <2>1
<1>3. ASSUME NEW t \in Ticks, TickComplete(t)
      PROVE  \E g, r : store' = [store EXCEPT ![g] = r]
  <2>1. store' = [store EXCEPT ![tick[t].event] =
                    [store[tick[t].event] EXCEPT !.status = "COMPLETED"]]
    BY <1>3 DEF TickComplete
  <2> QED BY <2>1
<1>4. ASSUME NEW t \in Ticks, TickFail(t)
      PROVE  \E g, r : store' = [store EXCEPT ![g] = r]
  BY <1>4 DEF TickFail
<1>5. ASSUME NEW g \in Events, InsertPending(g) \/ Requeue(g)
      PROVE  \E h, r : store' = [store EXCEPT ![h] = r]
  BY <1>5 DEF InsertPending, Insert, Requeue
<1> QED
  BY <1>1, <1>2, <1>3, <1>4, <1>5
  DEF Next, Publish, TickStep, TickEmpty, vars, PublishStart, PublishHandle,
      PublishMark, TickStart, TickHandle, Crash

\* What the abstract table sees of a step that writes row e
LEMMA AbstractRow ==
  ASSUME TypeOK, [Next]_vars, NEW e \in Events, store'[e] # store[e]
  PROVE  /\ [f \in Events |-> OutcomeOf(store'[f].status)] =
              [[f \in Events |-> OutcomeOf(store[f].status)]
                 EXCEPT ![e] = OutcomeOf(store'[e].status)]
         /\ [f \in Events |-> store'[f].retryCount] =
              [[f \in Events |-> store[f].retryCount]
                 EXCEPT ![e] = store'[e].retryCount]
<1>1. \A f \in Events : f # e => store'[f] = store[f] BY OneRow
<1> QED BY <1>1

LEMMA StepRefines ==
  ASSUME NoOverlap, MaxRequeues = 0, RefInv, [Next]_vars
  PROVE  [Delivery!Next]_
           <<[f \in Events |-> OutcomeOf(store[f].status)],
             [f \in Events |-> store[f].retryCount]>>
<1> DEFINE outcome == [f \in Events |-> OutcomeOf(store[f].status)]
           tries == [f \in Events |-> store[f].retryCount]
<1>0. TypeOK BY DEF RefInv
<1>m. MaxRetries \in Nat \ {0} BY BusConstants
<1>1. CASE store' = store BY <1>1
<1>2. CASE store' # store
  <2>1. PICK e \in Events : store'[e] # store[e]
    <3>1. TypeOK' BY <1>0, TypeNext
    <3> QED BY <1>0, <1>2, <3>1 DEF TypeOK
  <2>r. store[e] \in Row BY <1>0 DEF TypeOK
  <2>2. /\ outcome' = [outcome EXCEPT ![e] = OutcomeOf(store'[e].status)]
        /\ tries' = [tries EXCEPT ![e] = store'[e].retryCount]
    BY <1>0, <2>1, AbstractRow
  <2>t. /\ outcome[e] = OutcomeOf(store[e].status)
        /\ tries[e] = store[e].retryCount
        /\ store[e].retryCount = store'[e].retryCount => tries' = tries
        /\ OutcomeOf(store[e].status) = OutcomeOf(store'[e].status)
             => outcome' = outcome
    BY <2>2
  <2> HIDE DEF outcome, tries
  <2>3. ASSUME NEW p \in Publishers, Saved(e, p) PROVE Delivery!Accept(e)
    <3>1. /\ OutcomeOf(store[e].status) = "none"
          /\ OutcomeOf(store'[e].status) \in {"delivered", "waiting"}
          /\ store'[e].retryCount = 0 /\ store[e].retryCount = 0
      BY <2>3 DEF Saved, StatusFor, OutcomeOf, RefInv, TriesLeft
    <3> QED BY <2>2, <2>t, <3>1 DEF Delivery!Accept, outcome, tries
  <2>4. ASSUME NEW t \in Ticks, Picked(e, t)
        PROVE  outcome' = outcome /\ tries' = tries
    <3>1. tick[t] \in PickTick
      BY <1>0, <2>4, TickStage DEF Picked, TickPick
    <3>2. tick[t].stage = "pick" /\ tick[t].event # e
      BY <3>1, BusConstants DEF PickTick
    <3>3. store[e].status \in {"PENDING", "FAILED"}
      BY <2>4, <3>2 DEF Picked, RefInv, BatchIsFresh
    <3>4. /\ store'[e].status = "PROCESSING"
          /\ store'[e].retryCount = store[e].retryCount
      BY <2>4, <2>r DEF Picked, Row
    <3> QED BY <2>t, <3>3, <3>4 DEF OutcomeOf
  <2>5. ASSUME NEW t \in Ticks, Completed(e, t) PROVE Delivery!Deliver(e)
    <3>1. store[e].status = "PROCESSING"
      BY <2>5 DEF Completed, TickComplete, RefInv, BatchIsFresh
    <3>2. /\ store'[e].status = "COMPLETED"
          /\ store'[e].retryCount = store[e].retryCount
      BY <2>5, <2>r DEF Completed, Row
    <3>3. /\ OutcomeOf(store[e].status) = "waiting"
          /\ OutcomeOf(store'[e].status) = "delivered"
      BY <3>1, <3>2 DEF OutcomeOf
    <3> QED BY <2>2, <2>t, <3>2, <3>3 DEF Delivery!Deliver, outcome, tries
  <2>6. ASSUME NEW t \in Ticks, Failed(e, t) PROVE Delivery!FailTry(e)
    <3>1. tick[t] \in WorkTick BY <1>0, <2>6, TickStage DEF Failed, TickFail
    <3>2. /\ tick[t].event = e /\ e \in tick[t].batch
          /\ tick[t].stage = "fail" /\ store[e].status = "PROCESSING"
      BY <2>6 DEF Failed, TickFail, RefInv, BatchIsFresh
    <3>3. tick[t].retry[e] = store[e].retryCount
      BY <3>2 DEF RefInv, BatchIsFresh, Fresh
    <3>4. store[e].retryCount < MaxRetries
      BY <3>2 DEF RefInv, TriesLeft
    <3>5. store[e].retryCount \in Nat BY <2>r DEF Row
    <3>6. NewRetryCount(t) = store[e].retryCount + 1
      BY <3>2, <3>3 DEF NewRetryCount
    <3>7. /\ store'[e].status = NewStatus(NewRetryCount(t))
          /\ store'[e].retryCount = NewRetryCount(t)
      BY <2>6, <2>r DEF Failed, Row
    <3>8. OutcomeOf(store'[e].status) =
            IF store'[e].retryCount = MaxRetries THEN "dead" ELSE "waiting"
      BY <1>m, <3>4, <3>5, <3>6, <3>7 DEF NewStatus, OutcomeOf
    <3>9. OutcomeOf(store[e].status) = "waiting" BY <3>2 DEF OutcomeOf
    <3>10. tries'[e] = store'[e].retryCount BY DEF tries
    <3>11. tries' = [tries EXCEPT ![e] = tries[e] + 1]
      BY <2>2, <2>t, <3>6, <3>7
    <3> QED
      BY <2>2, <2>t, <3>4, <3>8, <3>9, <3>10, <3>11
      DEF Delivery!FailTry, outcome, tries
  <2>7. CASE InsertPending(e)
    <3>1. store[e].status = "ABSENT" /\ store'[e].status = "PENDING"
          /\ store'[e].retryCount = 0
      BY <1>0, <2>7 DEF InsertPending, Insert, TypeOK
    <3>2. store[e].retryCount = 0 BY <3>1 DEF RefInv, TriesLeft
    <3>3. /\ OutcomeOf(store[e].status) = "none"
          /\ OutcomeOf(store'[e].status) = "waiting"
      BY <3>1 DEF OutcomeOf
    <3>4. Delivery!Accept(e)
      BY <2>2, <2>t, <3>1, <3>2, <3>3 DEF Delivery!Accept, outcome, tries
    <3> QED BY <3>4 DEF Delivery!Next, outcome, tries
  <2> QED
    BY <1>0, <2>1, <2>3, <2>4, <2>5, <2>6, <2>7, RowMoves, NoRequeue
    DEF Delivery!Next, outcome, tries
<1> QED BY <1>1, <1>2

LEMMA InitRefines == Init => Delivery!Init
  BY DEF Init, Delivery!Init, NoRow, OutcomeOf

\* The event store keeps the promise of EventDelivery as long as ticks do not
\* overlap and nobody presses retry: tries are counted one by one, the last
\* one allowed makes the dead letter, and no outcome is ever undone, whatever
\* crashes and database faults there are.
THEOREM BusImplementsDelivery ==
  ASSUME NoOverlap, MaxRequeues = 0
  PROVE  Spec => DeliverySpec
<1>1. Init => RefInv BY RefInit
<1>2. RefInv /\ [Next]_vars => RefInv' BY RefNext
<1>3. RefInv /\ [Next]_vars =>
        [Delivery!Next]_<<[e \in Events |-> OutcomeOf(store[e].status)],
                          [e \in Events |-> store[e].retryCount]>>
  BY StepRefines
<1>4. Spec => []RefInv BY <1>1, <1>2, PTL DEF Spec
<1>5. Spec =>
        [][Delivery!Next]_<<[e \in Events |-> OutcomeOf(store[e].status)],
                            [e \in Events |-> store[e].retryCount]>>
  BY <1>3, <1>4, PTL DEF Spec
<1>6. Spec => Delivery!Init BY InitRefines, PTL DEF Spec
<1>7. Spec => Delivery!Spec BY <1>5, <1>6, PTL DEF Delivery!Spec
<1> QED BY <1>7 DEF DeliverySpec

(***************************************************************************)
(* The count of the tries.  attempts counts the failures of the poller,    *)
(* retryCount what the table says of them; the two agree as long as every  *)
(* update reaches the table and nobody presses retry.                      *)
(***************************************************************************)
TriesCounted ==
  \A e \in Events :
    /\ attempts[e] = store[e].retryCount
    /\ store[e].retryCount <= MaxRetries
    /\ store[e].status = "DEAD_LETTER" => store[e].retryCount = MaxRetries

\* A failed try is counted, and in the table too.
LEMMA TryIsCounted ==
  ASSUME TypeOK, [Next]_vars, MaxRequeues = 0, "db" \notin Faults, NEW e \in Events
  PROVE  \/ /\ attempts'[e] = attempts[e]
            /\ \A t \in Ticks : ~Failed(e, t)
         \/ /\ attempts'[e] = attempts[e] + 1
            /\ \E t \in Ticks : Failed(e, t)
<1>1. ASSUME NEW t \in Ticks, TickFail(t)
      PROVE  \/ /\ attempts'[e] = attempts[e]
                /\ \A u \in Ticks : ~Failed(e, u)
             \/ attempts'[e] = attempts[e] + 1 /\ Failed(e, t)
  <2>1. tick[t] \in WorkTick /\ tick[t].event \in Events
    BY <1>1, TickStage DEF TickFail, WorkTick
  <2>2. /\ store' = [store EXCEPT ![tick[t].event] =
                       [@ EXCEPT !.status = NewStatus(NewRetryCount(t)),
                                 !.retryCount = NewRetryCount(t)]]
        /\ tick' = [tick EXCEPT ![t] = Remaining(t, tick[t].event)]
        /\ attempts' = [attempts EXCEPT ![tick[t].event] = @ + 1]
    BY <1>1 DEF TickFail
  <2>3. CASE tick[t].event = e
    BY <1>1, <2>1, <2>2, <2>3 DEF Failed, TypeOK
  <2>4. CASE tick[t].event # e
    <3>1. attempts'[e] = attempts[e]
      BY <2>1, <2>2, <2>4 DEF TypeOK
    <3>2. ASSUME NEW u \in Ticks, Failed(e, u) PROVE FALSE
      <4>1. attempts' = [attempts EXCEPT ![e] = @ + 1]
        BY <3>2 DEF Failed, TickFail
      <4> QED
        BY <3>1, <4>1 DEF TypeOK
    <3> QED
      BY <3>1, <3>2
  <2> QED
    BY <2>3, <2>4
<1>2. ASSUME \A t \in Ticks : ~TickFail(t)
      PROVE  attempts' = attempts
  BY <1>2, NoRequeue
  DEF Next, Publish, TickStep, TickEmpty, vars, PublishStart, PublishHandle, PublishSave,
      PublishMark, TickStart, TickPick, TickHandle, TickComplete, InsertPending, Crash
<1> QED
  BY <1>1, <1>2 DEF Failed

LEMMA TriesCountedNext ==
  ASSUME NoOverlap, MaxRequeues = 0, "db" \notin Faults, RefInv, TriesCounted,
         [Next]_vars
  PROVE  TriesCounted'
<1> SUFFICES ASSUME NEW e \in Events
             PROVE  /\ attempts'[e] = store'[e].retryCount
                    /\ store'[e].retryCount <= MaxRetries
                    /\ store'[e].status = "DEAD_LETTER"
                         => store'[e].retryCount = MaxRetries
  BY DEF TriesCounted
<1>0. TypeOK
  BY DEF RefInv
<1>r. store[e] \in Row /\ attempts[e] \in Nat
  BY <1>0 DEF TypeOK
<1>m. MaxRetries \in Nat \ {0}
  BY BusConstants
<1>1. ASSUME NEW t \in Ticks, Failed(e, t)
      PROVE  /\ store'[e].retryCount = store[e].retryCount + 1
             /\ store'[e].retryCount <= MaxRetries
             /\ store'[e].status = "DEAD_LETTER" => store'[e].retryCount = MaxRetries
  <2>1. /\ tick[t].event = e /\ e \in tick[t].batch
        /\ tick[t].stage = "fail" /\ store[e].status = "PROCESSING"
    BY <1>1 DEF Failed, TickFail, RefInv, BatchIsFresh
  <2>2. tick[t].retry[e] = store[e].retryCount
    BY <2>1 DEF RefInv, BatchIsFresh, Fresh
  <2>3. store[e].retryCount < MaxRetries
    BY <2>1 DEF RefInv, TriesLeft
  <2>4. NewRetryCount(t) = store[e].retryCount + 1
    BY <2>1, <2>2 DEF NewRetryCount
  <2>5. /\ store'[e].status = NewStatus(NewRetryCount(t))
        /\ store'[e].retryCount = NewRetryCount(t)
    BY <1>1, <1>r DEF Failed, Row
  <2> QED
    BY <1>m, <1>r, <2>3, <2>4, <2>5 DEF NewStatus, Row
<1>2. ASSUME \A t \in Ticks : ~Failed(e, t)
      PROVE  /\ store'[e].retryCount = store[e].retryCount
             /\ store'[e].status = "DEAD_LETTER" => store[e].status = "DEAD_LETTER"
  <2>1. ASSUME NEW p \in Publishers, Saved(e, p)
        PROVE  store'[e].retryCount = store[e].retryCount
               /\ store'[e].status # "DEAD_LETTER"
    BY <2>1 DEF Saved, StatusFor, RefInv, TriesLeft
  <2>2. ASSUME NEW t \in Ticks, Picked(e, t) \/ Completed(e, t)
        PROVE  store'[e].retryCount = store[e].retryCount
               /\ store'[e].status # "DEAD_LETTER"
    BY <1>r, <2>2 DEF Picked, Completed, Row
  <2>3. CASE InsertPending(e)
    BY <1>0, <2>3 DEF InsertPending, Insert, TypeOK, RefInv, TriesLeft
  <2> QED
    BY <1>0, <1>2, <2>1, <2>2, <2>3, RowMoves, NoRequeue
<1> QED
  BY <1>0, <1>1, <1>2, <1>r, TryIsCounted DEF TriesCounted

(***************************************************************************)
(* A row is given up after MaxRetries failed tries, neither earlier nor    *)
(* later, for any number of events and subscribers and whatever crashes,   *)
(* as long as ticks do not overlap, updates reach the table and nobody     *)
(* presses retry.  Each of the three would let the counts go apart.        *)
(***************************************************************************)
THEOREM GivenUpAfterMaxRetries ==
  ASSUME NoOverlap, MaxRequeues = 0, "db" \notin Faults
  PROVE  Spec => []GivenUpInTime
<1>1. Init => RefInv /\ TriesCounted
  BY RefInit, BusConstants DEF Init, TriesCounted, NoRow
<1>2. RefInv /\ TriesCounted /\ [Next]_vars => RefInv' /\ TriesCounted'
  BY RefNext, TriesCountedNext
<1>3. TriesCounted => GivenUpInTime
  BY DEF TriesCounted, GivenUpInTime
<1> QED
  BY <1>1, <1>2, <1>3, PTL DEF Spec

(***************************************************************************)
(* What a tick has read                                                    *)
(***************************************************************************)
EventIsOfBatch ==
  \A t \in Ticks :
    tick[t].stage \in {"handlers", "fail"} => tick[t].event \in tick[t].batch

\* A batch is what the tick read, less what it has done with.
LEMMA BatchShrinks ==
  ASSUME TypeOK, EventIsOfBatch, [Next]_vars, NEW t \in Ticks, tick'[t].stage # "idle"
  PROVE  /\ \/ tick[t].stage # "idle" /\ tick'[t].batch \subseteq tick[t].batch
            \/ store' = store /\ tick'[t].batch = Eligible
         /\ tick'[t].stage \in {"handlers", "fail"} => tick'[t].event \in tick'[t].batch
         /\ \A e \in Events : Completed(e, t) \/ Failed(e, t) => e \notin tick'[t].batch
<1>f. tick \in [Ticks -> PickTick \cup WorkTick \cup {NoTick}]
  BY DEF TypeOK
<1>1. ASSUME NEW e \in Events, Completed(e, t) \/ Failed(e, t)
      PROVE  e \notin tick'[t].batch
  <2>1. tick'[t] = Remaining(t, e)
    BY <1>1 DEF Completed, Failed
  <2> QED
    BY <2>1 DEF Remaining, NoTick
<1>2. CASE tick'[t] = tick[t]
  BY <1>1, <1>2 DEF EventIsOfBatch
<1>3. CASE TickStart(t)
  <2>1. /\ store' = store /\ tick'[t].stage = "pick" /\ tick'[t].batch = Eligible
    BY <1>3, <1>f DEF TickStart
  <2> QED
    BY <1>1, <2>1
<1>4. CASE TickPick(t)
  <2>1. tick'[t] # NoTick
    BY DEF NoTick
  <2>2. PICK e \in tick[t].batch :
          tick' = [tick EXCEPT ![t] =
                     [stage |-> "handlers", event |-> e, next |-> 1,
                      batch |-> tick[t].batch, retry |-> tick[t].retry]]
    BY <1>4, <1>f, <2>1 DEF TickPick
  <2>3. tick'[t].event = e /\ tick'[t].batch = tick[t].batch
    BY <1>f, <2>2
  <2> QED
    BY <1>1, <1>4, <2>3 DEF TickPick
<1>5. CASE TickHandle(t) \/ TickComplete(t) \/ TickFail(t)
  <2>1. tick[t] \in WorkTick /\ tick[t].stage \in {"handlers", "fail"}
    BY <1>5, TickStage DEF TickHandle, TickComplete, TickFail
  <2>2. \/ tick'[t] = [tick[t] EXCEPT !.next = @ + 1]
        \/ tick'[t] = [tick[t] EXCEPT !.stage = "fail"]
        \/ tick'[t] = Remaining(t, tick[t].event)
        \/ tick'[t] = NoTick
    BY <1>5, <1>f DEF TickHandle, TickComplete, TickFail
  <2>3. CASE tick'[t] = Remaining(t, tick[t].event)
    <3>1. tick'[t].stage = "pick" /\ tick'[t].batch = tick[t].batch \ {tick[t].event}
      BY <2>3 DEF Remaining, NoTick
    <3> QED
      BY <1>1, <2>1, <3>1
  <2>4. CASE \/ tick'[t] = [tick[t] EXCEPT !.next = @ + 1]
             \/ tick'[t] = [tick[t] EXCEPT !.stage = "fail"]
    <3>1. tick'[t].batch = tick[t].batch /\ tick'[t].event = tick[t].event
      BY <2>1, <2>4 DEF WorkTick
    <3> QED
      BY <1>1, <2>1, <3>1 DEF EventIsOfBatch
  <2> QED
    BY <2>2, <2>3, <2>4 DEF NoTick
<1>6. ~Crash
  BY DEF Crash, NoTick
<1> QED
  BY <1>2, <1>3, <1>4, <1>5, <1>6, TickMoves

(***************************************************************************)
(* The outcome of an event                                                 *)
(***************************************************************************)
\* Only rows without an outcome are in the batch of a tick.
BatchIsOpen ==
  \A t \in Ticks : tick[t].stage # "idle" =>
    \A e \in tick[t].batch : store[e].status \in {"PENDING", "FAILED", "PROCESSING"}

LEMMA BatchOfEvents ==
  ASSUME TypeOK, NEW t \in Ticks
  PROVE  tick[t].batch \subseteq Events
<1>1. tick[t] \in PickTick \cup WorkTick \cup {NoTick}
  BY DEF TypeOK
<1>2. tick[t] \in PickTick => tick[t].batch \subseteq Events
  BY DEF PickTick
<1>3. tick[t] \in WorkTick => tick[t].batch \subseteq Events
  BY DEF WorkTick
<1>4. NoTick.batch = {}
  BY DEF NoTick
<1> QED
  BY <1>1, <1>2, <1>3, <1>4

LEMMA OpenNext ==
  ASSUME NoOverlap, TypeOK, EventIsOfBatch, BatchIsOpen, [Next]_vars
  PROVE  EventIsOfBatch' /\ BatchIsOpen'
<1>1. EventIsOfBatch'
  BY BatchShrinks DEF EventIsOfBatch
<1>2. BatchIsOpen'
  <2> SUFFICES ASSUME NEW t \in Ticks, tick'[t].stage # "idle", NEW e \in tick'[t].batch
               PROVE  store'[e].status \in {"PENDING", "FAILED", "PROCESSING"}
    BY DEF BatchIsOpen
  <2>1. CASE store' = store /\ tick'[t].batch = Eligible
    BY <2>1 DEF Eligible, Window, Waiting
  <2>2. CASE tick[t].stage # "idle" /\ tick'[t].batch \subseteq tick[t].batch
    <3>a. tick[t].batch \subseteq Events
      BY BatchOfEvents
    <3>b. e \in Events
      BY <2>2, <3>a
    <3>1. e \in Events /\ store[e] \in Row
      BY <3>b DEF TypeOK
    <3>2. store[e].status \in {"PENDING", "FAILED", "PROCESSING"}
      BY <2>2 DEF BatchIsOpen
    <3>3. \A u \in Ticks : u = t
      BY DEF NoOverlap
    <3>4. \A u \in Ticks : ~Completed(e, u) /\ ~Failed(e, u)
      BY <3>1, <3>3, BatchShrinks
    <3>5. \A u \in Ticks : Picked(e, u) => store'[e].status = "PROCESSING"
      BY <3>1 DEF Picked, Row
    <3>6. Requeue(e) => store'[e].status = "PENDING"
      BY <3>1 DEF Requeue, TypeOK, Row
    <3> QED
      BY <3>1, <3>2, <3>4, <3>5, <3>6, RowMoves DEF Saved, InsertPending
  <2> QED
    BY <2>1, <2>2, BatchShrinks
<1> QED
  BY <1>1, <1>2

(***************************************************************************)
(* COMPLETED and DEAD_LETTER are final as long as ticks do not overlap:    *)
(* whatever crashes, whatever updates fail, and however often an event is  *)
(* published again, only a manual retry takes an outcome back.             *)
(***************************************************************************)
THEOREM OutcomesAreFinal ==
  ASSUME NoOverlap
  PROVE  Spec => OutcomeIsFinal
<1> DEFINE Final == \A e \in Events :
             store[e].status \in {"COMPLETED", "DEAD_LETTER"} =>
               \/ store'[e] = store[e]
               \/ requeued'[e] = requeued[e] + 1
<1>1. Init => TypeOK /\ EventIsOfBatch /\ BatchIsOpen
  BY TypeInit DEF Init, EventIsOfBatch, BatchIsOpen, NoTick
<1>2. TypeOK /\ EventIsOfBatch /\ BatchIsOpen /\ [Next]_vars
        => TypeOK' /\ EventIsOfBatch' /\ BatchIsOpen'
  BY TypeNext, OpenNext
<1>3. TypeOK /\ EventIsOfBatch /\ BatchIsOpen /\ [Next]_vars => [Final]_vars
  <2> SUFFICES ASSUME TypeOK, EventIsOfBatch, BatchIsOpen, [Next]_vars, NEW e \in Events,
                      store[e].status \in {"COMPLETED", "DEAD_LETTER"},
                      store'[e] # store[e]
               PROVE  requeued'[e] = requeued[e] + 1
    OBVIOUS
  <2>1. ASSUME NEW t \in Ticks, e \in tick[t].batch, tick[t].stage # "idle" PROVE FALSE
    BY <2>1 DEF BatchIsOpen
  <2>2. \A t \in Ticks : ~Picked(e, t)
    BY <2>1 DEF Picked, TickPick
  <2>3. \A t \in Ticks : ~Completed(e, t) /\ ~Failed(e, t)
    BY <2>1 DEF Completed, Failed, TickComplete, TickFail, EventIsOfBatch
  <2>4. Requeue(e)
    BY <2>2, <2>3, RowMoves DEF Saved, InsertPending
  <2> QED
    BY <2>4 DEF Requeue, TypeOK
<1> QED
  BY <1>1, <1>2, <1>3, PTL DEF Spec, OutcomeIsFinal

(***************************************************************************)
(* The record of what subscribers did                                      *)
(***************************************************************************)
BatchIsStored ==
  \A t \in Ticks : tick[t].stage # "idle" =>
    \A e \in tick[t].batch : store[e].status # "ABSENT"

\* Whoever has run a subscriber has not yet come to the insert, or has made it.
EffectsAreRecorded ==
  \A e \in Events : (\E h \in Handlers : ran[e][h] > 0) =>
    \/ store[e].status # "ABSENT"
    \/ \E p \in Publishers : pub[p].stage = "handlers" /\ pub[p].event = e

\* No step deletes a row.
LEMMA RowsStay ==
  ASSUME TypeOK, [Next]_vars, NEW e \in Events, store[e].status # "ABSENT"
  PROVE  store'[e].status # "ABSENT"
<1>r. store[e] \in Row
  BY DEF TypeOK
<1>1. ASSUME NEW t \in Ticks, Picked(e, t) \/ Completed(e, t)
      PROVE  store'[e].status # "ABSENT"
  BY <1>1, <1>r DEF Picked, Completed, Row
<1>2. ASSUME NEW t \in Ticks, Failed(e, t) PROVE store'[e].status # "ABSENT"
  <2>1. store'[e].status = NewStatus(NewRetryCount(t))
    BY <1>2, <1>r DEF Failed, Row
  <2> QED
    BY <2>1 DEF NewStatus
<1>3. Requeue(e) => store'[e].status # "ABSENT"
  BY <1>r DEF Requeue, TypeOK, Row
<1> QED
  BY <1>1, <1>2, <1>3, RowMoves DEF Saved, InsertPending

\* A subscriber runs for the event of a call of publish, or of a tick.
LEMMA RanMoves ==
  ASSUME TypeOK, [Next]_vars, NEW e \in Events, NEW h \in Handlers,
         ran'[e][h] # ran[e][h]
  PROVE  \/ \E p \in Publishers : PublishHandle(p) /\ pub[p].event = e
         \/ \E t \in Ticks : TickHandle(t) /\ tick[t].event = e
<1>1. ASSUME NEW f, NEW g, Succeeds(f, g) PROVE f = e
  BY <1>1 DEF Succeeds, TypeOK
<1>2. ran' # ran
  OBVIOUS
<1>3. \/ \E p \in Publishers : PublishHandle(p)
      \/ \E t \in Ticks : TickHandle(t)
  BY <1>2 DEF Next, Publish, TickStep, vars, PublishStart, PublishSave,
         PublishMark, TickStart, TickEmpty, TickPick, TickComplete, TickFail,
         InsertPending, Requeue, Crash
<1>4. ASSUME NEW p \in Publishers, PublishHandle(p) PROVE pub[p].event = e
  BY <1>1, <1>2, <1>4 DEF PublishHandle, Throws
<1>5. ASSUME NEW t \in Ticks, TickHandle(t) PROVE tick[t].event = e
  BY <1>1, <1>2, <1>5 DEF TickHandle, Throws
<1> QED
  BY <1>3, <1>4, <1>5

LEMMA RecordedNext ==
  ASSUME Faults = {}, TypeOK, EventIsOfBatch, BatchIsStored, EffectsAreRecorded,
         [Next]_vars
  PROVE  EventIsOfBatch' /\ BatchIsStored' /\ EffectsAreRecorded'
<1>1. EventIsOfBatch'
  BY BatchShrinks DEF EventIsOfBatch
<1>2. BatchIsStored'
  <2> SUFFICES ASSUME NEW t \in Ticks, tick'[t].stage # "idle", NEW e \in tick'[t].batch
               PROVE  store'[e].status # "ABSENT"
    BY DEF BatchIsStored
  <2>1. CASE store' = store /\ tick'[t].batch = Eligible
    BY <2>1 DEF Eligible, Window, Waiting
  <2>2. CASE tick[t].stage # "idle" /\ tick'[t].batch \subseteq tick[t].batch
    <3>a. tick[t].batch \subseteq Events
      BY BatchOfEvents
    <3>1. e \in Events
      BY <2>2, <3>a
    <3> QED
      BY <2>2, <3>1, RowsStay DEF BatchIsStored
  <2> QED
    BY <2>1, <2>2, BatchShrinks
<1>3. EffectsAreRecorded'
  <2> SUFFICES ASSUME NEW e \in Events, NEW h \in Handlers, ran'[e][h] > 0,
                      store'[e].status = "ABSENT"
               PROVE  \E p \in Publishers : pub'[p].stage = "handlers"
                                            /\ pub'[p].event = e
    BY DEF EffectsAreRecorded
  <2>0. store[e].status = "ABSENT"
    BY RowsStay
  <2>p. pub \in [Publishers -> BusyPub \cup {NoPub}]
    BY DEF TypeOK
  <2>1. ASSUME NEW p \in Publishers, PublishHandle(p), pub[p].event = e
        PROVE  pub'[p].stage = "handlers" /\ pub'[p].event = e
    <3>1. PICK err :
            pub' = [pub EXCEPT ![p] =
                      [stage |-> "handlers", event |-> pub[p].event,
                       next |-> pub[p].next + 1, error |-> err]]
      BY <2>1 DEF PublishHandle
    <3> QED
      BY <2>1, <2>p, <3>1
  <2>2. ASSUME NEW t \in Ticks, TickHandle(t), tick[t].event = e PROVE FALSE
    BY <2>0, <2>2 DEF TickHandle, EventIsOfBatch, BatchIsStored
  <2>3. CASE ran'[e][h] # ran[e][h]
    BY <2>1, <2>2, <2>3, RanMoves
  <2>4. CASE ran'[e][h] = ran[e][h]
    <3>1. PICK p \in Publishers : pub[p].stage = "handlers" /\ pub[p].event = e
      BY <2>0, <2>4 DEF EffectsAreRecorded
    <3>2. CASE pub'[p] = pub[p]
      BY <3>1, <3>2
    <3>3. CASE PublishSave(p)
      <4>1. Insertable(e) /\ "db" \notin Faults
        BY <2>0 DEF Insertable
      <4>2. store'[e].status # "ABSENT"
        BY <3>1, <3>3, <4>1 DEF PublishSave, Insert, StatusFor, TypeOK
      <4> QED
        BY <4>2
    <3>4. \A f \in Events : ~PublishStart(p, f)
      BY <3>1 DEF PublishStart
    <3>5. ~PublishMark(p) /\ ~Crash
      BY <3>1 DEF PublishMark, Crash
    <3> QED
      BY <2>1, <3>1, <3>2, <3>3, <3>4, <3>5, PubMoves
  <2> QED
    BY <2>3, <2>4
<1> QED
  BY <1>1, <1>2, <1>3

(***************************************************************************)
(* What a subscriber did is on record, for any number of events, calls of  *)
(* publish and overlapping ticks, with failing subscribers and manual      *)
(* retries, as long as the process lives and its updates reach the table:  *)
(* the row is written after the subscribers have run.                      *)
(***************************************************************************)
THEOREM EffectsAreStored ==
  ASSUME Faults = {}
  PROVE  Spec => []EveryEventStored
<1>1. Init => TypeOK /\ EventIsOfBatch /\ BatchIsStored /\ EffectsAreRecorded
  BY TypeInit DEF Init, EventIsOfBatch, BatchIsStored, EffectsAreRecorded, NoTick
<1>2. TypeOK /\ EventIsOfBatch /\ BatchIsStored /\ EffectsAreRecorded /\ [Next]_vars
        => TypeOK' /\ EventIsOfBatch' /\ BatchIsStored' /\ EffectsAreRecorded'
  BY TypeNext, RecordedNext
<1>3. EffectsAreRecorded => EveryEventStored
  BY DEF EffectsAreRecorded, EveryEventStored
<1> QED
  BY <1>1, <1>2, <1>3, PTL DEF Spec
=============================================================================
