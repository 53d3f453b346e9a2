------------------------------ MODULE EventBus ------------------------------
(***************************************************************************)
(* The in-process event bus with its table sys_event_store:                *)
(* shared/message/database-message.service.ts, event-store.entity.ts and   *)
(* the manual retry of modules/event/event.controller.ts.                  *)
(*                                                                         *)
(* publish() runs every subscriber of the event inside the caller, then    *)
(* inserts one row; a cron tick every five seconds takes a window of       *)
(* PENDING and FAILED rows and runs their subscribers again.  Node runs    *)
(* one thread: what lies between two awaits is one action here, and        *)
(* everything else interleaves.  Cron does not wait for the previous tick, *)
(* so several ticks may be in progress.                                    *)
(***************************************************************************)
EXTENDS Integers, Sequences, FiniteSets

CONSTANTS
  Events,        \* event ids (unique key of the table)
  NoEvent,       \* no event
  Handlers,      \* subscribed callbacks
  Alerts,        \* the events inserted by checkSafetyStock(), never published
  HandlersOf,    \* the subscribers of each event, in order of subscription
  TenantBound,   \* handlers that need the tenant of an HTTP request
  Priority,      \* priority column of each event
  MaxRetries,    \* max_retries column (3 in the code)
  Take,          \* rows one tick reads (10 in the code)
  Cap,           \* size of the in-process set of seen ids (10000 in the code)
  Publishers,    \* calls of publish() that may be in progress together
  Ticks,         \* cron ticks that may be in progress together
  Faults,        \* subset of {"crash", "db"}: the faults that may happen
  MaxPublishes,  \* bound: calls of publish() for one event id
  MaxRequeues,   \* bound: manual retries of one row
  MaxFailures    \* bound: transient failures of handlers

ASSUME BusConstants ==
  /\ NoEvent \notin Events
  /\ Alerts \subseteq Events
  /\ HandlersOf \in [Events -> Seq(Handlers)]
  /\ TenantBound \subseteq Handlers
  /\ Priority \in [Events -> Int]
  /\ MaxRetries \in Nat \ {0}
  /\ Take \in Nat \ {0}
  /\ Cap \in Nat
  /\ Faults \subseteq {"crash", "db"}
  /\ MaxPublishes \in Nat /\ MaxRequeues \in Nat /\ MaxFailures \in Nat

VARIABLES
  store,         \* the row of each event
  now,           \* clock of created_at
  processedIds,  \* ids seen by this process, oldest first
  pub,           \* each call of publish()
  tick,          \* each run of processPendingEvents()
  unheard,       \* history: rows stored COMPLETED over an error without a message
  ran,           \* history: how often each handler completed for each event
  attempts,      \* history: failed tries of the poller since the last requeue
  published,     \* calls of publish() so far, against MaxPublishes
  requeued,      \* manual retries so far, against MaxRequeues
  failures       \* transient failures so far, against MaxFailures

vars == <<store, now, processedIds, pub, tick, ran, attempts,
          published, requeued, unheard, failures>>

history == <<published, requeued, unheard>>

\* What publish keeps of the errors: nothing, an empty message, or a message
Errors == {"none", "empty", "message"}

Status == {"ABSENT", "PENDING", "PROCESSING", "COMPLETED", "FAILED",
           "DEAD_LETTER"}

Row == [status: Status, retryCount: Nat, createdAt: Nat]
NoRow == [status |-> "ABSENT", retryCount |-> 0, createdAt |-> 0]

NoPub == [stage |-> "idle", event |-> NoEvent, next |-> 1, error |-> "none"]
BusyPub == [stage: {"handlers", "mark"}, event: Events, next: Nat \ {0},
            error: Errors]

\* retry: the retryCount of each row of the batch, as it was read
NoTick == [stage |-> "idle", event |-> NoEvent, next |-> 1,
           batch |-> {}, retry |-> [e \in Events |-> 0]]
PickTick == [stage: {"pick"}, event: {NoEvent}, next: {1},
             batch: SUBSET Events, retry: [Events -> Nat]]
WorkTick == [stage: {"handlers", "fail"}, event: Events, next: Nat \ {0},
             batch: SUBSET Events, retry: [Events -> Nat]]

Seen == {processedIds[i] : i \in 1..Len(processedIds)}

Init ==
  /\ store = [e \in Events |-> NoRow]
  /\ now = 1
  /\ processedIds = <<>>
  /\ pub = [p \in Publishers |-> NoPub]
  /\ tick = [t \in Ticks |-> NoTick]
  /\ ran = [e \in Events |-> [h \in Handlers |-> 0]]
  /\ attempts = [e \in Events |-> 0]
  /\ published = [e \in Events |-> 0]
  /\ requeued = [e \in Events |-> 0]
  /\ unheard = {}
  /\ failures = 0

\* Variants with a plausible bug, each put in the place of the definition that
\* follows to see a property fail: a status the entity does not have, and a
\* table that records the failures only.
InsertOtherStatus(e, status) ==
  /\ store' = [store EXCEPT ![e] =
       [status |-> IF status = "COMPLETED" THEN "SUCCESS" ELSE status,
        retryCount |-> 0, createdAt |-> now]]
  /\ now' = now + 1

InsertFailuresOnly(e, status) ==
  /\ store' = IF status = "COMPLETED" THEN store
              ELSE [store EXCEPT ![e] = [status |-> status, retryCount |-> 0,
                                         createdAt |-> now]]
  /\ now' = now + 1

Insert(e, status) ==
  /\ store' = [store EXCEPT ![e] = [status |-> status, retryCount |-> 0,
                                    createdAt |-> now]]
  /\ now' = now + 1

\* Handler h completes for e.
Succeeds(e, h) ==
  /\ ran' = [ran EXCEPT ![e][h] = @ + 1]
  /\ UNCHANGED failures

\* A handler throws for a transient reason, and leaves no effect.
Throws ==
  /\ failures < MaxFailures
  /\ failures' = failures + 1
  /\ UNCHANGED ran

(***************************************************************************)
(* publish()                                                               *)
(***************************************************************************)
AlreadySeen(e) == e \in Seen

PublishStart(p, e) ==
  /\ e \notin Alerts
  /\ pub[p].stage = "idle"
  /\ published[e] < MaxPublishes
  /\ published' = [published EXCEPT ![e] = @ + 1]
  /\ pub' = IF AlreadySeen(e)
            THEN pub
            ELSE [pub EXCEPT ![p] = [stage |-> "handlers", event |-> e,
                                     next |-> 1, error |-> "none"]]
  /\ UNCHANGED <<store, now, processedIds, tick, ran, attempts, requeued,
                 unheard, failures>>

\* Variant: only the last handler counts
LastError(p, error) == error

\* handlerError keeps the message of the last error there was.
HandlerError(p, error) == IF error = "none" THEN pub[p].error ELSE error

\* Every handler is called, whether or not an earlier one threw.  Errors come
\* with a message or, as an AggregateError of a refused connection, without.
PublishHandle(p) ==
  LET e == pub[p].event IN
  /\ pub[p].stage = "handlers"
  /\ pub[p].next <= Len(HandlersOf[e])
  /\ \/ /\ Succeeds(e, HandlersOf[e][pub[p].next])
        /\ pub' = [pub EXCEPT ![p] =
              [stage |-> "handlers", event |-> e, next |-> pub[p].next + 1,
               error |-> HandlerError(p, "none")]]
     \/ /\ Throws
        /\ \E error \in {"empty", "message"} :
             pub' = [pub EXCEPT ![p] =
               [stage |-> "handlers", event |-> e, next |-> pub[p].next + 1,
                error |-> HandlerError(p, error)]]
  /\ UNCHANGED <<store, now, processedIds, tick, attempts, history>>

\* Variant: the second publication writes over the first row
Upsert(e) == TRUE

\* The unique key on event_id
Insertable(e) == store[e].status = "ABSENT"

\* status: error ? 'FAILED' : 'COMPLETED', and an empty message is falsy.
StatusFor(error) == IF error = "message" THEN "FAILED" ELSE "COMPLETED"

\* saveToStore(): the unique key refuses a second row, and any error of the
\* insert is logged and dropped.
PublishSave(p) ==
  LET e == pub[p].event IN
  /\ pub[p].stage = "handlers"
  /\ pub[p].next > Len(HandlersOf[e])
  /\ \/ /\ Insertable(e)
        /\ Insert(e, StatusFor(pub[p].error))
        /\ unheard' = IF pub[p].error = "empty" THEN unheard \cup {e} ELSE unheard
     \/ /\ ~Insertable(e) \/ "db" \in Faults
        /\ UNCHANGED <<store, now, unheard>>
  /\ pub' = [pub EXCEPT ![p].stage = "mark"]
  /\ UNCHANGED <<processedIds, tick, ran, attempts, failures, published,
                 requeued>>

PublishMark(p) ==
  LET e == pub[p].event
      ids == IF e \in Seen THEN processedIds ELSE Append(processedIds, e)
  IN
  /\ pub[p].stage = "mark"
  /\ processedIds' = IF Len(ids) > Cap THEN Tail(ids) ELSE ids
  /\ pub' = [pub EXCEPT ![p] = NoPub]
  /\ UNCHANGED <<store, now, tick, ran, attempts, failures, history>>

(***************************************************************************)
(* processPendingEvents() and processEvent()                               *)
(***************************************************************************)
\* Variant: the failed rows are not read
PendingOnly == {e \in Events : store[e].status = "PENDING"}

Waiting == {e \in Events : store[e].status \in {"PENDING", "FAILED"}}

\* ORDER BY priority, created_at
Precedes(e, f) ==
  \/ Priority[e] < Priority[f]
  \/ /\ Priority[e] = Priority[f]
     /\ store[e].createdAt < store[f].createdAt

Window == {e \in Waiting :
             Cardinality({f \in Waiting : Precedes(f, e)}) < Take}

\* The rows over their limit are dropped after the window was taken.
Eligible == {e \in Window : store[e].retryCount < MaxRetries}

TickStart(t) ==
  /\ tick[t].stage = "idle"
  /\ Eligible # {}
  /\ tick' = [tick EXCEPT ![t] =
       [stage |-> "pick", event |-> NoEvent, next |-> 1, batch |-> Eligible,
        retry |-> [e \in Events |->
                     IF e \in Eligible THEN store[e].retryCount ELSE 0]]]
  /\ UNCHANGED <<store, now, processedIds, pub, ran, attempts, failures,
                 history>>

\* A tick that finds nothing to do returns.
TickEmpty(t) ==
  /\ tick[t].stage = "idle"
  /\ Eligible = {}
  /\ UNCHANGED vars

\* The rest of the batch after event e
Remaining(t, e) ==
  LET rest == tick[t].batch \ {e} IN
  IF rest = {} THEN NoTick
  ELSE [stage |-> "pick", event |-> NoEvent, next |-> 1, batch |-> rest,
        retry |-> [tick[t].retry EXCEPT ![e] = 0]]

\* The row becomes PROCESSING whatever it is by now; if that update fails the
\* tick ends.
TickPick(t) ==
  /\ tick[t].stage = "pick"
  /\ \E e \in tick[t].batch :
       /\ \A f \in tick[t].batch : ~Precedes(f, e)
       /\ \/ /\ store' = [store EXCEPT ![e] =
                            [@ EXCEPT !.status = "PROCESSING"]]
             /\ tick' = [tick EXCEPT ![t] =
                  [stage |-> "handlers", event |-> e, next |-> 1,
                   batch |-> tick[t].batch, retry |-> tick[t].retry]]
          \/ /\ "db" \in Faults
             /\ tick' = [tick EXCEPT ![t] = NoTick]
             /\ UNCHANGED store
  /\ UNCHANGED <<now, processedIds, pub, ran, attempts, failures, history>>

\* A tick has no tenant, so a tenant-bound handler throws each time; the
\* first throw ends the loop over the handlers.
TickHandle(t) ==
  LET e == tick[t].event
      h == HandlersOf[e][tick[t].next]
  IN
  /\ tick[t].stage = "handlers"
  /\ tick[t].next <= Len(HandlersOf[e])
  /\ \/ /\ h \notin TenantBound
        /\ Succeeds(e, h)
        /\ tick' = [tick EXCEPT ![t].next = @ + 1]
     \/ /\ \/ h \in TenantBound /\ UNCHANGED <<ran, failures>>
           \/ h \notin TenantBound /\ Throws
        /\ tick' = [tick EXCEPT ![t].stage = "fail"]
  /\ UNCHANGED <<store, now, processedIds, pub, attempts, history>>

\* The update to COMPLETED is inside the try: if it fails, the try failed.
TickComplete(t) ==
  LET e == tick[t].event IN
  /\ tick[t].stage = "handlers"
  /\ tick[t].next > Len(HandlersOf[e])
  /\ \/ /\ store' = [store EXCEPT ![e].status = "COMPLETED"]
        /\ tick' = [tick EXCEPT ![t] = Remaining(t, e)]
     \/ /\ "db" \in Faults
        /\ tick' = [tick EXCEPT ![t].stage = "fail"]
        /\ UNCHANGED store
  /\ UNCHANGED <<now, processedIds, pub, ran, attempts, failures, history>>

\* Variant: the try is not counted
UncountedRetry(t) == tick[t].retry[tick[t].event]

\* The new retryCount comes from the row as the tick read it.
NewRetryCount(t) == tick[t].retry[tick[t].event] + 1

\* Variants: one try too many, one too few
LateDeadLetter(n) == IF n > MaxRetries THEN "DEAD_LETTER" ELSE "FAILED"
EarlyDeadLetter(n) == IF n + 1 >= MaxRetries THEN "DEAD_LETTER" ELSE "FAILED"

NewStatus(n) == IF n >= MaxRetries THEN "DEAD_LETTER" ELSE "FAILED"

TickFail(t) ==
  LET e == tick[t].event IN
  /\ tick[t].stage = "fail"
  /\ \/ /\ store' = [store EXCEPT ![e] =
                       [@ EXCEPT !.status = NewStatus(NewRetryCount(t)),
                                 !.retryCount = NewRetryCount(t)]]
        /\ tick' = [tick EXCEPT ![t] = Remaining(t, e)]
     \/ /\ "db" \in Faults
        /\ tick' = [tick EXCEPT ![t] = NoTick]
        /\ UNCHANGED store
  /\ attempts' = [attempts EXCEPT ![e] = @ + 1]
  /\ UNCHANGED <<now, processedIds, pub, ran, failures, history>>

(***************************************************************************)
(* The other writers of the table, and the loss of the process             *)
(***************************************************************************)
\* checkSafetyStock() inserts its alert without publishing it.
InsertPending(e) ==
  /\ e \in Alerts
  /\ store[e].status = "ABSENT"
  /\ Insert(e, "PENDING")
  /\ UNCHANGED <<processedIds, pub, tick, ran, attempts, failures, history>>

\* POST /events/:id/retry has no condition on the status.
Requeue(e) ==
  /\ store[e].status # "ABSENT"
  /\ requeued[e] < MaxRequeues
  /\ requeued' = [requeued EXCEPT ![e] = @ + 1]
  /\ store' = [store EXCEPT ![e] = [@ EXCEPT !.status = "PENDING",
                                             !.retryCount = 0]]
  /\ attempts' = [attempts EXCEPT ![e] = 0]
  /\ unheard' = unheard \ {e}
  /\ UNCHANGED <<now, processedIds, pub, tick, ran, failures, published>>

\* The process dies and starts again: only the table survives.
Crash ==
  /\ "crash" \in Faults
  /\ processedIds' = <<>>
  /\ pub' = [p \in Publishers |-> NoPub]
  /\ tick' = [t \in Ticks |-> NoTick]
  /\ UNCHANGED <<store, now, ran, attempts, failures, history>>

Publish(p) ==
  \/ \E e \in Events : PublishStart(p, e)
  \/ PublishHandle(p) \/ PublishSave(p) \/ PublishMark(p)

TickStep(t) ==
  \/ TickStart(t) \/ TickEmpty(t) \/ TickPick(t)
  \/ TickHandle(t) \/ TickComplete(t) \/ TickFail(t)

Next ==
  \/ \E p \in Publishers : Publish(p)
  \/ \E t \in Ticks : TickStep(t)
  \/ \E e \in Events : InsertPending(e) \/ Requeue(e)
  \/ Crash

Spec == Init /\ [][Next]_vars

(***************************************************************************)
(* Cron keeps firing and every await returns.  Nobody is obliged to        *)
(* publish or to press retry.                                              *)
(***************************************************************************)
Fairness ==
  /\ \A t \in Ticks : WF_vars(TickStep(t))
  /\ \A p \in Publishers :
       WF_vars(PublishHandle(p) \/ PublishSave(p) \/ PublishMark(p))

FairSpec == Spec /\ Fairness

\* The row as EventDelivery sees it
OutcomeOf(status) ==
  CASE status = "ABSENT"      -> "none"
    [] status = "COMPLETED"   -> "delivered"
    [] status = "DEAD_LETTER" -> "dead"
    [] OTHER                  -> "waiting"

Delivery == INSTANCE EventDelivery WITH
  outcome <- [e \in Events |-> OutcomeOf(store[e].status)],
  tries   <- [e \in Events |-> store[e].retryCount]

(***************************************************************************)
(* Properties                                                              *)
(***************************************************************************)

\* Every variable keeps its type: a row has a status of the entity, a task
\* points at an event of the table and at a handler of it.
TypeOK ==
  /\ store \in [Events -> Row]
  /\ now \in Nat
  /\ processedIds \in Seq(Events)
  /\ pub \in [Publishers -> BusyPub \cup {NoPub}]
  /\ tick \in [Ticks -> PickTick \cup WorkTick \cup {NoTick}]
  /\ ran \in [Events -> [Handlers -> Nat]]
  /\ attempts \in [Events -> Nat]
  /\ published \in [Events -> Nat]
  /\ requeued \in [Events -> Nat]
  /\ unheard \subseteq Events
  /\ failures \in Nat

\* At-least-once delivery: a row says COMPLETED only when every subscriber of
\* its event has completed, whichever of publish and the poller wrote it, and
\* whatever crashed, overlapped or was requeued in between.  Excepted is the
\* row publish itself stored over a last error without a message, until
\* somebody puts it back by hand.
CompletedMeansAllRan ==
  \A e \in Events \ unheard :
    store[e].status = "COMPLETED" =>
      \A i \in 1..Len(HandlersOf[e]) : ran[e][HandlersOf[e][i]] >= 1

\* The filter on retryCount is applied after the window of Take rows was
\* read, so a waiting row over the limit would hold its place in the window
\* for ever.  No waiting row is over the limit.
WaitingIsEligible ==
  \A e \in Waiting : store[e].retryCount < MaxRetries

\* A row is given up after MaxRetries tries since it was stored or last put
\* back by hand, neither earlier nor later.
GivenUpInTime ==
  \A e \in Events :
    /\ attempts[e] <= MaxRetries
    /\ store[e].status = "DEAD_LETTER" => attempts[e] = MaxRetries

\* The outcome of an event is final unless somebody puts it back by hand.
OutcomeIsFinal ==
  [][\A e \in Events :
       store[e].status \in {"COMPLETED", "DEAD_LETTER"} =>
         \/ store'[e] = store[e]
         \/ requeued'[e] = requeued[e] + 1]_vars

\* A subscriber's effect is not applied twice for one event id, as the check
\* at the top of publish promises.
HandledAtMostOnce ==
  \A e \in Events, h \in Handlers :
    LET times == Cardinality({i \in 1..Len(HandlersOf[e]) :
                                HandlersOf[e][i] = h})
    IN ran[e][h] <= times

\* What a subscriber did is on record: once no call of publish is working on
\* an event, an event that reached a subscriber has a row.
EveryEventStored ==
  \A e \in Events :
    /\ \E h \in Handlers : ran[e][h] > 0
    /\ \A p \in Publishers : pub[p].event # e
    => store[e].status # "ABSENT"

\* Every waiting row is settled in the end, one way or the other.
WaitingIsSettled ==
  \A e \in Events :
    store[e].status \in {"PENDING", "FAILED", "PROCESSING"} ~>
      store[e].status \in {"COMPLETED", "DEAD_LETTER"}

\* The table keeps the promise of EventDelivery: tries are counted one by one,
\* the last one allowed makes the dead letter, and nothing leaves an outcome.
DeliverySpec == Delivery!Spec

\* When handlers fail only for transient reasons, fewer times than the poller
\* is willing to try, every failed event is delivered in the end, unless it is
\* put back by hand, which grants it more tries and more failures.
FailureIsRecovered ==
  \A e \in Events :
    store[e].status = "FAILED" /\ requeued[e] = 0
      ~> store[e].status = "COMPLETED" \/ requeued[e] > 0
=============================================================================
