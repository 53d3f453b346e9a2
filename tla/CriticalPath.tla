---------------------------- MODULE CriticalPath ----------------------------
(***************************************************************************)
(* The critical path of a tree of work orders, as CriticalPathService      *)
(* computes it over the rows of one query: a pass from the root down, in   *)
(* which an order starts when its parent has ended, a pass up from the end *)
(* of the last order, and the orders left without slack.                   *)
(*                                                                         *)
(* The passes go by the level stored in the rows, not by the parents: an   *)
(* order whose level is out of date may come before its parent, and then   *)
(* goes by the times stored for the parent by an earlier calculation.      *)
(***************************************************************************)
EXTENDS Integers, FiniteSets, SequencesExt

CONSTANTS DurationOf,  \* of each work order, planned end less planned start
          StartOf,     \* its planned start
          NoTime       \* the value of a time that was never calculated

ASSUME NoTimeAssumption == NoTime \notin Int

\* ef and ls of every order, as stored before any calculation.
NoTimes == [ef |-> NoTime, ls |-> NoTime, critical |-> FALSE]

Stored(time, otherwise) == IF time = NoTime THEN otherwise ELSE time

\* The query lists an order before those below it.
InQueryOrder(nodes, depth) ==
  CHOOSE q \in SetToSeqs(nodes) :
    \A i, k \in DOMAIN q : i < k => depth[q[i]] <= depth[q[k]]

\* The orders by level, up or down; those of one level stay as they were.
ByLevel(nodes, level, depth, up) ==
  CHOOSE q \in SetToSeqs(nodes) :
    \A i, k \in DOMAIN q : i < k =>
      \/ IF up THEN level[q[i]] < level[q[k]] ELSE level[q[i]] > level[q[k]]
      \/ level[q[i]] = level[q[k]] /\ depth[q[i]] <= depth[q[k]]

\* forwardPass: the earliest finish of every order
ForwardPass(nodes, parent, level, depth, times) ==
  LET start(ef, w) ==
        IF parent[w] \notin nodes THEN StartOf[w]
        ELSE Stored(ef[parent[w]], StartOf[parent[w]])
  IN FoldLeft(LAMBDA ef, w : [ef EXCEPT ![w] = start(ef, w) + DurationOf[w]],
              [w \in nodes |-> times[w].ef],
              ByLevel(nodes, level, depth, TRUE))

\* Variant: an order has until the last of its children starts
BackwardLast(nodes, parent, level, depth, times, end) ==
  LET below(w) == {u \in nodes : parent[u] = w}
      finish(ls, w) == IF below(w) = {} THEN end
                       ELSE Max({Stored(ls[v], end) : v \in below(w)})
  IN FoldLeft(LAMBDA ls, w : [ls EXCEPT ![w] = finish(ls, w) - DurationOf[w]],
              [w \in nodes |-> times[w].ls],
              ByLevel(nodes, level, depth, FALSE))

\* backwardPass: the latest start of every order
BackwardPass(nodes, parent, level, depth, times, end) ==
  LET finish(ls, w) ==
        Min({end} \cup {Stored(ls[v], end) : v \in {u \in nodes : parent[u] = w}})
  IN FoldLeft(LAMBDA ls, w : [ls EXCEPT ![w] = finish(ls, w) - DurationOf[w]],
              [w \in nodes |-> times[w].ls],
              ByLevel(nodes, level, depth, FALSE))

\* recalculate, up to what it persists: the new times of the orders of a tree
Recalculated(nodes, parent, level, depth, times) ==
  LET ef == ForwardPass(nodes, parent, level, depth, times)
      ls == BackwardPass(nodes, parent, level, depth, times,
                         Max({ef[w] : w \in nodes}))
  IN [w \in nodes |-> [ef |-> ef[w], ls |-> ls[w],
                       critical |-> ls[w] <= ef[w] - DurationOf[w]]]
=============================================================================
