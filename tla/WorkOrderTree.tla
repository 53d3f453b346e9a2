--------------------------- MODULE WorkOrderTree ---------------------------
(***************************************************************************)
(* The tree of work orders: the change of a parent, with its detection of  *)
(* cycles and the new roots and levels below (WorkOrderTreeService), and   *)
(* the recalculation of the critical path (CriticalPath) that follows an   *)
(* order created from the APS.                                             *)
(*                                                                         *)
(* Every step is a statement of its own: the walk up from the new parent   *)
(* reads one order at a time, and the children are saved one by one as     *)
(* they were read, parent and times included.  An order that is detached   *)
(* keeps its parent: the service assigns undefined, which is not written.  *)
(*                                                                         *)
(* treeLate and treeTorn are history: the orders written while another     *)
(* request was under way, and whether a request died or detached an order. *)
(***************************************************************************)
EXTENDS Requests, CriticalPath

CONSTANTS TreeOrders,  \* the work orders
          NoParent,    \* no work order
          MaxLevel     \* bound: levels of the tree

ASSUME NoParentAssumption == NoParent \notin TreeOrders
ASSUME MaxLevelAssumption == MaxLevel \in Nat
ASSUME TreeOrdersAssumption ==
  IsFiniteSet(TreeOrders) /\ Cardinality(TreeOrders) <= MaxLevel + 1
ASSUME TimesAssumption ==
  DurationOf \in [TreeOrders -> Int] /\ StartOf \in [TreeOrders -> Int]

VARIABLES parent, root, level,
          times,  \* es and lf left out: they follow from ef, ls and the duration
          treeLate, treeTorn

treeData == <<parent, root, level, times, treeLate, treeTorn>>
treeVars == <<treeData, reqVars>>

-----------------------------------------------------------------------------
Children(w) == {u \in TreeOrders : parent[u] = w}

\* The order n steps above w, and all the orders above w.
ClimbIn(p, w) ==
  LET up[n \in 0..Cardinality(TreeOrders)] ==
        IF n = 0 THEN w
        ELSE IF up[n - 1] = NoParent THEN NoParent ELSE p[up[n - 1]]
  IN up
AboveIn(p, w) ==
  {ClimbIn(p, w)[n] : n \in 1..Cardinality(TreeOrders)} \ {NoParent}

Forests ==
  {p \in [TreeOrders -> TreeOrders \cup {NoParent}] :
     \A w \in TreeOrders : w \notin AboveIn(p, w)}

\* Any tree, as changes of parents make it one after the other.
TreeInit ==
  /\ parent \in Forests
  /\ level = [w \in TreeOrders |-> Cardinality(AboveIn(parent, w))]
  /\ root = [w \in TreeOrders |->
               CHOOSE u \in AboveIn(parent, w) \cup {w} : parent[u] = NoParent]
  /\ times = [w \in TreeOrders |-> NoTimes]
  /\ treeLate = {} /\ treeTorn = FALSE

\* Client c writes order w, which is noted when it is not alone.
NoteWrite(c, w) ==
  treeLate' = IF \E d \in Clients \ {c} : job[d] # NoJob
              THEN treeLate \cup {w} ELSE treeLate

\* Client c saves the row of order w, with the times t it has read.
WriteRow(c, w, up, r, n, t) ==
  /\ parent' = [parent EXCEPT ![w] = up]
  /\ root' = [root EXCEPT ![w] = r]
  /\ level' = [level EXCEPT ![w] = n]
  /\ times' = [times EXCEPT ![w] = t]
  /\ NoteWrite(c, w)

-----------------------------------------------------------------------------
(* updateParent *)

DetachOrder(c, w) ==
  /\ Accept(c, [op |-> "move", stage |-> "detach", on |-> w, times |-> times[w]])
  /\ UNCHANGED treeData

DetachSave(c) ==
  /\ At(c, "move", "detach")
  /\ LET w == job[c].on
     IN /\ WriteRow(c, w, parent[w], w, 0, job[c].times)
        /\ Continue(c, [op |-> "move", stage |-> "find", on |-> w, level |-> 0,
                        root |-> w, todo |-> << >>])
  /\ treeTorn' = TRUE

UpdateParent(c, w, p) ==
  /\ Accept(c, [op |-> "move", stage |-> "walk", on |-> w, to |-> p,
                current |-> p, visited |-> {}, times |-> times[w]])
  /\ UNCHANGED treeData

\* Variant: only the new parent itself is looked at
ReachesSelf(j) == j.to = j.on \/ j.current \in j.visited

\* What ends the walk with an error: the order itself, or a cycle there is.
Reaches(j) == j.current = j.on \/ j.current \in j.visited

\* detectCycle: one order of the chain at a time
Walk(c) ==
  /\ At(c, "move", "walk")
  /\ LET j == job[c]
     IN IF Reaches(j) THEN Reply(c)
        ELSE Continue(c,
               IF parent[j.current] = NoParent
               THEN [op |-> "move", stage |-> "read", on |-> j.on, to |-> j.to,
                     times |-> j.times]
               ELSE [j EXCEPT !.current = parent[j.current],
                              !.visited = j.visited \cup {j.current}])
  /\ UNCHANGED treeData

ReadParent(c) ==
  /\ At(c, "move", "read")
  /\ LET p == job[c].to
     IN Continue(c, [op |-> "move", stage |-> "save", on |-> job[c].on, to |-> p,
                     root |-> root[p], level |-> level[p] + 1,
                     times |-> job[c].times])
  /\ UNCHANGED treeData

SaveParent(c) ==
  /\ At(c, "move", "save")
  /\ LET j == job[c]
     IN /\ j.level <= MaxLevel
        /\ WriteRow(c, j.on, j.to, j.root, j.level, j.times)
        /\ Continue(c, [op |-> "move", stage |-> "find", on |-> j.on,
                        level |-> j.level, root |-> j.root, todo |-> << >>])
  /\ UNCHANGED treeTorn

-----------------------------------------------------------------------------
(* _propagateRootAndLevel, depth first *)

\* Variant: the level of the order, not of its parent, is passed down
BelowSame(w, n) ==
  [on |-> w, parent |-> parent[w], times |-> times[w], level |-> n]

\* The row of child w as it was read, with its level under level n.
Below(w, n) ==
  [on |-> w, parent |-> parent[w], times |-> times[w], level |-> n + 1]

FindChildren(c) ==
  /\ At(c, "move", "find")
  /\ LET j == job[c]
         rows == {Below(w, j.level) : w \in Children(j.on)}
     IN Continue(c, [op |-> "move", stage |-> "child", root |-> j.root,
                     todo |-> SetToSeq(rows) \o j.todo])
  /\ UNCHANGED treeData

SaveChild(c) ==
  /\ At(c, "move", "child")
  /\ job[c].todo # << >>
  /\ LET j == job[c]  row == Head(j.todo)
     IN /\ row.level <= MaxLevel
        /\ WriteRow(c, row.on, row.parent, j.root, row.level, row.times)
        /\ Continue(c, [op |-> "move", stage |-> "find", on |-> row.on,
                        level |-> row.level, root |-> j.root,
                        todo |-> Tail(j.todo)])
  /\ UNCHANGED treeTorn

Moved(c) ==
  /\ At(c, "move", "child")
  /\ job[c].todo = << >>
  /\ Reply(c)
  /\ UNCHANGED treeData

-----------------------------------------------------------------------------
(* Recalculation after the creation of an order whose event names root r *)

\* getTree: the rows below r, in one query.  A tree that two changes of parent
\* have closed to a cycle is left out, where the query repeats the rows.
Recalculate(c, r) ==
  /\ r \notin AboveIn(parent, r)
  /\ LET nodes == {w \in TreeOrders : r \in AboveIn(parent, w) \cup {w}}
         depth == [w \in nodes |-> Cardinality(AboveIn(parent, w))]
     IN Accept(c, [op |-> "path", stage |-> "persist", on |-> r,
                   rows |-> Recalculated(nodes, parent, level, depth, times),
                   todo |-> InQueryOrder(nodes, depth)])
  /\ UNCHANGED treeData

\* persistCpmResult: one order at a time
PersistNode(c) ==
  /\ At(c, "path", "persist")
  /\ job[c].todo # << >>
  /\ LET w == Head(job[c].todo)
     IN /\ times' = [times EXCEPT ![w] = job[c].rows[w]]
        /\ NoteWrite(c, w)
  /\ Continue(c, [job[c] EXCEPT !.todo = Tail(@)])
  /\ UNCHANGED <<parent, root, level, treeTorn>>

Recalculation(c) ==
  /\ At(c, "path", "persist")
  /\ job[c].todo = << >>
  /\ Reply(c)
  /\ UNCHANGED treeData

-----------------------------------------------------------------------------
TreeDie(c) ==
  /\ job[c] # NoJob
  /\ Reply(c)
  /\ treeTorn' = TRUE
  /\ UNCHANGED <<parent, root, level, times, treeLate>>

TreeNext ==
  \E c \in Clients :
    \/ \E w \in TreeOrders :
         \/ DetachOrder(c, w) \/ Recalculate(c, w)
         \/ \E p \in TreeOrders : UpdateParent(c, w, p)
    \/ DetachSave(c) \/ Walk(c) \/ ReadParent(c) \/ SaveParent(c)
    \/ FindChildren(c) \/ SaveChild(c) \/ Moved(c)
    \/ PersistNode(c) \/ Recalculation(c) \/ TreeDie(c)

TreeSpec == ReqInit /\ TreeInit /\ [][TreeNext]_treeVars

-----------------------------------------------------------------------------
TreeTypeOK ==
  /\ parent \in [TreeOrders -> TreeOrders \cup {NoParent}]
  /\ root \in [TreeOrders -> TreeOrders]
  /\ level \in [TreeOrders -> 0..MaxLevel]
  /\ \A w \in TreeOrders :
       /\ {times[w].ef, times[w].ls} \subseteq Int \cup {NoTime}
       /\ times[w].critical \in BOOLEAN
  /\ treeLate \subseteq TreeOrders /\ treeTorn \in BOOLEAN

\* The time from the start of r to the end of w, along the orders between.
PathTo(r, w) ==
  SumFunctionOnSet(DurationOf,
                   {v \in AboveIn(parent, w) \cup {w} : r \in AboveIn(parent, v) \cup {v}})

\* Order w lies on a longest path from r down.
OnLongest(r, w) ==
  LET nodes == {v \in TreeOrders : r \in AboveIn(parent, v) \cup {v}}
  IN \E v \in nodes : /\ w \in AboveIn(parent, v) \cup {v}
                      /\ \A u \in nodes : PathTo(r, u) <= PathTo(r, v)

\* What a recalculation has marked are the longest paths, when it is done and
\* no request overlapped, died or detached an order.
CriticalIsLongest ==
  \A c \in Clients :
    At(c, "path", "persist") /\ job[c].todo = << >> /\ treeLate = {} /\ ~treeTorn =>
      \A w \in DOMAIN job[c].rows :
        times[w].critical <=> OnLongest(job[c].on, w)

\* On every cycle lies an order that was written while requests overlapped.
CyclesAreLate ==
  \A w \in TreeOrders :
    LET cycle == AboveIn(parent, w)
    IN w \in cycle => cycle \cap treeLate # {}

LevelCounts(w) == level[w] = level[parent[w]] + 1 /\ root[w] = root[parent[w]]

\* Levels and roots follow the parents when no request is under way, unless
\* requests overlapped, died or detached an order.
LevelsCount ==
  (\A c \in Clients : job[c] = NoJob) /\ treeLate = {} /\ ~treeTorn =>
    \A w \in TreeOrders : parent[w] # NoParent => LevelCounts(w)

(***************************************************************************)
(* A cycle is never closed by changes that do not overlap: on every cycle  *)
(* lies an order whose row was written while another request was under     *)
(* way, also by a request that saves a child with the parent it had read.  *)
(* When no request is under way, the orders below a changed one have its   *)
(* root, and levels that count from it; unless requests overlapped, died,  *)
(* or detached an order.  The critical path, which goes by these levels,   *)
(* marks the longest paths of the tree as it is.                           *)
(***************************************************************************)
TreeIsSound == CyclesAreLate /\ LevelsCount /\ CriticalIsLongest
=============================================================================
