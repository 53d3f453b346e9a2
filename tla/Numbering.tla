----------------------------- MODULE Numbering -----------------------------
(***************************************************************************)
(* The serial of one numbering rule (NumberingService.generate; the codes  *)
(* of materials are made the same way).                                    *)
(*                                                                         *)
(* A request reads the serial and raises it by an update that compares; it *)
(* tries MaxRetries times, then its caller falls back to counting its own  *)
(* rows, under the unique key of its number.  An administrator may write   *)
(* any serial (base.controller.ts:182).                                    *)
(*                                                                         *)
(* granted, repeated and base are history since the rule was last edited:  *)
(* the serials handed out, those handed out again, and the serial then.    *)
(***************************************************************************)
EXTENDS Requests

CONSTANTS MaxRetries,  \* tries before the conflict is reported
          Edits        \* serials an administrator may write

ASSUME MaxRetriesAssumption == MaxRetries \in Nat \ {0}
ASSUME EditsAssumption == Edits \subseteq Nat

VARIABLES serial, granted, repeated, base

numData == <<serial, granted, repeated, base>>
numVars == <<numData, reqVars>>

NumInit ==
  /\ serial = 0
  /\ granted = {} /\ repeated = {} /\ base = 0

-----------------------------------------------------------------------------
Attempt(attempt, stage, seen) ==
  [op |-> "number", stage |-> stage, attempt |-> attempt, seen |-> seen]

Generate(c) ==
  /\ Accept(c, Attempt(1, "read", 0))
  /\ UNCHANGED numData

ReadSerial(c) ==
  /\ At(c, "number", "read")
  /\ Continue(c, Attempt(job[c].attempt, "write", serial))
  /\ UNCHANGED numData

\* Variant: the update does not compare
UnchangedSinceAlways(seen) == TRUE

UnchangedSince(seen) == serial = seen

\* The update that compares: it takes the next serial, or tries again.
IncrementSerial(c) ==
  /\ At(c, "number", "write")
  /\ UnchangedSince(job[c].seen)
  /\ serial' = job[c].seen + 1
  /\ granted' = granted \cup {job[c].seen + 1}
  /\ repeated' = repeated \cup ({job[c].seen + 1} \cap granted)
  /\ Reply(c)
  /\ UNCHANGED base

Conflict(c) ==
  /\ At(c, "number", "write")
  /\ ~UnchangedSince(job[c].seen)
  /\ IF job[c].attempt < MaxRetries
     THEN Continue(c, Attempt(job[c].attempt + 1, "read", 0))
     ELSE Reply(c)
  /\ UNCHANGED numData

EditRule(n) ==
  /\ Once
  /\ serial' = n
  /\ granted' = {} /\ repeated' = {} /\ base' = n

NumDie(c) ==
  /\ job[c] # NoJob
  /\ Reply(c)
  /\ UNCHANGED numData

NumNext ==
  \/ \E c \in Clients :
       Generate(c) \/ ReadSerial(c) \/ IncrementSerial(c) \/ Conflict(c) \/ NumDie(c)
  \/ \E n \in Edits : EditRule(n)

NumSpec == ReqInit /\ NumInit /\ [][NumNext]_numVars

-----------------------------------------------------------------------------
NumTypeOK ==
  /\ serial \in Nat /\ base \in Nat
  /\ granted \subseteq Nat /\ repeated \subseteq Nat

(***************************************************************************)
(* No serial is handed out twice, and none is skipped, whatever requests   *)
(* interleave, retry or die: since the rule was last edited they are the   *)
(* ones from the serial written then to the present one.                   *)
(***************************************************************************)
SerialsAreUnique == repeated = {} /\ granted = (base + 1)..serial
=============================================================================
