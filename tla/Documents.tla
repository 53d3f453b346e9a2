----------------------------- MODULE Documents -----------------------------
(***************************************************************************)
(* Documents that are passed on and decided: purchase requests, inquiries, *)
(* price agreements, arrival notices and suppliers' onboardings of SCM,    *)
(* quotations and returns of ERP, nonconformances of QMS, change requests  *)
(* of PLM.                                                                 *)
(*                                                                         *)
(* Each service reads the document, compares its status with the one a     *)
(* step starts from, and saves the status it ends in whatever the status   *)
(* is by then.  An inquiry is changed in a transaction, which writes what  *)
(* differs from its own snapshot; a quotation is turned into an order and  *)
(* a change request into an ECN without a change of its status; the last   *)
(* stage of an onboarding activates the supplier before it is saved.  The  *)
(* events a return, a nonconformance and an ECN publish belong to EventBus *)
(* and EcnExecution.                                                       *)
(*                                                                         *)
(* verdicts, contested and cut are history: the decisions that were saved, *)
(* whether two requests worked on the document at once, and whether one    *)
(* died after it had activated the supplier.                               *)
(***************************************************************************)
EXTENDS Requests

CONSTANT Suppliers  \* a sequence: the suppliers an inquiry is sent to

ASSUME SuppliersAssumption == Suppliers \in Seq(Range(Suppliers))

VARIABLES kind, status, chosen, active, made, verdicts, contested, cut

docData == <<kind, status, chosen, active, made, verdicts, contested, cut>>
docVars == <<docData, reqVars>>

-----------------------------------------------------------------------------
(* The steps of each service, from the status read to the status saved. *)

\* Variant: what was approved may still be rejected
RequestStepsBack ==
  {<<"DRAFT", "DRAFT">>, <<"DRAFT", "PENDING">>, <<"PENDING", "APPROVED">>,
   <<"PENDING", "REJECTED">>, <<"APPROVED", "REJECTED">>, <<"APPROVED", "CLOSED">>}

\* The first one is an update, which saves the row it has read.
RequestSteps ==
  {<<"DRAFT", "DRAFT">>, <<"DRAFT", "PENDING">>, <<"PENDING", "APPROVED">>,
   <<"PENDING", "REJECTED">>, <<"APPROVED", "CLOSED">>}

AgreementSteps == {<<"ACTIVE", "EXPIRED">>, <<"ACTIVE", "CANCELLED">>}

AsnSteps == {<<"PENDING", "RECEIVED">>, <<"PENDING", "CANCELLED">>}

Stages == <<"QUALIFICATION_REVIEW", "SITE_AUDIT", "SAMPLE_TEST", "PILOT_RUN">>

OnboardingSteps ==
  {<<Stages[i], IF i = Len(Stages) THEN "APPROVED" ELSE Stages[i + 1]>>
     : i \in DOMAIN Stages}
  \cup {<<Stages[i], "REJECTED">> : i \in DOMAIN Stages}

QuotationSteps ==
  {<<"DRAFT", "SENT">>, <<"SENT", "ACCEPTED">>, <<"SENT", "REJECTED">>}

ReturnSteps ==
  {<<"PENDING", "INSPECTING">>, <<"INSPECTING", "ACCEPTED">>,
   <<"INSPECTING", "REJECTED">>, <<"ACCEPTED", "STOCKED">>}

NcSteps ==
  {<<"OPEN", "IN_REVIEW">>, <<"OPEN", "CLOSED">>, <<"IN_REVIEW", "CLOSED">>}

\* A rejected one could be a draft again, but no request asks for that.
EcrSteps ==
  {<<"DRAFT", "SUBMITTED">>, <<"SUBMITTED", "APPROVED">>,
   <<"SUBMITTED", "REJECTED">>, <<"APPROVED", "CLOSED">>}

StepsOf ==
  [request |-> RequestSteps, agreement |-> AgreementSteps, asn |-> AsnSteps,
   onboarding |-> OnboardingSteps, quotation |-> QuotationSteps,
   salesReturn |-> ReturnSteps, nc |-> NcSteps, ecr |-> EcrSteps, inquiry |-> {}]

FirstStatus ==
  [request |-> "DRAFT", agreement |-> "ACTIVE", asn |-> "PENDING",
   onboarding |-> Stages[1], quotation |-> "DRAFT", salesReturn |-> "PENDING",
   nc |-> "OPEN", ecr |-> "DRAFT", inquiry |-> "DRAFT"]

DocInit ==
  /\ kind \in DOMAIN StepsOf
  /\ status = FirstStatus[kind]
  /\ chosen = << >>
  /\ active = FALSE /\ made = 0
  /\ verdicts = << >> /\ contested = FALSE /\ cut = FALSE

-----------------------------------------------------------------------------
\* What decides a document.
Decisions == {"APPROVED", "ACCEPTED", "REJECTED", "RECEIVED", "EXPIRED", "CANCELLED"}

\* The document gets this status.
Saved(s) ==
  /\ status' = s
  /\ verdicts' = IF s \in Decisions THEN Append(verdicts, s) ELSE verdicts

Contend == contested' = (contested \/ \E c \in Clients : job[c] # NoJob)

\* A request reads the document and takes one of its steps ...
TakeStep(c) ==
  /\ \E step \in StepsOf[kind] :
       /\ status = step[1]
       /\ Accept(c, [op |-> "step", to |-> step[2],
                     stage |-> IF kind = "onboarding" /\ step[2] = "APPROVED"
                               THEN "activate" ELSE "save"])
  /\ Contend
  /\ UNCHANGED <<kind, status, chosen, active, made, verdicts, cut>>

\* ... before an onboarding is approved, its supplier becomes active ...
ActivateSupplier(c) ==
  /\ At(c, "step", "activate")
  /\ active' = TRUE
  /\ Continue(c, [job[c] EXCEPT !.stage = "save"])
  /\ UNCHANGED <<kind, status, chosen, made, verdicts, contested, cut>>

\* ... and saves the document.
SaveStep(c) ==
  /\ At(c, "step", "save")
  /\ Saved(job[c].to)
  /\ Reply(c)
  /\ UNCHANGED <<kind, chosen, active, made, contested, cut>>

\* The agreements whose time is over expire in one statement.
AutoExpire ==
  /\ kind = "agreement" /\ status = "ACTIVE"
  /\ Saved("EXPIRED")
  /\ Contend
  /\ Once
  /\ UNCHANGED <<kind, chosen, active, made, cut>>

\* convertToOrder and issueEcn: an order or an ECN is made of the document.
ReadToMake(c) ==
  /\ \/ kind = "quotation" /\ status = "ACCEPTED"
     \/ kind = "ecr" /\ status = "APPROVED"
  /\ Accept(c, [op |-> "make", stage |-> "insert"])
  /\ Contend
  /\ UNCHANGED <<kind, status, chosen, active, made, verdicts, cut>>

Make(c) ==
  /\ At(c, "make", "insert")
  /\ made' = made + 1
  /\ Reply(c)
  /\ UNCHANGED <<kind, status, chosen, active, verdicts, contested, cut>>

-----------------------------------------------------------------------------
(* Inquiries: a transaction reads a snapshot, its commit writes what it     *)
(* changed in it.                                                           *)

BeginInquiry(c) ==
  /\ kind = "inquiry"
  /\ \/ /\ status = "DRAFT"
        /\ Accept(c, [op |-> "send", stage |-> "commit"])
     \/ /\ status \in {"SENT", "COMPARING"}
        /\ chosen # << >>
        /\ Accept(c, [op |-> "quote", stage |-> "commit", from |-> status])
     \/ /\ status # "CLOSED"
        /\ \E i \in DOMAIN chosen :
             Accept(c, [op |-> "select", stage |-> "commit", line |-> i,
                        snapshot |-> chosen])
  /\ Contend
  /\ UNCHANGED <<kind, status, chosen, active, made, verdicts, cut>>

SendInquiry(c) ==
  /\ At(c, "send", "commit")
  /\ chosen' = chosen \o [i \in DOMAIN Suppliers |-> FALSE]
  /\ Saved("SENT")
  /\ Reply(c)
  /\ UNCHANGED <<kind, active, made, contested, cut>>

\* The first quote changes the status, a later one only its line.
QuoteInquiry(c) ==
  /\ At(c, "quote", "commit")
  /\ IF job[c].from = "SENT" THEN Saved("COMPARING") ELSE UNCHANGED <<status, verdicts>>
  /\ Reply(c)
  /\ UNCHANGED <<kind, chosen, active, made, contested, cut>>

SelectSupplier(c) ==
  /\ At(c, "select", "commit")
  /\ chosen' = [i \in DOMAIN chosen |->
                  IF i \in DOMAIN job[c].snapshot
                     /\ job[c].snapshot[i] # (i = job[c].line)
                  THEN i = job[c].line ELSE chosen[i]]
  /\ Saved("CLOSED")
  /\ Reply(c)
  /\ UNCHANGED <<kind, active, made, contested, cut>>

-----------------------------------------------------------------------------
DocDie(c) ==
  /\ job[c] # NoJob
  /\ Reply(c)
  /\ cut' = (cut \/ (active /\ At(c, "step", "save") /\ job[c].to = "APPROVED"))
  /\ UNCHANGED <<kind, status, chosen, active, made, verdicts, contested>>

DocNext ==
  \/ \E c \in Clients :
       \/ TakeStep(c) \/ ActivateSupplier(c) \/ SaveStep(c) \/ ReadToMake(c) \/ Make(c)
       \/ BeginInquiry(c) \/ SendInquiry(c) \/ QuoteInquiry(c) \/ SelectSupplier(c)
       \/ DocDie(c)
  \/ AutoExpire

DocSpec == ReqInit /\ DocInit /\ [][DocNext]_docVars

-----------------------------------------------------------------------------
DocTypeOK ==
  /\ kind \in DOMAIN StepsOf
  /\ status \in {"SENT", "COMPARING", "CLOSED"} \cup Range(FirstStatus)
                \cup {s[2] : s \in UNION Range(StepsOf)}
  /\ chosen \in Seq(BOOLEAN)
  /\ active \in BOOLEAN /\ contested \in BOOLEAN /\ cut \in BOOLEAN
  /\ made \in Nat
  /\ verdicts \in Seq(Decisions)

(***************************************************************************)
(* A document that never had two requests at work on it is decided once,   *)
(* and what follows from a decision agrees with it: an inquiry is closed   *)
(* with one supplier chosen and no other is, and a supplier is active only *)
(* once it is approved.  An order or an ECN has, in any case, been made of *)
(* a document that was accepted, though not of one that still is.          *)
(***************************************************************************)
OneVerdict ==
  /\ ~contested =>
       /\ Len(verdicts) <= 1
       /\ kind = "inquiry" =>
            Cardinality({i \in DOMAIN chosen : chosen[i]})
              = IF status = "CLOSED" THEN 1 ELSE 0
       /\ active /\ ~cut /\ (\A c \in Clients : job[c] = NoJob)
            => status = "APPROVED"
  /\ made > 0 => \E i \in DOMAIN verdicts : verdicts[i] \in {"ACCEPTED", "APPROVED"}
=============================================================================
