---------------------------- MODULE SupplyProofs ----------------------------
(***************************************************************************)
(* Theorems about supply and planning: inquiries and other documents that  *)
(* are decided (Documents), purchase orders and their receipts             *)
(* (Purchasing), outsourcing orders, their issues and receipts             *)
(* (Outsourcing), the schedule of the resources (Scheduling), for any      *)
(* number of documents, lines, rows and requests.                          *)
(***************************************************************************)
EXTENDS Documents, Purchasing, Outsourcing, Scheduling, SumProofs

-----------------------------------------------------------------------------
(***************************************************************************)
(* A document is decided once, for any number of requests and suppliers.   *)
(*                                                                         *)
(* OneVerdict is not inductive.  The step that saves a status writes what  *)
(* a request chose when it read the document: the invariant says that the  *)
(* step is still one the document can take (StepIsLegal), that a status    *)
(* from which a decision can be reached has seen none (UndecidedYet), and  *)
(* that whoever writes an inquiry has the rows that are there              *)
(* (SnapshotIsFresh).                                                      *)
(***************************************************************************)

Targets == {s[2] : s \in UNION Range(StepsOf)}
DocStatus == {"SENT", "COMPARING", "CLOSED"} \cup Range(FirstStatus) \cup Targets

StepJobs == [op : {"step"}, to : Targets, stage : {"activate", "save"}]
MakeJobs == [op : {"make"}, stage : {"insert"}]
SendJobs == [op : {"send"}, stage : {"commit"}]
QuoteJobs == [op : {"quote"}, stage : {"commit"}, from : {"SENT", "COMPARING"}]
SelectJobs == [op : {"select"}, stage : {"commit"}, line : Nat,
               snapshot : Seq(BOOLEAN)]
InquiryOps == {"send", "quote", "select"}
DocJobs == StepJobs \cup MakeJobs \cup SendJobs \cup QuoteJobs \cup SelectJobs
           \cup {NoJob}

-----------------------------------------------------------------------------
OneAtWork ==
  ~contested => \A c, d \in Clients : job[c] # NoJob /\ job[d] # NoJob => c = d

StepIsLegal ==
  \A c \in Clients : job[c].op = "step" =>
    /\ kind # "inquiry"
    /\ ~contested => <<status, job[c].to>> \in StepsOf[kind]

\* The statuses from which a document can come to be decided.
Undecided ==
  {"DRAFT", "PENDING", "SENT", "SUBMITTED", "INSPECTING", "ACTIVE",
   "QUALIFICATION_REVIEW", "SITE_AUDIT", "SAMPLE_TEST", "PILOT_RUN"}

UndecidedYet ==
  ~contested => Len(verdicts) <= 1 /\ (status \in Undecided => verdicts = << >>)

DecidedIsKept ==
  status \in Decisions => \E i \in DOMAIN verdicts : verdicts[i] = status

Accepted == \E i \in DOMAIN verdicts : verdicts[i] \in {"ACCEPTED", "APPROVED"}

MadeOfAccepted ==
  made > 0 \/ (\E c \in Clients : job[c].op = "make") => Accepted

SnapshotIsFresh ==
  \A c \in Clients :
    /\ job[c].op \in InquiryOps => kind = "inquiry"
    /\ ~contested /\ job[c].op = "send" => status = "DRAFT"
    /\ ~contested /\ job[c].op = "quote" => status \in {"SENT", "COMPARING"}
    /\ ~contested /\ job[c].op = "select" =>
         /\ status # "CLOSED"
         /\ job[c].snapshot = chosen /\ job[c].line \in DOMAIN chosen

OneSupplier ==
  /\ kind = "inquiry" => verdicts = << >>
  /\ ~contested /\ kind = "inquiry" =>
       /\ status # "CLOSED" => \A i \in DOMAIN chosen : ~chosen[i]
       /\ status = "CLOSED" => \E i \in DOMAIN chosen :
                                 \A k \in DOMAIN chosen : chosen[k] = (k = i)

SupplierIsApproved ==
  /\ active => kind = "onboarding"
  /\ \A c \in Clients : At(c, "step", "activate") =>
       kind = "onboarding" /\ job[c].to = "APPROVED"
  /\ ~contested /\ active /\ ~cut =>
       \/ status = "APPROVED"
       \/ \E c \in Clients : At(c, "step", "save") /\ job[c].to = "APPROVED"

DocInv ==
  /\ DocTypeOK
  /\ job \in [Clients -> DocJobs]
  /\ OneAtWork /\ StepIsLegal /\ UndecidedYet /\ DecidedIsKept /\ MadeOfAccepted
  /\ SnapshotIsFresh /\ OneSupplier /\ SupplierIsApproved

-----------------------------------------------------------------------------
(* Lemmas on the steps and the requests *)

DocKinds == {"request", "agreement", "asn", "onboarding", "quotation", "salesReturn",
             "nc", "ecr", "inquiry"}

LEMMA KindsAre == DOMAIN StepsOf = DocKinds /\ DOMAIN FirstStatus = DocKinds
BY DEF StepsOf, FirstStatus, DocKinds

LEMMA OnboardingStepsAre ==
  OnboardingSteps =
    {<<"QUALIFICATION_REVIEW", "SITE_AUDIT">>, <<"SITE_AUDIT", "SAMPLE_TEST">>,
     <<"SAMPLE_TEST", "PILOT_RUN">>, <<"PILOT_RUN", "APPROVED">>,
     <<"QUALIFICATION_REVIEW", "REJECTED">>, <<"SITE_AUDIT", "REJECTED">>,
     <<"SAMPLE_TEST", "REJECTED">>, <<"PILOT_RUN", "REJECTED">>}
<1>1. DOMAIN Stages = {1, 2, 3, 4} /\ Len(Stages) = 4
  BY DEF Stages
<1>2. /\ Stages[1] = "QUALIFICATION_REVIEW" /\ Stages[2] = "SITE_AUDIT"
      /\ Stages[3] = "SAMPLE_TEST" /\ Stages[4] = "PILOT_RUN"
  BY DEF Stages
<1> QED
  BY <1>1, <1>2 DEF OnboardingSteps

\* A decision is taken of a document that is not decided, which it never is again.
LEMMA StepsDecideOnce ==
  ASSUME NEW k \in DocKinds, NEW s \in StepsOf[k]
  PROVE  /\ s = <<s[1], s[2]>> /\ k # "inquiry"
         /\ s[2] \in Decisions \cup Undecided => s[1] \in Undecided
         /\ k = "onboarding" => s[1] # "APPROVED"
BY OnboardingStepsAre
   DEF DocKinds, StepsOf, RequestSteps, AgreementSteps, AsnSteps, QuotationSteps,
       ReturnSteps, NcSteps, EcrSteps, Decisions, Undecided

LEMMA StepsAreTargets ==
  ASSUME NEW k \in DocKinds, NEW s \in StepsOf[k]
  PROVE  s[2] \in Targets
<1>1. StepsOf[k] \in Range(StepsOf)
  BY KindsAre DEF Range
<1> QED
  BY <1>1 DEF Targets

LEMMA DocJobStays ==
  ASSUME NEW c \in Clients, NEW j \in DocJobs,
         job \in [Clients -> DocJobs], job' = [job EXCEPT ![c] = j]
  PROVE  /\ job' \in [Clients -> DocJobs] /\ job'[c] = j
         /\ \A d \in Clients \ {c} : job'[d] = job[d]
OBVIOUS

LEMMA KindsOfDocJobs ==
  ASSUME NEW j \in DocJobs
  PROVE  /\ j.op = "step" => j \in StepJobs
         /\ j.op = "make" => j \in MakeJobs
         /\ j.op = "quote" => j \in QuoteJobs
         /\ j.op = "select" => j \in SelectJobs
         /\ j.op \in {"step", "make"} \cup InquiryOps <=> j # NoJob
BY DEF DocJobs, StepJobs, MakeJobs, SendJobs, QuoteJobs, SelectJobs, InquiryOps, NoJob

-----------------------------------------------------------------------------
(* Requests that read, and requests that write *)

\* A request reads the document; alone, it finds nobody else at work.
LEMMA ReadKeeps ==
  ASSUME DocInv, NEW c \in Clients, NEW j \in DocJobs, job[c] = NoJob,
         j.op = "step" => /\ <<status, j.to>> \in StepsOf[kind]
                          /\ j.stage = "activate" => kind = "onboarding" /\ j.to = "APPROVED",
         j.op = "make" => Accepted,
         j.op \in InquiryOps => kind = "inquiry",
         j.op = "send" => status = "DRAFT",
         j.op = "quote" => status \in {"SENT", "COMPARING"},
         j.op = "select" => /\ status # "CLOSED"
                            /\ j.snapshot = chosen /\ j.line \in DOMAIN chosen,
         job' = [job EXCEPT ![c] = j], Contend,
         UNCHANGED <<kind, status, chosen, active, made, verdicts, cut>>
  PROVE  DocInv'
<1>1. /\ job' \in [Clients -> DocJobs] /\ job'[c] = j
      /\ \A d \in Clients \ {c} : job'[d] = job[d]
  BY DocJobStays DEF DocInv
<1>2. ~contested' => ~contested /\ \A d \in Clients : job[d] = NoJob
  BY DEF Contend
<1>3. ~contested' => \A d \in Clients \ {c} : job'[d] = NoJob
  BY <1>1, <1>2
<1>4. NoJob.op \notin {"step", "make"} \cup InquiryOps
  BY DEF NoJob, InquiryOps
<1>5. DocTypeOK'
  BY DEF DocInv, DocTypeOK, Contend
<1>6. OneAtWork'
  BY <1>3 DEF OneAtWork
<1>7. StepIsLegal'
  <2>1. kind \in DocKinds
    BY KindsAre DEF DocInv, DocTypeOK
  <2>2. j.op = "step" => kind # "inquiry"
    BY <2>1, StepsDecideOnce
  <2> QED
    BY <1>1, <1>3, <1>4, <2>2 DEF DocInv, StepIsLegal
<1>8. UndecidedYet' /\ DecidedIsKept'
  BY <1>2 DEF DocInv, UndecidedYet, DecidedIsKept
<1>9. MadeOfAccepted'
  <2>1. Accepted' <=> Accepted
    BY DEF Accepted
  <2> QED
    BY <1>1, <2>1 DEF DocInv, MadeOfAccepted
<1>10. SnapshotIsFresh'
  <2> SUFFICES ASSUME NEW d \in Clients
               PROVE  /\ job'[d].op \in InquiryOps => kind = "inquiry"
                      /\ ~contested' /\ job'[d].op = "send" => status = "DRAFT"
                      /\ ~contested' /\ job'[d].op = "quote"
                           => status \in {"SENT", "COMPARING"}
                      /\ ~contested' /\ job'[d].op = "select" =>
                           /\ status # "CLOSED"
                           /\ job'[d].snapshot = chosen /\ job'[d].line \in DOMAIN chosen
    BY DEF SnapshotIsFresh
  <2> QED
    BY <1>1, <1>3, <1>4 DEF DocInv, SnapshotIsFresh, InquiryOps
<1>11. OneSupplier'
  BY <1>2 DEF DocInv, OneSupplier
<1>12. SupplierIsApproved'
  <2>1. \A d \in Clients : At(d, "step", "activate")' =>
          kind = "onboarding" /\ job'[d].to = "APPROVED"
    BY <1>1 DEF DocInv, SupplierIsApproved, At
  <2>2. ~contested' /\ active /\ ~cut => status = "APPROVED"
    BY <1>2, <1>4 DEF DocInv, SupplierIsApproved, At
  <2> QED
    BY <2>1, <2>2 DEF DocInv, SupplierIsApproved
<1> QED
  BY <1>1, <1>5, <1>6, <1>7, <1>8, <1>9, <1>10, <1>11, <1>12 DEF DocInv

\* A request ends; alone, it leaves nobody at work.
LEMMA RequestEnds ==
  ASSUME DocInv, NEW c \in Clients, job[c] # NoJob, job' = [job EXCEPT ![c] = NoJob],
         UNCHANGED <<kind, contested>>
  PROVE  /\ job' \in [Clients -> DocJobs]
         /\ \A d \in Clients \ {c} : job'[d] = job[d]
         /\ ~contested => \A d \in Clients : job'[d] = NoJob
         /\ OneAtWork' /\ StepIsLegal' /\ SnapshotIsFresh'
         /\ \A d \in Clients : At(d, "step", "activate")' =>
              kind' = "onboarding" /\ job'[d].to = "APPROVED"
         /\ \A d \in Clients : job'[d].op = "make" => job[d].op = "make"
<1>1. /\ job' \in [Clients -> DocJobs] /\ job'[c] = NoJob
      /\ \A d \in Clients \ {c} : job'[d] = job[d]
  BY DocJobStays DEF DocInv, DocJobs
<1>2. ~contested => \A d \in Clients : job'[d] = NoJob
  BY <1>1 DEF DocInv, OneAtWork
<1>3. NoJob.op \notin {"step", "make"} \cup InquiryOps
  BY DEF NoJob, InquiryOps
<1>4. OneAtWork' /\ StepIsLegal'
  BY <1>1, <1>2, <1>3 DEF DocInv, OneAtWork, StepIsLegal
<1>5. SnapshotIsFresh'
  <2>1. \A d \in Clients : job'[d].op \in InquiryOps => kind' = "inquiry"
    BY <1>1, <1>3 DEF DocInv, SnapshotIsFresh
  <2>2. ~contested' => \A d \in Clients : job'[d].op \notin InquiryOps
    BY <1>2, <1>3
  <2> QED
    BY <2>1, <2>2 DEF SnapshotIsFresh, InquiryOps
<1>6. \A d \in Clients : At(d, "step", "activate")' =>
              kind' = "onboarding" /\ job'[d].to = "APPROVED"
  BY <1>1, <1>3 DEF DocInv, SupplierIsApproved, At
<1> QED
  BY <1>1, <1>2, <1>3, <1>4, <1>5, <1>6

\* What the decisions have been follows from the status saved.
LEMMA SavedKeeps ==
  ASSUME DocInv, NEW s \in DocStatus, Saved(s), UNCHANGED contested,
         ~contested /\ s \in Decisions \cup Undecided => status \in Undecided
  PROVE  /\ verdicts' \in Seq(Decisions) /\ status' = s
         /\ UndecidedYet' /\ DecidedIsKept'
         /\ Accepted => Accepted'
<1>1. CASE s \in Decisions
  <2>1. verdicts \in Seq(Decisions) /\ verdicts' = Append(verdicts, s) /\ status' = s
    BY <1>1 DEF Saved, DocInv, DocTypeOK
  <2>2. /\ verdicts' \in Seq(Decisions) /\ Len(verdicts') = Len(verdicts) + 1
        /\ DOMAIN verdicts \subseteq DOMAIN verdicts'
        /\ \A i \in DOMAIN verdicts : verdicts'[i] = verdicts[i]
        /\ Len(verdicts) + 1 \in DOMAIN verdicts' /\ verdicts'[Len(verdicts) + 1] = s
    BY <1>1, <2>1
  <2>3. s \notin Undecided
    BY <1>1 DEF Decisions, Undecided
  <2>4. ~contested => verdicts = << >>
    BY <1>1 DEF DocInv, UndecidedYet
  <2>5. UndecidedYet'
    BY <2>1, <2>2, <2>3, <2>4 DEF UndecidedYet
  <2>6. DecidedIsKept' /\ (Accepted => Accepted')
    BY <2>1, <2>2 DEF DecidedIsKept, Accepted
  <2> QED
    BY <2>1, <2>2, <2>5, <2>6
<1>2. CASE s \notin Decisions
  <2>1. verdicts' = verdicts /\ status' = s
    BY <1>2 DEF Saved
  <2> QED
    BY <1>2, <2>1 DEF DocInv, DocTypeOK, UndecidedYet, DecidedIsKept, Accepted
<1> QED
  BY <1>1, <1>2

-----------------------------------------------------------------------------
(* One lemma per action *)

LEMMA TakeStepKeeps ==
  ASSUME DocInv, NEW c \in Clients, TakeStep(c)
  PROVE  DocInv'
<1> PICK step \in StepsOf[kind] :
      /\ status = step[1]
      /\ Accept(c, [op |-> "step", to |-> step[2],
                    stage |-> IF kind = "onboarding" /\ step[2] = "APPROVED"
                              THEN "activate" ELSE "save"])
  BY DEF TakeStep
<1> DEFINE j == [op |-> "step", to |-> step[2],
                 stage |-> IF kind = "onboarding" /\ step[2] = "APPROVED"
                           THEN "activate" ELSE "save"]
<1>1. kind \in DocKinds
  BY KindsAre DEF DocInv, DocTypeOK
<1>2. step = <<status, step[2]>> /\ step[2] \in Targets
  BY <1>1, StepsDecideOnce, StepsAreTargets
<1>3. j \in DocJobs
  BY <1>2 DEF DocJobs, StepJobs
<1>4. /\ j.op = "step" /\ <<status, j.to>> \in StepsOf[kind]
      /\ j.stage = "activate" => kind = "onboarding" /\ j.to = "APPROVED"
  BY <1>2
<1>5. job[c] = NoJob /\ job' = [job EXCEPT ![c] = j]
  BY DEF Accept
<1>6. Contend /\ UNCHANGED <<kind, status, chosen, active, made, verdicts, cut>>
  BY DEF TakeStep
<1> HIDE DEF j
<1> QED
  BY <1>3, <1>4, <1>5, <1>6, ReadKeeps DEF InquiryOps

LEMMA ActivateSupplierKeeps ==
  ASSUME DocInv, NEW c \in Clients, ActivateSupplier(c)
  PROVE  DocInv'
<1> DEFINE j == [job[c] EXCEPT !.stage = "save"]
<1>1. /\ job[c] \in StepJobs /\ kind = "onboarding" /\ job[c].to = "APPROVED"
      /\ At(c, "step", "activate") /\ job[c].op = "step" /\ job[c] # NoJob
  BY KindsOfDocJobs DEF ActivateSupplier, At, DocInv, SupplierIsApproved
<1>2. /\ j \in StepJobs /\ j.op = "step" /\ j.to = "APPROVED" /\ j.stage = "save"
  BY <1>1 DEF StepJobs
<1>3. /\ job' = [job EXCEPT ![c] = j] /\ active' = TRUE
      /\ UNCHANGED <<kind, status, chosen, made, verdicts, contested, cut>>
  BY DEF ActivateSupplier, Continue
<1> HIDE DEF j
<1>4. /\ job' \in [Clients -> DocJobs] /\ job'[c] = j
      /\ \A d \in Clients \ {c} : job'[d] = job[d]
  BY <1>2, <1>3, DocJobStays DEF DocInv, DocJobs
<1>5. DocTypeOK' /\ UndecidedYet' /\ DecidedIsKept' /\ OneSupplier'
  BY <1>3 DEF DocInv, DocTypeOK, UndecidedYet, DecidedIsKept, OneSupplier
<1>6. OneAtWork'
  BY <1>1, <1>3, <1>4 DEF DocInv, OneAtWork
<1>7. StepIsLegal'
  BY <1>1, <1>2, <1>3, <1>4 DEF DocInv, StepIsLegal
<1>8. MadeOfAccepted'
  BY <1>2, <1>3, <1>4 DEF DocInv, MadeOfAccepted, Accepted
<1>9. SnapshotIsFresh'
  BY <1>2, <1>3, <1>4 DEF DocInv, SnapshotIsFresh, InquiryOps
<1>10. SupplierIsApproved'
  BY <1>1, <1>2, <1>3, <1>4 DEF DocInv, SupplierIsApproved, At
<1> QED
  BY <1>4, <1>5, <1>6, <1>7, <1>8, <1>9, <1>10 DEF DocInv

LEMMA SaveStepKeeps ==
  ASSUME DocInv, NEW c \in Clients, SaveStep(c)
  PROVE  DocInv'
<1> DEFINE s == job[c].to
<1>1. /\ job[c] \in StepJobs /\ job[c].op = "step" /\ job[c] # NoJob /\ s \in DocStatus
  BY KindsOfDocJobs DEF SaveStep, At, DocInv, StepJobs, DocStatus
<1>2. /\ job' = [job EXCEPT ![c] = NoJob] /\ Saved(s)
      /\ UNCHANGED <<kind, chosen, active, made, contested, cut>>
  BY DEF SaveStep, Reply, Continue
<1>3. kind \in DocKinds /\ kind # "inquiry"
  BY <1>1, KindsAre DEF DocInv, DocTypeOK, StepIsLegal
<1>4. ~contested => <<status, s>> \in StepsOf[kind]
  BY <1>1 DEF DocInv, StepIsLegal
<1>5. ~contested /\ s \in Decisions \cup Undecided => status \in Undecided
  BY <1>3, <1>4, StepsDecideOnce
<1>6. ~contested /\ kind = "onboarding" => status # "APPROVED"
  BY <1>3, <1>4, StepsDecideOnce
<1>7. At(c, "step", "save")
  BY DEF SaveStep
<1> HIDE DEF s
<1>8. /\ verdicts' \in Seq(Decisions) /\ status' = s
      /\ UndecidedYet' /\ DecidedIsKept' /\ (Accepted => Accepted')
  BY <1>1, <1>2, <1>5, SavedKeeps
<1>9. /\ job' \in [Clients -> DocJobs] /\ OneAtWork' /\ StepIsLegal' /\ SnapshotIsFresh'
      /\ \A d \in Clients : At(d, "step", "activate")' =>
           kind' = "onboarding" /\ job'[d].to = "APPROVED"
      /\ \A d \in Clients : job'[d].op = "make" => job[d].op = "make"
      /\ ~contested => \A d \in Clients : job'[d] = NoJob
  BY <1>1, <1>2, RequestEnds
<1>10. DocTypeOK'
  BY <1>1, <1>2, <1>8 DEF DocInv, DocTypeOK, DocStatus, Targets
<1>11. MadeOfAccepted'
  BY <1>2, <1>8, <1>9 DEF DocInv, MadeOfAccepted
<1>12. OneSupplier'
  BY <1>2, <1>3 DEF OneSupplier
<1>13. SupplierIsApproved'
  <2>1. ASSUME ~contested, active, ~cut PROVE s = "APPROVED"
    <3>1. kind = "onboarding" /\ status # "APPROVED"
      BY <1>6, <2>1 DEF DocInv, SupplierIsApproved
    <3>2. PICK d \in Clients : At(d, "step", "save") /\ job[d].to = "APPROVED"
      BY <2>1, <3>1 DEF DocInv, SupplierIsApproved
    <3>3. job[d] # NoJob
      BY <3>2 DEF At, NoJob
    <3>4. d = c
      BY <1>1, <2>1, <3>3 DEF DocInv, OneAtWork
    <3> QED
      BY <3>2, <3>4 DEF s
  <2> QED
    BY <1>2, <1>8, <1>9, <2>1 DEF DocInv, SupplierIsApproved
<1> QED
  BY <1>8, <1>9, <1>10, <1>11, <1>12, <1>13 DEF DocInv

LEMMA AutoExpireKeeps == ASSUME DocInv, AutoExpire PROVE DocInv'
<1>1. /\ kind = "agreement" /\ status = "ACTIVE" /\ Saved("EXPIRED") /\ Contend
      /\ UNCHANGED <<job, kind, chosen, active, made, cut>>
  BY DEF AutoExpire, Once
<1>2. verdicts \in Seq(Decisions) /\ status' = "EXPIRED"
      /\ verdicts' = Append(verdicts, "EXPIRED")
  BY <1>1 DEF Saved, Decisions, DocInv, DocTypeOK
<1>3. /\ verdicts' \in Seq(Decisions) /\ Len(verdicts') = Len(verdicts) + 1
      /\ DOMAIN verdicts \subseteq DOMAIN verdicts'
      /\ \A i \in DOMAIN verdicts : verdicts'[i] = verdicts[i]
      /\ Len(verdicts) + 1 \in DOMAIN verdicts'
      /\ verdicts'[Len(verdicts) + 1] = "EXPIRED"
  BY <1>2 DEF Decisions
<1>4. ~contested' => ~contested /\ \A d \in Clients : job[d] = NoJob
  BY <1>1 DEF Contend
<1>5. NoJob.op \notin {"step", "make"} \cup InquiryOps
  BY DEF NoJob, InquiryOps
<1>6. UndecidedYet'
  <2>1. ~contested' => verdicts = << >>
    BY <1>1, <1>4 DEF DocInv, UndecidedYet, Undecided
  <2> QED
    BY <1>2, <1>3, <2>1 DEF UndecidedYet, Undecided
<1>7. DecidedIsKept' /\ (Accepted => Accepted')
  BY <1>2, <1>3 DEF DecidedIsKept, Accepted
<1>8. DocTypeOK'
  <2>1. "EXPIRED" \in DocStatus
    <3>1. <<"ACTIVE", "EXPIRED">> \in StepsOf["agreement"]
      BY DEF StepsOf, AgreementSteps
    <3> QED
      BY <3>1, StepsAreTargets DEF DocStatus, DocKinds
  <2> QED
    BY <1>1, <1>2, <1>3, <2>1 DEF DocInv, DocTypeOK, DocStatus, Targets, Contend
<1>9. OneAtWork' /\ StepIsLegal' /\ SnapshotIsFresh'
  BY <1>1, <1>4, <1>5 DEF DocInv, OneAtWork, StepIsLegal, SnapshotIsFresh, InquiryOps
<1>10. MadeOfAccepted'
  BY <1>1, <1>7 DEF DocInv, MadeOfAccepted
<1>11. OneSupplier'
  BY <1>1 DEF OneSupplier
<1>12. SupplierIsApproved'
  BY <1>1 DEF DocInv, SupplierIsApproved, At
<1> QED
  BY <1>1, <1>3, <1>6, <1>7, <1>8, <1>9, <1>10, <1>11, <1>12 DEF DocInv

LEMMA ReadToMakeKeeps ==
  ASSUME DocInv, NEW c \in Clients, ReadToMake(c)
  PROVE  DocInv'
<1> DEFINE j == [op |-> "make", stage |-> "insert"]
<1>1. j \in DocJobs /\ j.op = "make"
  BY DEF DocJobs, MakeJobs
<1>2. Accepted
  <2>1. status \in {"ACCEPTED", "APPROVED"} /\ status \in Decisions
    BY DEF ReadToMake, Decisions
  <2> QED
    BY <2>1 DEF DocInv, DecidedIsKept, Accepted
<1>3. /\ job[c] = NoJob /\ job' = [job EXCEPT ![c] = j] /\ Contend
      /\ UNCHANGED <<kind, status, chosen, active, made, verdicts, cut>>
  BY DEF ReadToMake, Accept
<1> HIDE DEF j
<1> QED
  BY <1>1, <1>2, <1>3, ReadKeeps DEF InquiryOps

LEMMA MakeKeeps == ASSUME DocInv, NEW c \in Clients, Make(c) PROVE DocInv'
<1>1. /\ job[c].op = "make" /\ job[c] # NoJob /\ job' = [job EXCEPT ![c] = NoJob]
      /\ made' = made + 1
      /\ UNCHANGED <<kind, status, chosen, active, verdicts, contested, cut>>
  BY DEF Make, At, Reply, Continue, NoJob
<1>2. /\ job' \in [Clients -> DocJobs] /\ OneAtWork' /\ StepIsLegal' /\ SnapshotIsFresh'
      /\ \A d \in Clients : At(d, "step", "activate")' =>
           kind' = "onboarding" /\ job'[d].to = "APPROVED"
      /\ \A d \in Clients \ {c} : job'[d] = job[d]
  BY <1>1, RequestEnds
<1>3. DocTypeOK' /\ UndecidedYet' /\ DecidedIsKept' /\ OneSupplier'
  BY <1>1 DEF DocInv, DocTypeOK, UndecidedYet, DecidedIsKept, OneSupplier
<1>4. MadeOfAccepted'
  BY <1>1 DEF DocInv, MadeOfAccepted, Accepted
<1>5. SupplierIsApproved'
  BY <1>1, <1>2 DEF DocInv, SupplierIsApproved, At
<1> QED
  BY <1>2, <1>3, <1>4, <1>5 DEF DocInv

LEMMA BeginInquiryKeeps ==
  ASSUME DocInv, NEW c \in Clients, BeginInquiry(c)
  PROVE  DocInv'
<1>1. /\ kind = "inquiry" /\ Contend
      /\ UNCHANGED <<kind, status, chosen, active, made, verdicts, cut>>
  BY DEF BeginInquiry
<1>2. CASE status = "DRAFT" /\ Accept(c, [op |-> "send", stage |-> "commit"])
  <2> DEFINE j == [op |-> "send", stage |-> "commit"]
  <2>1. j \in DocJobs /\ j.op = "send"
    BY DEF DocJobs, SendJobs
  <2>2. job[c] = NoJob /\ job' = [job EXCEPT ![c] = j]
    BY <1>2 DEF Accept
  <2> HIDE DEF j
  <2> QED
    BY <1>1, <1>2, <2>1, <2>2, ReadKeeps
<1>3. CASE /\ status \in {"SENT", "COMPARING"}
           /\ Accept(c, [op |-> "quote", stage |-> "commit", from |-> status])
  <2> DEFINE j == [op |-> "quote", stage |-> "commit", from |-> status]
  <2>1. j \in DocJobs /\ j.op = "quote"
    BY <1>3 DEF DocJobs, QuoteJobs
  <2>2. job[c] = NoJob /\ job' = [job EXCEPT ![c] = j]
    BY <1>3 DEF Accept
  <2> HIDE DEF j
  <2> QED
    BY <1>1, <1>3, <2>1, <2>2, ReadKeeps
<1>4. ASSUME status # "CLOSED", NEW i \in DOMAIN chosen,
             Accept(c, [op |-> "select", stage |-> "commit", line |-> i,
                        snapshot |-> chosen])
      PROVE  DocInv'
  <2> DEFINE j == [op |-> "select", stage |-> "commit", line |-> i, snapshot |-> chosen]
  <2>1. /\ j \in DocJobs /\ j.op = "select"
        /\ j.snapshot = chosen /\ j.line \in DOMAIN chosen
    BY DEF DocJobs, SelectJobs, DocInv, DocTypeOK
  <2>2. job[c] = NoJob /\ job' = [job EXCEPT ![c] = j]
    BY <1>4 DEF Accept
  <2> HIDE DEF j
  <2> QED
    BY <1>1, <1>4, <2>1, <2>2, ReadKeeps
<1> QED
  BY <1>2, <1>3, <1>4 DEF BeginInquiry

LEMMA BooleansInARow ==
  ASSUME NEW n \in Nat, NEW f \in [1..n -> BOOLEAN]
  PROVE  f \in Seq(BOOLEAN)
OBVIOUS

\* A request writes an inquiry, and its status, which is no decision.
LEMMA InquiryWriteKeeps ==
  ASSUME DocInv, NEW c \in Clients, job[c].op \in InquiryOps,
         job' = [job EXCEPT ![c] = NoJob], status' \in {"SENT", "COMPARING", "CLOSED"},
         ~contested /\ status' = "SENT" => status \in Undecided,
         verdicts' = verdicts, chosen' \in Seq(BOOLEAN), OneSupplier',
         UNCHANGED <<kind, active, made, contested, cut>>
  PROVE  DocInv'
<1>1. kind = "inquiry" /\ job[c] # NoJob
  BY KindsOfDocJobs DEF DocInv, SnapshotIsFresh
<1>2. verdicts = << >>
  BY <1>1 DEF DocInv, OneSupplier
<1>3. /\ job' \in [Clients -> DocJobs] /\ OneAtWork' /\ StepIsLegal' /\ SnapshotIsFresh'
      /\ \A d \in Clients : At(d, "step", "activate")' =>
           kind' = "onboarding" /\ job'[d].to = "APPROVED"
      /\ \A d \in Clients : job'[d].op = "make" => job[d].op = "make"
  BY <1>1, RequestEnds
<1>4. DocTypeOK'
  BY DEF DocInv, DocTypeOK
<1>5. UndecidedYet'
  BY <1>2 DEF UndecidedYet
<1>6. DecidedIsKept'
  BY DEF DecidedIsKept, Decisions
<1>7. MadeOfAccepted'
  BY <1>3 DEF DocInv, MadeOfAccepted, Accepted
<1>8. SupplierIsApproved'
  BY <1>1, <1>3 DEF DocInv, SupplierIsApproved
<1> QED
  BY <1>3, <1>4, <1>5, <1>6, <1>7, <1>8 DEF DocInv

LEMMA SendInquiryKeeps ==
  ASSUME DocInv, NEW c \in Clients, SendInquiry(c)
  PROVE  DocInv'
<1> DEFINE asked == [i \in DOMAIN Suppliers |-> FALSE]
<1>1. /\ job[c].op = "send" /\ job[c].op \in InquiryOps
      /\ job' = [job EXCEPT ![c] = NoJob] /\ chosen' = chosen \o asked
      /\ status' = "SENT" /\ verdicts' = verdicts
      /\ UNCHANGED <<kind, active, made, contested, cut>>
  <2>1. /\ At(c, "send", "commit") /\ chosen' = chosen \o asked /\ Saved("SENT")
        /\ Reply(c) /\ UNCHANGED <<kind, active, made, contested, cut>>
    BY DEF SendInquiry
  <2> HIDE DEF asked
  <2> QED
    BY <2>1 DEF At, Reply, Continue, Saved, Decisions, InquiryOps
<1>2. chosen \in Seq(BOOLEAN) /\ asked \in Seq(BOOLEAN)
  <2>1. Len(Suppliers) \in Nat /\ DOMAIN Suppliers = 1..Len(Suppliers)
    BY SuppliersAssumption
  <2>2. asked \in [1..Len(Suppliers) -> BOOLEAN]
    BY <2>1
  <2> HIDE DEF asked
  <2> QED
    BY <2>1, <2>2, BooleansInARow DEF DocInv, DocTypeOK
<1>3. \A i \in DOMAIN asked : ~asked[i]
  OBVIOUS
<1> HIDE DEF asked
<1>4. chosen' \in Seq(BOOLEAN)
  BY <1>1, <1>2
<1>5. OneSupplier'
  <2>1. ~contested => \A i \in DOMAIN chosen : ~chosen[i]
    BY <1>1 DEF DocInv, SnapshotIsFresh, OneSupplier, InquiryOps
  <2>2. ~contested => \A i \in DOMAIN chosen' : ~chosen'[i]
    BY <1>1, <1>2, <1>3, <2>1
  <2> QED
    BY <1>1, <2>2 DEF DocInv, OneSupplier
<1>6. ~contested => status \in Undecided
  BY <1>1 DEF DocInv, SnapshotIsFresh, Undecided
<1> QED
  BY <1>1, <1>4, <1>5, <1>6, InquiryWriteKeeps

LEMMA QuoteInquiryKeeps ==
  ASSUME DocInv, NEW c \in Clients, QuoteInquiry(c)
  PROVE  DocInv'
<1>1. /\ job[c].op = "quote" /\ job[c].op \in InquiryOps /\ job[c] \in QuoteJobs
      /\ job' = [job EXCEPT ![c] = NoJob] /\ verdicts' = verdicts
      /\ UNCHANGED <<kind, chosen, active, made, contested, cut>>
      /\ IF job[c].from = "SENT" THEN status' = "COMPARING" ELSE status' = status
  BY KindsOfDocJobs
     DEF QuoteInquiry, At, Reply, Continue, Saved, Decisions, InquiryOps, DocInv
<1>2. ~contested => status # "CLOSED" /\ status' # "CLOSED"
  BY <1>1 DEF DocInv, SnapshotIsFresh
<1>3. OneSupplier'
  BY <1>1, <1>2 DEF DocInv, OneSupplier
<1>4. CASE status' \in {"SENT", "COMPARING", "CLOSED"}
  <2>1. ~contested /\ status' = "SENT" => status \in Undecided
    BY <1>1 DEF Undecided
  <2>2. chosen' \in Seq(BOOLEAN)
    BY <1>1 DEF DocInv, DocTypeOK
  <2> QED
    BY <1>1, <1>3, <1>4, <2>1, <2>2, InquiryWriteKeeps
<1>5. CASE status' \notin {"SENT", "COMPARING", "CLOSED"}
  <2>1. status' = status /\ job[c] # NoJob
    BY <1>1, <1>5, KindsOfDocJobs DEF DocInv
  <2>2. /\ job' \in [Clients -> DocJobs] /\ OneAtWork' /\ StepIsLegal' /\ SnapshotIsFresh'
        /\ \A d \in Clients : At(d, "step", "activate")' =>
             kind' = "onboarding" /\ job'[d].to = "APPROVED"
        /\ \A d \in Clients : job'[d].op = "make" => job[d].op = "make"
    BY <1>1, <2>1, RequestEnds
  <2>3. DocTypeOK' /\ UndecidedYet' /\ DecidedIsKept' /\ MadeOfAccepted'
    BY <1>1, <2>1, <2>2
       DEF DocInv, DocTypeOK, UndecidedYet, DecidedIsKept, MadeOfAccepted, Accepted
  <2>4. SupplierIsApproved'
    BY <1>1, <2>2 DEF DocInv, SnapshotIsFresh, SupplierIsApproved
  <2> QED
    BY <1>3, <2>2, <2>3, <2>4 DEF DocInv
<1> QED
  BY <1>4, <1>5

LEMMA SelectSupplierKeeps ==
  ASSUME DocInv, NEW c \in Clients, SelectSupplier(c)
  PROVE  DocInv'
<1>1. /\ job[c].op = "select" /\ job[c].op \in InquiryOps /\ job[c] \in SelectJobs
      /\ job' = [job EXCEPT ![c] = NoJob]
      /\ chosen' = [i \in DOMAIN chosen |->
                      IF i \in DOMAIN job[c].snapshot
                         /\ job[c].snapshot[i] # (i = job[c].line)
                      THEN i = job[c].line ELSE chosen[i]]
      /\ status' = "CLOSED" /\ verdicts' = verdicts
      /\ UNCHANGED <<kind, active, made, contested, cut>>
  <2>1. /\ At(c, "select", "commit") /\ Saved("CLOSED") /\ Reply(c)
        /\ UNCHANGED <<kind, active, made, contested, cut>>
    BY DEF SelectSupplier
  <2>2. job[c].op = "select" /\ job[c].op \in InquiryOps /\ job[c] \in SelectJobs
    BY <2>1, KindsOfDocJobs DEF At, InquiryOps, DocInv
  <2> QED
    BY <2>1, <2>2 DEF SelectSupplier, Reply, Continue, Saved, Decisions
<1>2. chosen' \in Seq(BOOLEAN)
  <2>1. chosen \in Seq(BOOLEAN)
    BY DEF DocInv, DocTypeOK
  <2>2. Len(chosen) \in Nat /\ DOMAIN chosen = 1..Len(chosen)
    BY <2>1
  <2>3. \A i \in DOMAIN chosen : chosen[i] \in BOOLEAN
    BY <2>1
  <2>4. chosen' \in [1..Len(chosen) -> BOOLEAN]
    BY <1>1, <2>2, <2>3
  <2> QED
    BY <2>2, <2>4, BooleansInARow
<1>3. OneSupplier'
  <2>1. ASSUME ~contested
        PROVE  /\ job[c].line \in DOMAIN chosen'
               /\ \A k \in DOMAIN chosen' : chosen'[k] = (k = job[c].line)
    <3>1. job[c].snapshot = chosen /\ job[c].line \in DOMAIN chosen
      BY <1>1, <2>1 DEF DocInv, SnapshotIsFresh
    <3>2. \A k \in DOMAIN chosen : chosen[k] \in BOOLEAN
      BY DEF DocInv, DocTypeOK
    <3> QED
      BY <1>1, <3>1, <3>2
  <2> QED
    BY <1>1, <2>1 DEF DocInv, OneSupplier
<1> QED
  BY <1>1, <1>2, <1>3, InquiryWriteKeeps

LEMMA DocDieKeeps == ASSUME DocInv, NEW c \in Clients, DocDie(c) PROVE DocInv'
<1>1. /\ job[c] # NoJob /\ job' = [job EXCEPT ![c] = NoJob]
      /\ UNCHANGED <<kind, status, chosen, active, made, verdicts, contested>>
      /\ cut' = (cut \/ (active /\ At(c, "step", "save") /\ job[c].to = "APPROVED"))
  BY DEF DocDie, Reply, Continue
<1>2. /\ job' \in [Clients -> DocJobs] /\ OneAtWork' /\ StepIsLegal' /\ SnapshotIsFresh'
      /\ \A d \in Clients : At(d, "step", "activate")' =>
           kind' = "onboarding" /\ job'[d].to = "APPROVED"
      /\ \A d \in Clients \ {c} : job'[d] = job[d]
      /\ \A d \in Clients : job'[d].op = "make" => job[d].op = "make"
  BY <1>1, RequestEnds
<1>3. DocTypeOK' /\ UndecidedYet' /\ DecidedIsKept' /\ OneSupplier'
  BY <1>1 DEF DocInv, DocTypeOK, UndecidedYet, DecidedIsKept, OneSupplier, At
<1>4. MadeOfAccepted'
  BY <1>1, <1>2 DEF DocInv, MadeOfAccepted, Accepted
<1>5. SupplierIsApproved'
  BY <1>1, <1>2 DEF DocInv, SupplierIsApproved, At
<1> QED
  BY <1>2, <1>3, <1>4, <1>5 DEF DocInv

-----------------------------------------------------------------------------
LEMMA DocInitHolds == ReqInit /\ DocInit => DocInv
<1> SUFFICES ASSUME ReqInit, DocInit PROVE DocInv
  OBVIOUS
<1>1. /\ kind \in DocKinds /\ status = FirstStatus[kind] /\ chosen = << >> /\ ~active
      /\ made = 0 /\ verdicts = << >> /\ ~contested /\ ~cut
      /\ job = [c \in Clients |-> NoJob]
  BY KindsAre DEF DocInit, ReqInit
<1>2. NoJob.op \notin {"step", "make"} \cup InquiryOps
  BY DEF NoJob, InquiryOps
<1>3. status \in Range(FirstStatus) /\ status \notin Decisions
  <2>1. status \notin Decisions
    BY <1>1 DEF FirstStatus, DocKinds, Stages, Decisions
  <2>2. kind \in DOMAIN FirstStatus
    BY <1>1, KindsAre
  <2>3. FirstStatus[kind] \in Range(FirstStatus)
    BY <2>2 DEF Range
  <2> QED
    BY <1>1, <2>1, <2>3
<1>4. DocTypeOK
  <2>1. kind \in DOMAIN StepsOf
    BY <1>1, KindsAre
  <2>2. verdicts \in Seq(Decisions)
    BY <1>1
  <2>3. active \in BOOLEAN /\ contested \in BOOLEAN /\ cut \in BOOLEAN
    BY Zenon DEF DocInit
  <2>4. made \in Nat
    BY <1>1
  <2>5. chosen \in Seq(BOOLEAN)
    BY <1>1
  <2> QED
    BY <1>3, <2>1, <2>2, <2>3, <2>4, <2>5 DEF DocTypeOK
<1>5. kind = "inquiry" => status # "CLOSED"
  BY <1>1 DEF FirstStatus
<1>6. OneSupplier
  BY <1>1, <1>5 DEF OneSupplier
<1> QED
  BY <1>1, <1>2, <1>3, <1>4, <1>6
     DEF DocInv, DocJobs, OneAtWork, StepIsLegal, UndecidedYet, DecidedIsKept,
         MadeOfAccepted, SnapshotIsFresh, SupplierIsApproved, InquiryOps, At

LEMMA DocNextKeepsInv == DocInv /\ [DocNext]_docVars => DocInv'
<1> SUFFICES ASSUME DocInv, [DocNext]_docVars PROVE DocInv'
  OBVIOUS
<1>1. CASE UNCHANGED docVars
  BY <1>1
     DEF docVars, docData, reqVars, DocInv, DocTypeOK, OneAtWork, StepIsLegal,
         UndecidedYet, DecidedIsKept, MadeOfAccepted, Accepted, SnapshotIsFresh,
         OneSupplier, SupplierIsApproved, At
<1>2. ASSUME NEW c \in Clients,
             \/ TakeStep(c) \/ ActivateSupplier(c) \/ SaveStep(c)
             \/ ReadToMake(c) \/ Make(c)
             \/ BeginInquiry(c) \/ SendInquiry(c) \/ QuoteInquiry(c) \/ SelectSupplier(c)
             \/ DocDie(c)
      PROVE  DocInv'
  BY <1>2, TakeStepKeeps, ActivateSupplierKeeps, SaveStepKeeps, ReadToMakeKeeps,
     MakeKeeps, BeginInquiryKeeps, SendInquiryKeeps, QuoteInquiryKeeps,
     SelectSupplierKeeps, DocDieKeeps
<1> QED
  BY <1>1, <1>2, AutoExpireKeeps DEF DocNext

LEMMA DocInvHolds == DocSpec => []DocInv
BY DocInitHolds, DocNextKeepsInv, PTL DEF DocSpec

(***************************************************************************)
(* A document, the suppliers chosen in it and the decisions about it keep  *)
(* their types.                                                            *)
(***************************************************************************)
THEOREM DocumentIsTyped == DocSpec => []DocTypeOK
<1>1. DocInv => DocTypeOK
  BY DEF DocInv
<1> QED
  BY DocInvHolds, <1>1, PTL

(***************************************************************************)
(* A document that never had two requests at work on it is decided once,   *)
(* and its suppliers and what was made of it agree with the decision, for  *)
(* every kind of document and any number of requests and suppliers.        *)
(***************************************************************************)
THEOREM DocumentIsDecidedOnce == DocSpec => []OneVerdict
<1>1. DocInv => OneVerdict
  <2> SUFFICES ASSUME DocInv PROVE OneVerdict
    OBVIOUS
  <2> DEFINE C == {i \in DOMAIN chosen : chosen[i]}
  <2>1. made > 0 => \E i \in DOMAIN verdicts : verdicts[i] \in {"ACCEPTED", "APPROVED"}
    BY DEF DocInv, MadeOfAccepted, Accepted
  <2>2. ASSUME ~contested, kind = "inquiry"
        PROVE  Cardinality(C) = IF status = "CLOSED" THEN 1 ELSE 0
    <3>1. CASE status = "CLOSED"
      <4>1. PICK i \in DOMAIN chosen : \A k \in DOMAIN chosen : chosen[k] = (k = i)
        BY <2>2, <3>1 DEF DocInv, OneSupplier
      <4>2. C = {i}
        BY <4>1
      <4> HIDE DEF C
      <4>3. Cardinality(C) = 1
        BY <4>2, FS_Singleton
      <4> QED
        BY <3>1, <4>3
    <3>2. CASE status # "CLOSED"
      <4>1. C = {}
        BY <2>2, <3>2 DEF DocInv, OneSupplier
      <4> HIDE DEF C
      <4>2. Cardinality(C) = 0
        BY <4>1, FS_EmptySet
      <4> QED
        BY <3>2, <4>2
    <3> QED
      BY <3>1, <3>2
  <2>3. ASSUME ~contested, active, ~cut, \A c \in Clients : job[c] = NoJob
        PROVE  status = "APPROVED"
    BY <2>3 DEF DocInv, SupplierIsApproved, At, NoJob
  <2>4. ~contested => Len(verdicts) <= 1
    BY DEF DocInv, UndecidedYet
  <2> QED
    BY <2>1, <2>2, <2>3, <2>4 DEF OneVerdict
<1> QED
  BY DocInvHolds, <1>1, PTL

-----------------------------------------------------------------------------
(***************************************************************************)
(* The received quantity of a line is what its receipts were credited      *)
(* with, and the order is RECEIVED when its lines are closed.              *)
(*                                                                         *)
(* A receipt credits its items one by one, and reads the order again for   *)
(* each. The invariant knows of the request that does so that it is the    *)
(* only one for its receipt, which was accepted (DecidedAlone,             *)
(* CreditedInOrder), that the items it has still to do were never          *)
(* credited, and that what it has read of the line is the line             *)
(* (LinesAreFresh); each but for the receipts, lines and orders that the   *)
(* history of the model excepts.                                           *)
(***************************************************************************)

ConfirmPoJobs == [op : {"confirmPo"}, stage : {"write"}]
ChangePoJobs == [op : {"changePo"}, stage : {"write"}, line : PoLines, qty : Nat]
ReceiptJobs == [op : {"receipt"}, stage : {"write"}, receipt : Receipts,
                to : {"INSPECTING", "ACCEPTED", "REJECTED"}]
ItemCreditJobs == [op : {"receive"}, stage : {"item"}, receipt : Receipts, item : Nat]
LineCreditJobs == [op : {"receive"}, stage : {"credit"}, receipt : Receipts, item : Nat,
                   lines : [PoLines -> PoLine], po : PoStatus]
InspectJobs == [op : {"inspect"}, stage : {"create"}, receipt : Receipts]
PoJobs == ConfirmPoJobs \cup ChangePoJobs \cup ReceiptJobs \cup ItemCreditJobs
          \cup LineCreditJobs \cup InspectJobs \cup {NoJob}

\* A request decides on receipt r, or credits it.
Decides(j, r) == j.op = "receipt" /\ j.receipt = r
CreditsIt(j, r) == j.op = "receive" /\ j.receipt = r

\* A request that has read the order, and the line it is about to credit.
CreditsLine(j) == j.op = "receive" /\ j.stage = "credit"
LineOf(j) == Confirmed[j.receipt][j.item].line

ItemsAreThere ==
  \A c \in Clients : job[c].op = "receive" =>
    /\ job[c].item > 0
    /\ job[c].stage = "credit" => job[c].item \in DOMAIN Confirmed[job[c].receipt]

CreditsAreTyped ==
  /\ credits = [r \in Receipts |-> credits[r]]
  /\ \A r \in Receipts : credits[r] \in [DOMAIN Confirmed[r] -> Nat]

\* A receipt that no two requests decide on has the status the one has read.
DecidedAlone ==
  \A r \in Receipts \ decidedTwice : \A c \in Clients : Decides(job[c], r) =>
    /\ receipt[r] = IF job[c].to = "INSPECTING" THEN "PENDING" ELSE "INSPECTING"
    /\ \A d \in Clients : Decides(job[d], r) => c = d

\* It is credited by one request, once it is accepted, item by item.
CreditedInOrder ==
  \A r \in Receipts \ (poTorn \cup decidedTwice) :
    /\ receipt[r] # "ACCEPTED" =>
         /\ \A i \in DOMAIN Confirmed[r] : credits[r][i] = 0
         /\ \A c \in Clients : ~CreditsIt(job[c], r)
    /\ \A i \in DOMAIN Confirmed[r] : credits[r][i] <= 1
    /\ \A c \in Clients : CreditsIt(job[c], r) =>
         /\ \A i \in DOMAIN Confirmed[r] : i >= job[c].item => credits[r][i] = 0
         /\ \A d \in Clients : CreditsIt(job[d], r) => c = d

\* What was read of a line is what there is, until another request writes it.
LinesAreFresh ==
  \A c \in Clients : CreditsLine(job[c]) =>
    /\ LineOf(job[c]) \notin lateItems =>
         job[c].lines[LineOf(job[c])].received = poLine[LineOf(job[c])].received
    /\ ~latePo => /\ job[c].po = po
                  /\ \A l \in PoLines : job[c].lines[l].status = poLine[l].status

LinesAreCredited ==
  \A l \in PoLines \ lateItems :
    poLine[l].received = SumFunction([r \in Receipts |-> CreditOn(r, l)])

PoIsReceived ==
  ~latePo => (po = "RECEIVED" <=> /\ PoLines # {}
                                  /\ \A l \in PoLines : poLine[l].status = "CLOSED")

PoInv ==
  /\ PoTypeOK
  /\ CreditsAreTyped
  /\ job \in [Clients -> PoJobs]
  /\ ItemsAreThere /\ DecidedAlone /\ CreditedInOrder
  /\ LinesAreFresh /\ LinesAreCredited /\ PoIsReceived

-----------------------------------------------------------------------------
LEMMA JobsOfPo ==
  ASSUME NEW j \in PoJobs
  PROVE  /\ j.op \in {"confirmPo", "changePo", "receipt", "receive", "inspect", "none"}
         /\ j.op = "confirmPo" => j \in ConfirmPoJobs
         /\ j.op = "changePo" => j \in ChangePoJobs
         /\ j.op = "receipt" => j \in ReceiptJobs
         /\ j.op = "receive" => /\ j.receipt \in Receipts /\ j.item \in Nat
                                /\ j.stage = "item" \/ j.stage = "credit"
                                /\ j.stage = "credit" => j \in LineCreditJobs
         /\ j.op = "inspect" => j \in InspectJobs
BY DEF PoJobs, ConfirmPoJobs, ChangePoJobs, ReceiptJobs, ItemCreditJobs, LineCreditJobs,
       InspectJobs, NoJob

LEMMA NoPoJob == NoJob \in PoJobs /\ NoJob.op = "none"
BY DEF NoJob, PoJobs

\* The sums over items and receipts

LEMMA IsOfSequence ==
  ASSUME NEW S, NEW s \in Seq(S) PROVE \A i \in 1..Len(s) : s[i] \in S
OBVIOUS

LEMMA UpToIsFinite == ASSUME NEW n \in Nat PROVE IsFiniteSet(1..n)
BY FS_Interval

LEMMA ItemsAreFinite ==
  ASSUME NEW r \in Receipts
  PROVE  /\ IsFiniteSet(DOMAIN Confirmed[r])
         /\ \A i \in DOMAIN Confirmed[r] : /\ Confirmed[r][i].line \in PoLines
                                           /\ Confirmed[r][i].qty \in Nat \ {0}
<1>1. Confirmed[r] \in Seq([line : PoLines, qty : Nat \ {0}])
  BY ConfirmedAssumption
<1>2. DOMAIN Confirmed[r] = 1..Len(Confirmed[r]) /\ Len(Confirmed[r]) \in Nat
  BY <1>1
<1>3. IsFiniteSet(1..Len(Confirmed[r]))
  BY <1>2, UpToIsFinite
<1>4. \A i \in 1..Len(Confirmed[r]) :
        Confirmed[r][i] \in [line : PoLines, qty : Nat \ {0}]
  BY <1>1, <1>2, IsOfSequence
<1>5. \A x \in [line : PoLines, qty : Nat \ {0}] : x.line \in PoLines /\ x.qty \in Nat \ {0}
  OBVIOUS
<1> QED
  BY <1>2, <1>3, <1>4, <1>5

LEMMA CreditOnIsNat ==
  ASSUME CreditsAreTyped, NEW r \in Receipts, NEW l \in PoLines PROVE CreditOn(r, l) \in Int
<1> DEFINE f == [i \in DOMAIN Confirmed[r] |-> credits[r][i] * Confirmed[r][i].qty]
           S == {i \in DOMAIN Confirmed[r] : Confirmed[r][i].line = l}
<1>1. \A i \in S : f[i] \in Int
  <2> SUFFICES ASSUME NEW i \in DOMAIN Confirmed[r]
               PROVE credits[r][i] * Confirmed[r][i].qty \in Int
    OBVIOUS
  <2>1. credits[r][i] \in Nat /\ Confirmed[r][i].qty \in Nat
    BY ItemsAreFinite DEF CreditsAreTyped
  <2> QED
    BY <2>1
<1>2. IsFiniteSet(S)
  BY ItemsAreFinite, FS_Subset
<1> HIDE DEF f, S
<1>3. SumFunctionOnSet(f, S) \in Int
  BY <1>1, <1>2, SumIsInt
<1> QED
  BY <1>3 DEF CreditOn, f, S

LEMMA PoInitInv == ReqInit /\ PoInit => PoInv
<1> SUFFICES ASSUME ReqInit, PoInit PROVE PoInv
  OBVIOUS
<1>1. /\ job = [c \in Clients |-> NoJob] /\ NoJob \in PoJobs
      /\ poLine \in [PoLines -> {[quantity |-> q, received |-> 0,
                                  status |-> "OPEN"] : q \in PoOrdered}]
      /\ credits = [r \in Receipts |-> [i \in DOMAIN Confirmed[r] |-> 0]]
  BY NoPoJob DEF ReqInit, PoInit
<1>2. \A l \in PoLines : poLine[l] \in PoLine /\ poLine[l].received = 0 /\ poLine[l].status = "OPEN"
  BY <1>1, PoOrderedAssumption DEF PoLine, PoLineStatus
<1>3. \A c \in Clients : job[c].op = "none"
  BY <1>1 DEF NoJob
<1>4. CreditsAreTyped
  BY <1>1 DEF CreditsAreTyped
<1>5. PoTypeOK
  <2>1. poLine \in [PoLines -> PoLine]
    BY <1>1, <1>2
  <2>2. po \in PoStatus /\ receipt \in [Receipts -> ReceiptStatus]
        /\ redeliver \subseteq poTorn /\ poTorn \subseteq Receipts
        /\ inspected \in [Receipts -> Nat]
    BY DEF PoInit, PoStatus, ReceiptStatus
  <2>3. decidedTwice \subseteq Receipts /\ lateItems \subseteq PoLines
    BY DEF PoInit
  <2>4. latePo \in BOOLEAN
    BY Zenon DEF PoInit
  <2> QED
    BY <1>4, <2>1, <2>2, <2>3, <2>4 DEF PoTypeOK, CreditsAreTyped
<1>6. ItemsAreThere /\ DecidedAlone /\ LinesAreFresh
  BY <1>3 DEF ItemsAreThere, DecidedAlone, LinesAreFresh, Decides, CreditsLine
<1>7. CreditedInOrder
  BY <1>1, <1>3 DEF CreditedInOrder, CreditsIt
<1>8. \A r \in Receipts, l \in PoLines : CreditOn(r, l) = 0
  <2> SUFFICES ASSUME NEW r \in Receipts, NEW l \in PoLines PROVE CreditOn(r, l) = 0
    OBVIOUS
  <2> DEFINE f == [i \in DOMAIN Confirmed[r] |-> credits[r][i] * Confirmed[r][i].qty]
             S == {i \in DOMAIN Confirmed[r] : Confirmed[r][i].line = l}
  <2>1. \A i \in S : f[i] = 0
    BY <1>1, ItemsAreFinite
  <2>2. IsFiniteSet(S)
    BY ItemsAreFinite, FS_Subset
  <2> HIDE DEF f, S
  <2>3. SumFunctionOnSet(f, S) = 0
    BY <2>1, <2>2, SumIsZero
  <2> QED
    BY <2>3 DEF CreditOn, f, S
<1>9. LinesAreCredited
  <2> SUFFICES ASSUME NEW l \in PoLines
               PROVE  SumFunction([r \in Receipts |-> CreditOn(r, l)]) = 0
    BY <1>2 DEF LinesAreCredited
  <2>1. \A r \in Receipts : CreditOn(r, l) = 0
    BY <1>8
  <2> DEFINE f == [r \in Receipts |-> CreditOn(r, l)]
  <2>2. f \in [Receipts -> Int] /\ \A r \in Receipts : f[r] = 0
    BY <2>1
  <2> HIDE DEF f
  <2>3. SumFunction(f) = 0
    BY <2>2, ReceiptsAssumption, SumOfZeros
  <2> QED
    BY <2>3 DEF f
<1>10. PoIsReceived
  BY <1>2 DEF PoIsReceived, PoInit
<1> QED
  BY <1>1, <1>4, <1>5, <1>6, <1>7, <1>9, <1>10 DEF PoInv

-----------------------------------------------------------------------------
(* The steps *)

\* What stays true as client c goes on with j, when no line is written and
\* nothing is credited.
LEMMA PoGoesOn ==
  ASSUME PoInv, NEW c \in Clients, NEW j \in PoJobs, job' = [job EXCEPT ![c] = j],
         UNCHANGED <<credits, lateItems>>,
         PoTypeOK',
         \A l \in PoLines : /\ poLine'[l].received = poLine[l].received
                            /\ poLine'[l].status = poLine[l].status,
         j.op = "receive" => /\ j.item > 0
                             /\ j.stage = "credit" => j.item \in DOMAIN Confirmed[j.receipt],
         CreditsLine(j) =>
           j.po = po /\ \A l \in PoLines : /\ j.lines[l].status = poLine[l].status
                                          /\ j.lines[l].received = poLine[l].received,
         latePo => latePo',
         po' = po \/ latePo' \/ (po' # "RECEIVED" /\ po # "RECEIVED"
                                 /\ \A d \in Clients : ~CreditsLine(job'[d])),
         DecidedAlone', CreditedInOrder'
  PROVE  PoInv'
<1>1. /\ job' \in [Clients -> PoJobs]
      /\ job'[c] = j /\ \A d \in Clients \ {c} : job'[d] = job[d]
  BY DEF PoInv
<1>2. CreditsAreTyped'
  BY DEF PoInv, CreditsAreTyped
<1>3. ItemsAreThere'
  BY <1>1 DEF PoInv, ItemsAreThere
<1>4. LinesAreFresh'
  <2> SUFFICES ASSUME NEW d \in Clients, CreditsLine(job'[d])
               PROVE  /\ LineOf(job'[d]) \notin lateItems =>
                           job'[d].lines[LineOf(job'[d])].received
                             = poLine'[LineOf(job'[d])].received
                      /\ ~latePo' => /\ job'[d].po = po'
                                     /\ \A l \in PoLines :
                                          job'[d].lines[l].status = poLine'[l].status
    BY DEF LinesAreFresh, CreditsLine, LineOf
  <2>1. /\ job'[d].op = "receive" /\ job'[d].stage = "credit" /\ job'[d] \in PoJobs
        /\ job'[d].receipt \in Receipts
        /\ job'[d].item \in DOMAIN Confirmed[job'[d].receipt]
    BY <1>1, <1>3, JobsOfPo DEF ItemsAreThere, CreditsLine
  <2>2. LineOf(job'[d]) \in PoLines
    BY <2>1, ItemsAreFinite DEF LineOf
  <2>3. \/ CreditsLine(job[d]) /\ job'[d] = job[d]
        \/ job'[d] = j /\ CreditsLine(j)
    BY <1>1 DEF CreditsLine
  <2>4. /\ LineOf(job'[d]) \notin lateItems =>
             job'[d].lines[LineOf(job'[d])].received = poLine[LineOf(job'[d])].received
        /\ ~latePo => /\ job'[d].po = po
                      /\ \A l \in PoLines : job'[d].lines[l].status = poLine[l].status
    BY <2>2, <2>3 DEF PoInv, LinesAreFresh
  <2> QED
    BY <2>2, <2>4
<1>5. \A r \in Receipts, l \in PoLines : CreditOn(r, l)' = CreditOn(r, l)
  BY DEF CreditOn
<1>6. LinesAreCredited'
  <2> SUFFICES ASSUME NEW l \in PoLines \ lateItems
               PROVE  poLine'[l].received = SumFunction([r \in Receipts |-> CreditOn(r, l)'])
    BY DEF LinesAreCredited
  <2>1. [r \in Receipts |-> CreditOn(r, l)'] = [r \in Receipts |-> CreditOn(r, l)]
    BY <1>5
  <2>2. poLine'[l].received = SumFunction([r \in Receipts |-> CreditOn(r, l)])
    BY DEF PoInv, LinesAreCredited
  <2> QED
    BY <2>1, <2>2
<1>7. PoIsReceived'
  BY DEF PoInv, PoIsReceived
<1> QED
  BY <1>1, <1>2, <1>3, <1>4, <1>6, <1>7 DEF PoInv

\* A step that decides on no receipt and credits none.
LEMMA FatesStay ==
  ASSUME PoInv, NEW c \in Clients, NEW j \in PoJobs, job' = [job EXCEPT ![c] = j],
         UNCHANGED <<credits, receipt>>,
         decidedTwice \subseteq decidedTwice', poTorn \subseteq poTorn',
         j.op # "receipt",
         \A r \in Receipts : CreditsIt(j, r) =>
           r \in poTorn' \/ (CreditsIt(job[c], r) /\ j.item = job[c].item)
  PROVE  DecidedAlone' /\ CreditedInOrder'
<1>1. job'[c] = j /\ \A d \in Clients \ {c} : job'[d] = job[d]
  BY DEF PoInv
<1>2. DecidedAlone'
  BY <1>1 DEF PoInv, DecidedAlone, Decides
<1>3. CreditedInOrder'
  <2> SUFFICES ASSUME NEW r \in Receipts \ (poTorn' \cup decidedTwice')
               PROVE  /\ receipt[r] # "ACCEPTED" =>
                           /\ \A i \in DOMAIN Confirmed[r] : credits[r][i] = 0
                           /\ \A d \in Clients : ~CreditsIt(job'[d], r)
                      /\ \A i \in DOMAIN Confirmed[r] : credits[r][i] <= 1
                      /\ \A d \in Clients : CreditsIt(job'[d], r) =>
                           /\ \A i \in DOMAIN Confirmed[r] :
                                i >= job'[d].item => credits[r][i] = 0
                           /\ \A e \in Clients : CreditsIt(job'[e], r) => d = e
    BY DEF CreditedInOrder, CreditsIt
  <2>1. \A d \in Clients : CreditsIt(job'[d], r) =>
          CreditsIt(job[d], r) /\ job'[d].item = job[d].item
    BY <1>1 DEF CreditsIt
  <2> QED
    BY <2>1 DEF PoInv, CreditedInOrder
<1> QED
  BY <1>2, <1>3

LEMMA PoTypesStay ==
  ASSUME PoInv,
         po' \in PoStatus, poLine' \in [PoLines -> PoLine],
         receipt' \in [Receipts -> ReceiptStatus],
         redeliver' \subseteq poTorn', poTorn' \subseteq Receipts,
         inspected' \in [Receipts -> Nat], credits' = credits,
         decidedTwice' \subseteq Receipts, lateItems' \subseteq PoLines, latePo' \in BOOLEAN
  PROVE  PoTypeOK'
<1>1. \A r \in Receipts : credits'[r] \in [DOMAIN Confirmed[r] -> Nat]
  BY DEF PoInv, CreditsAreTyped
<1> QED
  BY <1>1, Zenon DEF PoTypeOK

LEMMA ConfirmPoKeeps ==
  ASSUME PoInv, NEW c \in Clients, ConfirmPo(c) PROVE PoInv'
<1> DEFINE j == [op |-> "confirmPo", stage |-> "write"]
<1>1. /\ job' = [job EXCEPT ![c] = j]
      /\ UNCHANGED <<po, poLine, receipt, redeliver, inspected,
                     credits, poTorn, decidedTwice, lateItems, latePo>>
  BY DEF ConfirmPo, Accept, poData, poDocs, poHistory
<1>2. j \in PoJobs /\ j.op = "confirmPo"
  BY DEF PoJobs, ConfirmPoJobs
<1> HIDE DEF j
<1>3. PoTypeOK'
  BY <1>1, Zenon DEF PoInv, PoTypeOK
<1>4. DecidedAlone' /\ CreditedInOrder'
  BY <1>1, <1>2, FatesStay DEF CreditsIt
<1> QED
  BY <1>1, <1>2, <1>3, <1>4, PoGoesOn DEF CreditsLine

LEMMA ConfirmPoWriteKeeps ==
  ASSUME PoInv, NEW c \in Clients, ConfirmPoWrite(c) PROVE PoInv'
<1>1. /\ job' = [job EXCEPT ![c] = NoJob] /\ po' = "CONFIRMED"
      /\ latePo' = (latePo \/ po # "DRAFT" \/ PoReaders # {c})
      /\ UNCHANGED <<poLine, receipt, redeliver, inspected,
                     credits, poTorn, decidedTwice, lateItems>>
  BY DEF ConfirmPoWrite, Reply, Continue
<1>2. latePo' \in BOOLEAN /\ (latePo => latePo')
  BY <1>1, Zenon DEF PoInv, PoTypeOK
<1>3. PoTypeOK'
  BY <1>1, <1>2, PoTypesStay DEF PoInv, PoTypeOK, PoStatus
<1>4. DecidedAlone' /\ CreditedInOrder'
  BY <1>1, NoPoJob, FatesStay DEF CreditsIt
<1>5. ~latePo' => po # "RECEIVED" /\ \A d \in Clients : ~CreditsLine(job'[d])
  <2> SUFFICES ASSUME ~latePo', NEW d \in Clients, CreditsLine(job'[d]) PROVE FALSE
    BY <1>1
  <2>1. job' \in [Clients -> PoJobs] /\ job'[c] = NoJob /\ (d # c => job'[d] = job[d])
    BY <1>1, NoPoJob DEF PoInv
  <2>2. d # c /\ CreditsLine(job[d])
    BY <2>1, NoPoJob DEF CreditsLine
  <2>3. d \in PoReaders
    BY <2>2 DEF PoReaders, CreditsLine, At
  <2> QED
    BY <1>1, <2>2, <2>3
<1> QED
  BY <1>1, <1>2, <1>3, <1>4, <1>5, NoPoJob, PoGoesOn DEF CreditsLine

LEMMA ChangePoKeeps ==
  ASSUME PoInv, NEW c \in Clients, NEW l \in PoLines, NEW q \in PoOrdered, ChangePo(c, l, q)
  PROVE  PoInv'
<1> DEFINE j == [op |-> "changePo", stage |-> "write", line |-> l, qty |-> q]
<1>1. /\ job' = [job EXCEPT ![c] = j]
      /\ UNCHANGED <<po, poLine, receipt, redeliver, inspected,
                     credits, poTorn, decidedTwice, lateItems, latePo>>
  BY DEF ChangePo, Accept, poData, poDocs, poHistory
<1>2. j \in PoJobs /\ j.op = "changePo"
  BY PoOrderedAssumption DEF PoJobs, ChangePoJobs
<1> HIDE DEF j
<1>3. PoTypeOK'
  BY <1>1, Zenon DEF PoInv, PoTypeOK
<1>4. DecidedAlone' /\ CreditedInOrder'
  BY <1>1, <1>2, FatesStay DEF CreditsIt
<1> QED
  BY <1>1, <1>2, <1>3, <1>4, PoGoesOn DEF CreditsLine

LEMMA ChangePoWriteKeeps ==
  ASSUME PoInv, NEW c \in Clients, ChangePoWrite(c) PROVE PoInv'
<1> DEFINE l == job[c].line
<1>1. /\ job[c].op = "changePo"
      /\ job' = [job EXCEPT ![c] = NoJob]
      /\ poLine' = [poLine EXCEPT ![l].quantity = job[c].qty]
      /\ UNCHANGED <<po, receipt, redeliver, inspected,
                     credits, poTorn, decidedTwice, lateItems, latePo>>
  BY DEF ChangePoWrite, At, Reply, Continue, poHistory
<1>2. l \in PoLines /\ job[c].qty \in Nat
  <2>1. job[c] \in ChangePoJobs
    BY <1>1, JobsOfPo DEF PoInv
  <2> QED
    BY <2>1 DEF ChangePoJobs
<1>3. poLine \in [PoLines -> PoLine]
  BY DEF PoInv, PoTypeOK
<1>4. /\ poLine' \in [PoLines -> PoLine]
      /\ \A k \in PoLines : /\ poLine'[k].received = poLine[k].received
                            /\ poLine'[k].status = poLine[k].status
  BY <1>1, <1>2, <1>3 DEF PoLine
<1> HIDE DEF l
<1>5. latePo' \in BOOLEAN
  BY <1>1, Zenon DEF PoInv, PoTypeOK
<1>6. PoTypeOK'
  BY <1>1, <1>4, <1>5, PoTypesStay DEF PoInv, PoTypeOK
<1>7. DecidedAlone' /\ CreditedInOrder'
  BY <1>1, NoPoJob, FatesStay DEF CreditsIt
<1> QED
  BY <1>1, <1>4, <1>6, <1>7, NoPoJob, PoGoesOn DEF CreditsLine

LEMMA RedeliverKeeps ==
  ASSUME PoInv, NEW c \in Clients, NEW r \in Receipts, Redeliver(c, r) PROVE PoInv'
<1> DEFINE j == [op |-> "receive", stage |-> "item", receipt |-> r, item |-> 1]
<1>1. /\ job' = [job EXCEPT ![c] = j] /\ r \in redeliver /\ redeliver' = redeliver \ {r}
      /\ UNCHANGED <<po, poLine, receipt, inspected,
                     credits, poTorn, decidedTwice, lateItems, latePo>>
  BY DEF Redeliver, Crediting, Accept, poHistory
<1>2. /\ j \in PoJobs /\ j.op = "receive" /\ j.stage = "item" /\ j.item = 1
      /\ ~CreditsLine(j) /\ j.item > 0
      /\ \A x \in Receipts : CreditsIt(j, x) => x = r
  BY DEF PoJobs, ItemCreditJobs, CreditsIt, CreditsLine
<1> HIDE DEF j
<1>3. latePo' \in BOOLEAN
  BY <1>1, Zenon DEF PoInv, PoTypeOK
<1>4. PoTypeOK'
  BY <1>1, <1>3, PoTypesStay DEF PoInv, PoTypeOK
<1>5. r \in poTorn'
  BY <1>1 DEF PoInv, PoTypeOK
<1>6. DecidedAlone' /\ CreditedInOrder'
  BY <1>1, <1>2, <1>5, FatesStay
<1>7. \A l \in PoLines : /\ poLine'[l].received = poLine[l].received
                         /\ poLine'[l].status = poLine[l].status
  BY <1>1
<1> QED
  BY <1>1, <1>2, <1>4, <1>6, <1>7, PoGoesOn

LEMMA ReceiveReadKeeps ==
  ASSUME PoInv, NEW c \in Clients, ReceiveRead(c) PROVE PoInv'
<1> DEFINE r == job[c].receipt
           n == job[c].item
           j == [op |-> "receive", stage |-> "credit", receipt |-> r, item |-> n,
                 lines |-> poLine, po |-> po]
<1>1. /\ job[c].op = "receive" /\ n <= Len(Confirmed[r])
      /\ job' = [job EXCEPT ![c] = j]
      /\ UNCHANGED <<po, poLine, receipt, redeliver, inspected,
                     credits, poTorn, decidedTwice, lateItems, latePo>>
  BY DEF ReceiveRead, At, Continue, poData, poDocs, poHistory
<1>2. r \in Receipts /\ n \in Nat /\ n > 0
  BY <1>1, JobsOfPo DEF PoInv, ItemsAreThere
<1>3. n \in DOMAIN Confirmed[r]
  <2>1. Confirmed[r] \in Seq([line : PoLines, qty : Nat \ {0}])
    BY <1>2, ConfirmedAssumption
  <2> QED
    BY <1>1, <1>2, <2>1
<1>4. poLine \in [PoLines -> PoLine] /\ po \in PoStatus
  BY DEF PoInv, PoTypeOK
<1>5. /\ j \in PoJobs /\ j.op = "receive" /\ j.item = n /\ j.receipt = r
      /\ j.lines = poLine /\ j.po = po
  BY <1>2, <1>4 DEF PoJobs, LineCreditJobs
<1> HIDE DEF j
<1>6. PoTypeOK'
  BY <1>1, Zenon DEF PoInv, PoTypeOK
<1>7. \A x \in Receipts : CreditsIt(j, x) => CreditsIt(job[c], x) /\ j.item = job[c].item
  BY <1>1, <1>5 DEF CreditsIt
<1>8. DecidedAlone' /\ CreditedInOrder'
  BY <1>1, <1>5, <1>7, FatesStay
<1> QED
  BY <1>1, <1>2, <1>3, <1>5, <1>6, <1>8, PoGoesOn DEF CreditsLine

\* A request leaves the loop over the items, by its end or by an error.
LEMMA ToInspections ==
  ASSUME PoInv, NEW c \in Clients, NEW r \in Receipts,
         job' = [job EXCEPT ![c] = [op |-> "inspect", stage |-> "create", receipt |-> r]],
         UNCHANGED <<po, poLine, receipt, inspected, credits, decidedTwice, lateItems, latePo>>,
         poTorn \subseteq poTorn', poTorn' \subseteq Receipts, redeliver' \subseteq poTorn'
  PROVE  PoInv'
<1> DEFINE j == [op |-> "inspect", stage |-> "create", receipt |-> r]
<1>1. j \in PoJobs /\ j.op = "inspect" /\ job' = [job EXCEPT ![c] = j]
  BY DEF PoJobs, InspectJobs
<1> HIDE DEF j
<1>2. latePo' \in BOOLEAN
  BY Zenon DEF PoInv, PoTypeOK
<1>3. PoTypeOK'
  BY <1>2, PoTypesStay DEF PoInv, PoTypeOK
<1>4. DecidedAlone' /\ CreditedInOrder'
  BY <1>1, FatesStay DEF CreditsIt
<1> QED
  BY <1>1, <1>3, <1>4, PoGoesOn DEF CreditsLine

LEMMA ReceiveFailKeeps ==
  ASSUME PoInv, NEW c \in Clients, ReceiveFail(c) PROVE PoInv'
<1>1. job[c].op = "receive" /\ job[c].receipt \in Receipts
  BY JobsOfPo DEF PoInv, ReceiveFail, At
<1>2. /\ poTorn \subseteq poTorn' /\ poTorn' \subseteq Receipts /\ redeliver' \subseteq poTorn'
  BY <1>1 DEF ReceiveFail, PoInv, PoTypeOK
<1> QED
  BY <1>1, <1>2, ToInspections DEF ReceiveFail, Continue

LEMMA ReceiveDoneKeeps ==
  ASSUME PoInv, NEW c \in Clients, ReceiveDone(c) PROVE PoInv'
<1>1. job[c].op = "receive" /\ job[c].receipt \in Receipts
  BY JobsOfPo DEF PoInv, ReceiveDone, At
<1>2. /\ poTorn \subseteq poTorn' /\ poTorn' \subseteq Receipts /\ redeliver' \subseteq poTorn'
  BY DEF ReceiveDone, PoInv, PoTypeOK, poData, poHistory, poDocs
<1> QED
  BY <1>1, <1>2, ToInspections DEF ReceiveDone, Continue, poData, poHistory, poDocs

LEMMA CreateInspectionsKeeps ==
  ASSUME PoInv, NEW c \in Clients, CreateInspections(c) PROVE PoInv'
<1>r. PICK r : r = job[c].receipt
  OBVIOUS
<1>0. r \in Receipts
  BY <1>r, JobsOfPo DEF PoInv, CreateInspections, At, InspectJobs
<1>1. PICK k \in Nat : inspected' = [inspected EXCEPT ![r] = inspected[r] + k]
  <2>1. Len(Confirmed[r]) \in Nat
    BY <1>0, ConfirmedAssumption
  <2>2. \A k \in 0..Len(Confirmed[r]) : k \in Nat
    BY <2>1
  <2>3. PICK k \in 0..Len(Confirmed[r]) : inspected' = [inspected EXCEPT ![r] = inspected[r] + k]
    BY <1>r, Zenon DEF CreateInspections
  <2> QED
    BY <2>2, <2>3
<1>2. /\ job' = [job EXCEPT ![c] = NoJob]
      /\ UNCHANGED <<po, poLine, receipt, redeliver,
                     credits, poTorn, decidedTwice, lateItems, latePo>>
  BY DEF CreateInspections, Reply, Continue, poHistory
<1>3. inspected' \in [Receipts -> Nat]
  BY <1>0, <1>1 DEF PoInv, PoTypeOK
<1>4. latePo' \in BOOLEAN
  BY <1>2, Zenon DEF PoInv, PoTypeOK
<1>5. PoTypeOK'
  BY <1>2, <1>3, <1>4, PoTypesStay DEF PoInv, PoTypeOK
<1>6. DecidedAlone' /\ CreditedInOrder'
  BY <1>2, NoPoJob, FatesStay DEF CreditsIt
<1> QED
  BY <1>2, <1>5, <1>6, NoPoJob, PoGoesOn DEF CreditsLine

LEMMA PoDieKeeps ==
  ASSUME PoInv, NEW c \in Clients, PoDie(c) PROVE PoInv'
<1>1. /\ job' = [job EXCEPT ![c] = NoJob]
      /\ poTorn' = IF job[c].op = "receive" THEN poTorn \cup {job[c].receipt} ELSE poTorn
      /\ UNCHANGED <<po, poLine, receipt, redeliver, inspected,
                     credits, decidedTwice, lateItems, latePo>>
  BY DEF PoDie, Reply, Continue, poDocs
<1>2. /\ poTorn \subseteq poTorn' /\ poTorn' \subseteq Receipts /\ redeliver' \subseteq poTorn'
  BY <1>1, JobsOfPo DEF PoInv, PoTypeOK
<1>3. latePo' \in BOOLEAN
  BY <1>1, Zenon DEF PoInv, PoTypeOK
<1>4. PoTypeOK'
  BY <1>1, <1>2, <1>3, PoTypesStay DEF PoInv, PoTypeOK
<1>5. DecidedAlone' /\ CreditedInOrder'
  BY <1>1, <1>2, NoPoJob, FatesStay DEF CreditsIt
<1> QED
  BY <1>1, <1>4, <1>5, NoPoJob, PoGoesOn DEF CreditsLine

LEMMA ReadReceiptKeeps ==
  ASSUME PoInv, NEW c \in Clients, NEW r \in Receipts,
         NEW to \in {"INSPECTING", "ACCEPTED", "REJECTED"}, ReadReceipt(c, r, to)
  PROVE  PoInv'
<1> DEFINE j == [op |-> "receipt", stage |-> "write", receipt |-> r, to |-> to]
<1>1. /\ job[c] = NoJob /\ job' = [job EXCEPT ![c] = j]
      /\ receipt[r] = IF to = "INSPECTING" THEN "PENDING" ELSE "INSPECTING"
      /\ decidedTwice' =
           IF \E d \in Clients \ {c} : At(d, "receipt", "write") /\ job[d].receipt = r
           THEN decidedTwice \cup {r} ELSE decidedTwice
      /\ UNCHANGED <<po, poLine, receipt, redeliver, inspected,
                     credits, poTorn, lateItems, latePo>>
  BY DEF ReadReceipt, Decidable, Accept, poDocs
<1>2. /\ j \in PoJobs /\ j.op = "receipt" /\ j.receipt = r /\ j.to = to
      /\ \A x \in Receipts : Decides(j, x) => x = r
  BY DEF PoJobs, ReceiptJobs, Decides
<1> HIDE DEF j
<1>3. /\ job'[c] = j /\ \A d \in Clients \ {c} : job'[d] = job[d]
  BY <1>1 DEF PoInv
<1>4. /\ decidedTwice \subseteq decidedTwice' /\ decidedTwice' \subseteq Receipts
      /\ r \notin decidedTwice' => \A d \in Clients \ {c} : ~Decides(job[d], r)
  <2>1. \A d \in Clients : Decides(job[d], r) => At(d, "receipt", "write") /\ job[d].receipt = r
    BY JobsOfPo DEF PoInv, Decides, At, ReceiptJobs
  <2> QED
    BY <1>1, <2>1 DEF PoInv, PoTypeOK
<1>5. latePo' \in BOOLEAN
  BY <1>1, Zenon DEF PoInv, PoTypeOK
<1>6. PoTypeOK'
  BY <1>1, <1>4, <1>5, PoTypesStay DEF PoInv, PoTypeOK
<1>7. DecidedAlone'
  <2> SUFFICES ASSUME NEW x \in Receipts \ decidedTwice', NEW d \in Clients, Decides(job'[d], x)
               PROVE  /\ receipt[x] = IF job'[d].to = "INSPECTING" THEN "PENDING" ELSE "INSPECTING"
                      /\ \A e \in Clients : Decides(job'[e], x) => d = e
    BY <1>1 DEF DecidedAlone, Decides
  <2>1. CASE x = r
    BY <1>1, <1>2, <1>3, <1>4, <2>1
  <2>2. CASE x # r
    <3>1. \A e \in Clients : Decides(job'[e], x) => Decides(job[e], x) /\ job'[e] = job[e]
      BY <1>2, <1>3, <2>2
    <3> QED
      BY <1>4, <3>1 DEF PoInv, DecidedAlone
  <2> QED
    BY <2>1, <2>2
<1>8. CreditedInOrder'
  <2>1. \A d \in Clients, x \in Receipts : CreditsIt(job'[d], x) =>
          CreditsIt(job[d], x) /\ job'[d].item = job[d].item
    BY <1>2, <1>3 DEF CreditsIt
  <2> SUFFICES ASSUME NEW x \in Receipts \ (poTorn \cup decidedTwice')
               PROVE  /\ receipt[x] # "ACCEPTED" =>
                           /\ \A i \in DOMAIN Confirmed[x] : credits[x][i] = 0
                           /\ \A d \in Clients : ~CreditsIt(job'[d], x)
                      /\ \A i \in DOMAIN Confirmed[x] : credits[x][i] <= 1
                      /\ \A d \in Clients : CreditsIt(job'[d], x) =>
                           /\ \A i \in DOMAIN Confirmed[x] :
                                i >= job'[d].item => credits[x][i] = 0
                           /\ \A e \in Clients : CreditsIt(job'[e], x) => d = e
    BY <1>1 DEF CreditedInOrder, CreditsIt
  <2> QED
    BY <1>4, <2>1 DEF PoInv, CreditedInOrder
<1> QED
  BY <1>1, <1>2, <1>6, <1>7, <1>8, PoGoesOn DEF CreditsLine

LEMMA WriteReceiptKeeps ==
  ASSUME PoInv, NEW c \in Clients, WriteReceipt(c) PROVE PoInv'
<1>r. PICK r : r = job[c].receipt
  OBVIOUS
<1> DEFINE to == job[c].to
           j == IF to = "ACCEPTED"
                THEN [op |-> "receive", stage |-> "item", receipt |-> r, item |-> 1]
                ELSE NoJob
<1>1. /\ job[c].op = "receipt" /\ receipt' = [receipt EXCEPT ![r] = to]
      /\ job' = [job EXCEPT ![c] = j]
      /\ UNCHANGED <<po, poLine, redeliver, inspected,
                     credits, poTorn, decidedTwice, lateItems, latePo>>
  BY <1>r DEF WriteReceipt, At, Reply, Continue, Crediting, poHistory
<1>2. r \in Receipts /\ to \in {"INSPECTING", "ACCEPTED", "REJECTED"}
  <2>1. job[c] \in ReceiptJobs
    BY <1>1, JobsOfPo DEF PoInv
  <2> QED
    BY <1>r, <2>1 DEF ReceiptJobs
<1>3. /\ j \in PoJobs /\ j.op # "receipt" /\ ~CreditsLine(j)
      /\ j.op = "receive" => j.item = 1 /\ j.stage = "item"
      /\ \A x \in Receipts : CreditsIt(j, x) => x = r /\ to = "ACCEPTED"
  BY <1>2, NoPoJob DEF PoJobs, ItemCreditJobs, CreditsLine, CreditsIt
<1>4. Decides(job[c], r)
  BY <1>r, <1>1 DEF Decides
<1> HIDE DEF j, to
<1>5. /\ job'[c] = j /\ \A d \in Clients \ {c} : job'[d] = job[d]
      /\ receipt'[r] = to /\ \A x \in Receipts \ {r} : receipt'[x] = receipt[x]
      /\ receipt' \in [Receipts -> ReceiptStatus]
  BY <1>1, <1>2 DEF PoInv, PoTypeOK, ReceiptStatus
<1>6. latePo' \in BOOLEAN
  BY <1>1, Zenon DEF PoInv, PoTypeOK
<1>7. PoTypeOK'
  BY <1>1, <1>5, <1>6, PoTypesStay DEF PoInv, PoTypeOK
<1>8. r \notin decidedTwice => /\ receipt[r] # "ACCEPTED"
                              /\ \A d \in Clients : Decides(job[d], r) => d = c
  BY <1>2, <1>4 DEF PoInv, DecidedAlone
<1>9. DecidedAlone'
  <2> SUFFICES ASSUME NEW x \in Receipts \ decidedTwice, NEW d \in Clients, Decides(job'[d], x)
               PROVE  /\ receipt'[x] = IF job'[d].to = "INSPECTING" THEN "PENDING" ELSE "INSPECTING"
                      /\ \A e \in Clients : Decides(job'[e], x) => d = e
    BY <1>1 DEF DecidedAlone, Decides
  <2>1. \A e \in Clients : Decides(job'[e], x) => Decides(job[e], x) /\ job'[e] = job[e] /\ e # c
    BY <1>3, <1>5 DEF Decides
  <2>2. x # r
    BY <1>8, <2>1
  <2> QED
    BY <1>5, <2>1, <2>2 DEF PoInv, DecidedAlone
<1>10. CreditedInOrder'
  <2> SUFFICES ASSUME NEW x \in Receipts \ (poTorn \cup decidedTwice)
               PROVE  /\ receipt'[x] # "ACCEPTED" =>
                           /\ \A i \in DOMAIN Confirmed[x] : credits[x][i] = 0
                           /\ \A d \in Clients : ~CreditsIt(job'[d], x)
                      /\ \A i \in DOMAIN Confirmed[x] : credits[x][i] <= 1
                      /\ \A d \in Clients : CreditsIt(job'[d], x) =>
                           /\ \A i \in DOMAIN Confirmed[x] :
                                i >= job'[d].item => credits[x][i] = 0
                           /\ \A e \in Clients : CreditsIt(job'[e], x) => d = e
    BY <1>1 DEF CreditedInOrder, CreditsIt
  <2>1. CASE x = r
    <3>1. /\ \A i \in DOMAIN Confirmed[x] : credits[x][i] = 0
          /\ \A d \in Clients : ~CreditsIt(job[d], x)
          /\ \A i \in DOMAIN Confirmed[x] : credits[x][i] <= 1
      BY <1>8, <2>1 DEF PoInv, CreditedInOrder
    <3> QED
      BY <1>3, <1>5, <2>1, <3>1
  <2>2. CASE x # r
    <3>1. \A d \in Clients : CreditsIt(job'[d], x) => CreditsIt(job[d], x) /\ job'[d] = job[d]
      BY <1>3, <1>5, <2>2
    <3> QED
      BY <1>5, <2>2, <3>1 DEF PoInv, CreditedInOrder
  <2> QED
    BY <2>1, <2>2
<1>11. j.op = "receive" => j.item > 0 /\ j.stage # "credit"
  BY <1>3
<1>12. \A l \in PoLines : /\ poLine'[l].received = poLine[l].received
                          /\ poLine'[l].status = poLine[l].status
  BY <1>1
<1> QED
  BY <1>1, <1>3, <1>7, <1>9, <1>10, <1>11, <1>12, PoGoesOn

\* No request changes.
LEMMA PoRests ==
  ASSUME PoInv, job' = job, PoTypeOK',
         UNCHANGED <<po, poLine, credits, poTorn, decidedTwice, lateItems, latePo>>,
         \A r \in Receipts : receipt'[r] = receipt[r] \/ (receipt[r] = "none" /\ receipt'[r] = "PENDING")
  PROVE  PoInv'
<1>1. CreditsAreTyped' /\ ItemsAreThere' /\ LinesAreFresh' /\ PoIsReceived'
  BY DEF PoInv, CreditsAreTyped, ItemsAreThere, LinesAreFresh, PoIsReceived, CreditsLine, LineOf
<1>2. DecidedAlone' /\ CreditedInOrder'
  BY DEF PoInv, DecidedAlone, CreditedInOrder, Decides, CreditsIt
<1>3. LinesAreCredited'
  <2> SUFFICES ASSUME NEW l \in PoLines \ lateItems
               PROVE  poLine[l].received = SumFunction([r \in Receipts |-> CreditOn(r, l)'])
    BY DEF LinesAreCredited
  <2>1. \A r \in Receipts : CreditOn(r, l)' = CreditOn(r, l)
    BY DEF CreditOn
  <2>2. [r \in Receipts |-> CreditOn(r, l)'] = [r \in Receipts |-> CreditOn(r, l)]
    BY <2>1
  <2>3. poLine[l].received = SumFunction([r \in Receipts |-> CreditOn(r, l)])
    BY DEF PoInv, LinesAreCredited
  <2> QED
    BY <2>2, <2>3
<1> QED
  BY <1>1, <1>2, <1>3 DEF PoInv

LEMMA CreateReceiptKeeps ==
  ASSUME PoInv, NEW r \in Receipts, CreateReceipt(r) PROVE PoInv'
<1>1. /\ receipt[r] = "none" /\ receipt' = [receipt EXCEPT ![r] = "PENDING"] /\ job' = job
      /\ UNCHANGED <<po, poLine, redeliver, inspected,
                     credits, poTorn, decidedTwice, lateItems, latePo>>
  BY DEF CreateReceipt, Once, poHistory
<1>2. receipt' \in [Receipts -> ReceiptStatus]
  BY <1>1 DEF PoInv, PoTypeOK, ReceiptStatus
<1>3. latePo' \in BOOLEAN
  BY <1>1, Zenon DEF PoInv, PoTypeOK
<1>4. PoTypeOK'
  BY <1>1, <1>2, <1>3, PoTypesStay DEF PoInv, PoTypeOK
<1>5. \A x \in Receipts : receipt'[x] = receipt[x] \/ (receipt[x] = "none" /\ receipt'[x] = "PENDING")
  BY <1>1 DEF PoInv, PoTypeOK
<1> QED
  BY <1>1, <1>4, <1>5, PoRests

\* Item n of receipt r is credited once more.
LEMMA CreditOnMoves ==
  ASSUME CreditsAreTyped, NEW r \in Receipts, NEW n \in DOMAIN Confirmed[r], NEW l \in PoLines,
         credits' = [credits EXCEPT ![r][n] = credits[r][n] + 1], CreditsAreTyped'
  PROVE  CreditOn(r, l)' = CreditOn(r, l) + (IF Confirmed[r][n].line = l
                                            THEN Confirmed[r][n].qty ELSE 0)
<1> DEFINE f == [i \in DOMAIN Confirmed[r] |-> credits[r][i] * Confirmed[r][i].qty]
           h == [i \in DOMAIN Confirmed[r] |-> credits'[r][i] * Confirmed[r][i].qty]
           S == {i \in DOMAIN Confirmed[r] : Confirmed[r][i].line = l}
           q == Confirmed[r][n].qty
<1>1. /\ \A i \in DOMAIN Confirmed[r] : credits[r][i] \in Nat /\ credits'[r][i] \in Nat
      /\ credits'[r][n] = credits[r][n] + 1
      /\ \A i \in DOMAIN Confirmed[r] : i # n => credits'[r][i] = credits[r][i]
  BY DEF CreditsAreTyped
<1>2. \A i \in DOMAIN Confirmed[r] : Confirmed[r][i].qty \in Nat
  BY ItemsAreFinite
<1>3. IsFiniteSet(DOMAIN Confirmed[r]) /\ q \in Int
  BY <1>2, ItemsAreFinite
<1>4. \A a, b \in Nat : a * b \in Int /\ (a + 1) * b = a * b + b
  OBVIOUS
<1>5. /\ \A i \in DOMAIN Confirmed[r] : f[i] \in Int /\ h[i] \in Int
      /\ \A i \in DOMAIN Confirmed[r] : i # n => h[i] = f[i]
      /\ h[n] = f[n] + q
  <2>1. \A i \in DOMAIN Confirmed[r] : /\ f[i] = credits[r][i] * Confirmed[r][i].qty
                                       /\ h[i] = credits'[r][i] * Confirmed[r][i].qty
    OBVIOUS
  <2> HIDE DEF f, h
  <2>2. h[n] = (credits[r][n] + 1) * q /\ f[n] = credits[r][n] * q
    BY <1>1, <2>1
  <2>3. credits[r][n] \in Nat /\ q \in Nat
    BY <1>1, <1>2
  <2>4. h[n] = f[n] + q
    BY <1>4, <2>2, <2>3
  <2>5. \A i \in DOMAIN Confirmed[r] : f[i] \in Int /\ h[i] \in Int
    BY <1>1, <1>2, <1>4, <2>1
  <2>6. \A i \in DOMAIN Confirmed[r] : i # n => h[i] = f[i]
    BY <1>1, <2>1
  <2> QED
    BY <2>4, <2>5, <2>6
<1>6. CreditOn(r, l) = SumFunctionOnSet(f, S) /\ CreditOn(r, l)' = SumFunctionOnSet(h, S)
  BY DEF CreditOn
<1>7. S \in SUBSET DOMAIN Confirmed[r] /\ (n \in S <=> Confirmed[r][n].line = l)
  OBVIOUS
<1>8. MovesAt(DOMAIN Confirmed[r], S, f, h, n, q)
  BY <1>3, <1>5, <1>7 DEF MovesAt
<1> HIDE DEF f, h, S, q
<1>9. SumFunctionOnSet(h, S) = SumFunctionOnSet(f, S) + (IF n \in S THEN q ELSE 0)
  BY <1>8, SumMovesBy
<1> QED
  BY <1>6, <1>7, <1>9 DEF q

\* The sum over the receipts moves with it.
LEMMA CreditsMove ==
  ASSUME CreditsAreTyped, NEW r \in Receipts, NEW n \in DOMAIN Confirmed[r], NEW l \in PoLines,
         credits' = [credits EXCEPT ![r][n] = credits[r][n] + 1], CreditsAreTyped'
  PROVE  /\ SumFunction([x \in Receipts |-> CreditOn(x, l)]) \in Int
         /\ SumFunction([x \in Receipts |-> CreditOn(x, l)'])
              = SumFunction([x \in Receipts |-> CreditOn(x, l)])
                + (IF Confirmed[r][n].line = l THEN Confirmed[r][n].qty ELSE 0)
<1> DEFINE f == [x \in Receipts |-> CreditOn(x, l)]
           h == [x \in Receipts |-> CreditOn(x, l)']
           by == IF Confirmed[r][n].line = l THEN Confirmed[r][n].qty ELSE 0
<1>1. \A x \in Receipts : CreditOn(x, l) \in Int
  BY CreditOnIsNat
<1>2. h[r] = f[r] + by
  BY CreditOnMoves
<1>3. \A x \in Receipts : x # r => h[x] = f[x]
  <2> SUFFICES ASSUME NEW x \in Receipts, x # r PROVE CreditOn(x, l)' = CreditOn(x, l)
    OBVIOUS
  <2>1. credits'[x] = credits[x]
    BY DEF CreditsAreTyped
  <2> QED
    BY <2>1 DEF CreditOn
<1>4. by \in Int
  BY ItemsAreFinite
<1>5. /\ f \in [Receipts -> Int] /\ \A x \in Receipts : h[x] \in Int
      /\ h = [x \in Receipts |-> h[x]]
  <2>1. h[r] \in Int
    BY <1>1, <1>2, <1>4
  <2> QED
    BY <1>1, <1>3, <2>1
<1>6. h \in [Receipts -> Int]
  BY <1>5
<1> HIDE DEF f, h, by
<1>7. SumFunction(h) = SumFunction(f) - f[r] + h[r]
  BY <1>3, <1>5, <1>6, ReceiptsAssumption, SumOfFunctionMoves
<1>8. SumFunction(f) \in Int /\ f[r] \in Int
  BY <1>5, ReceiptsAssumption, SumOfFunction
<1>9. SumFunction(h) = SumFunction(f) + by
  BY <1>2, <1>4, <1>7, <1>8
<1> QED
  BY <1>8, <1>9 DEF f, h, by

\* The record that is written
LEMMA CreditWrites ==
  ASSUME PoInv, NEW c \in Clients, ReceiveWrite(c),
         NEW r, NEW n, r = job[c].receipt, n = job[c].item
  PROVE  /\ job[c] \in LineCreditJobs /\ CreditsLine(job[c])
         /\ r \in Receipts /\ n \in DOMAIN Confirmed[r] /\ n \in Nat
         /\ Confirmed[r][n].line \in PoLines /\ Confirmed[r][n].qty \in Nat
<1>1. job[c].op = "receive" /\ job[c].stage = "credit"
  BY DEF ReceiveWrite, At
<1>2. job[c] \in LineCreditJobs
  BY <1>1, JobsOfPo DEF PoInv
<1>3. r \in Receipts /\ n \in Nat
  BY <1>2 DEF LineCreditJobs
<1>4. n \in DOMAIN Confirmed[r]
  BY <1>1 DEF PoInv, ItemsAreThere
<1> QED
  BY <1>1, <1>2, <1>3, <1>4, ItemsAreFinite DEF CreditsLine

LEMMA ReceivedRow ==
  ASSUME NEW row \in PoLine, NEW q \in Nat
  PROVE  /\ Received(row, q).received = row.received + q
         /\ Received(row, q).status = IF row.received + q >= row.quantity
                                      THEN "CLOSED" ELSE "PARTIAL"
BY DEF Received, PoLine

WritesRow(f, h, l, a, st) ==
  /\ f \in [PoLines -> PoLine] /\ l \in PoLines /\ a \in Nat /\ st \in PoLineStatus
  /\ h = [f EXCEPT ![l].received = a, ![l].status = st]

LEMMA WrittenRow ==
  ASSUME NEW f, NEW h, NEW l, NEW a, NEW st, WritesRow(f, h, l, a, st)
  PROVE  /\ h \in [PoLines -> PoLine]
         /\ \A k \in PoLines \ {l} : h[k] = f[k]
         /\ h[l].received = a /\ h[l].status = st
BY DEF WritesRow, PoLine

LEMMA ReceiveWriteKeeps ==
  ASSUME PoInv, NEW c \in Clients, ReceiveWrite(c) PROVE PoInv'
<1>r. PICK r, n : r = job[c].receipt /\ n = job[c].item
  OBVIOUS
<1>l. PICK l, q, lines : /\ l = Confirmed[r][n].line /\ q = Confirmed[r][n].qty
                         /\ lines = job[c].lines
  OBVIOUS
<1>s. PICK st : st = IF lines[l].received + q >= lines[l].quantity THEN "CLOSED" ELSE "PARTIAL"
  OBVIOUS
<1> DEFINE j == [op |-> "receive", stage |-> "item", receipt |-> r, item |-> n + 1]
           closed == \A k \in PoLines : (IF k = l THEN st ELSE lines[k].status) = "CLOSED"
           after == IF closed THEN "RECEIVED" ELSE "PARTIAL"
<1>1. /\ r \in Receipts /\ n \in DOMAIN Confirmed[r] /\ n \in Nat
      /\ l \in PoLines /\ q \in Nat /\ lines \in [PoLines -> PoLine]
      /\ job[c].po \in PoStatus /\ CreditsLine(job[c])
      /\ CreditsIt(job[c], r) /\ LineOf(job[c]) = l
  <2>1. /\ job[c] \in LineCreditJobs /\ CreditsLine(job[c])
        /\ r \in Receipts /\ n \in DOMAIN Confirmed[r] /\ n \in Nat
        /\ l \in PoLines /\ q \in Nat
    BY <1>r, <1>l, CreditWrites
  <2> QED
    BY <1>r, <1>l, <2>1 DEF LineCreditJobs, LineOf, CreditsLine, CreditsIt
<1>2. lines[l].received \in Nat
  BY <1>1 DEF PoLine
<1>3. Received(lines[l], q).received = lines[l].received + q /\ Received(lines[l], q).status = st
  BY <1>1, <1>s, ReceivedRow
<1>4. [lines EXCEPT ![l] = Received(lines[l], q)]
        = [k \in PoLines |-> IF k = l THEN Received(lines[l], q) ELSE lines[k]]
  BY <1>1
<1>5. /\ poLine' = [poLine EXCEPT ![l].received = lines[l].received + q, ![l].status = st]
      /\ po' = IF after = job[c].po THEN po ELSE after
      /\ credits' = [credits EXCEPT ![r][n] = credits[r][n] + 1]
      /\ latePo' = (latePo \/ PoReaders # {c})
      /\ lateItems' = IF \E d \in Clients \ {c} : At(d, "receive", "credit")
                           /\ Confirmed[job[d].receipt][job[d].item].line = l
                      THEN lateItems \cup {l} ELSE lateItems
      /\ job' = [job EXCEPT ![c] = j]
      /\ UNCHANGED <<receipt, redeliver, inspected, poTorn, decidedTwice>>
  <2>1. PoStatusAfter(job[c], [lines EXCEPT ![l] = Received(lines[l], q)]) = after
    BY <1>3, <1>4 DEF PoStatusAfter
  <2> HIDE DEF after
  <2> QED
    BY <1>r, <1>l, <1>3, <2>1 DEF ReceiveWrite, Continue, Crediting
<1>6. /\ \A k \in PoLines \ {l} : poLine'[k] = poLine[k]
      /\ poLine'[l].received = lines[l].received + q /\ poLine'[l].status = st
      /\ poLine' \in [PoLines -> PoLine]
  <2>1. poLine[l] \in PoLine /\ poLine \in [PoLines -> PoLine]
    BY <1>1 DEF PoInv, PoTypeOK
  <2>2. st \in PoLineStatus
    BY <1>s DEF PoLineStatus
  <2>3. lines[l].received + q \in Nat
    BY <1>1, <1>2
  <2>4. PICK f, h, a : f = poLine /\ h = poLine' /\ a = lines[l].received + q
    OBVIOUS
  <2>5. WritesRow(f, h, l, a, st)
    BY <1>1, <1>5, <2>1, <2>2, <2>3, <2>4 DEF WritesRow
  <2>6. /\ h \in [PoLines -> PoLine]
        /\ \A k \in PoLines \ {l} : h[k] = f[k]
        /\ h[l].received = a /\ h[l].status = st
    BY <2>5, WrittenRow
  <2> QED
    BY <2>4, <2>6
<1>7. /\ CreditsAreTyped'
      /\ credits'[r][n] = credits[r][n] + 1
      /\ \A i \in DOMAIN Confirmed[r] : i # n => credits'[r][i] = credits[r][i]
      /\ \A x \in Receipts \ {r} : credits'[x] = credits[x]
  <2>1. credits = [x \in Receipts |-> credits[x]]
        /\ \A x \in Receipts : credits[x] \in [DOMAIN Confirmed[x] -> Nat]
    BY DEF PoInv, CreditsAreTyped
  <2>2. credits[r][n] + 1 \in Nat
    BY <1>1, <2>1
  <2> QED
    BY <1>1, <1>5, <2>1, <2>2 DEF CreditsAreTyped
<1>8. /\ j \in PoJobs /\ j.op = "receive" /\ j.stage = "item" /\ j.item = n + 1
      /\ n + 1 > 0 /\ ~CreditsLine(j) /\ \A x : CreditsIt(j, x) => x = r
  BY <1>1 DEF PoJobs, ItemCreditJobs, CreditsLine, CreditsIt
<1> HIDE DEF j
<1>9. /\ job'[c] = j /\ \A d \in Clients \ {c} : job'[d] = job[d]
      /\ job' \in [Clients -> PoJobs]
  BY <1>5, <1>8 DEF PoInv
<1>10. PoTypeOK'
  <2>1. po' \in PoStatus /\ lateItems' \subseteq PoLines
    BY <1>1, <1>5 DEF PoInv, PoTypeOK, PoStatus
  <2>2. latePo' \in BOOLEAN
    BY <1>5, Zenon DEF PoInv, PoTypeOK
  <2>3. \A x \in Receipts : credits'[x] \in [DOMAIN Confirmed[x] -> Nat]
    BY <1>7 DEF CreditsAreTyped
  <2>4. /\ receipt' \in [Receipts -> ReceiptStatus] /\ redeliver' \subseteq poTorn'
        /\ poTorn' \subseteq Receipts /\ inspected' \in [Receipts -> Nat]
        /\ decidedTwice' \subseteq Receipts
    BY <1>5 DEF PoInv, PoTypeOK
  <2> QED
    BY <1>6, <2>1, <2>2, <2>3, <2>4, Zenon DEF PoTypeOK
<1>11. ItemsAreThere'
  BY <1>8, <1>9 DEF PoInv, ItemsAreThere
<1>12. DecidedAlone'
  BY <1>5, <1>8, <1>9 DEF PoInv, DecidedAlone, Decides
<1>13. CreditedInOrder'
  <2> SUFFICES ASSUME NEW x \in Receipts \ (poTorn \cup decidedTwice)
               PROVE  /\ receipt[x] # "ACCEPTED" =>
                           /\ \A i \in DOMAIN Confirmed[x] : credits'[x][i] = 0
                           /\ \A d \in Clients : ~CreditsIt(job'[d], x)
                      /\ \A i \in DOMAIN Confirmed[x] : credits'[x][i] <= 1
                      /\ \A d \in Clients : CreditsIt(job'[d], x) =>
                           /\ \A i \in DOMAIN Confirmed[x] :
                                i >= job'[d].item => credits'[x][i] = 0
                           /\ \A e \in Clients : CreditsIt(job'[e], x) => d = e
    BY <1>5 DEF CreditedInOrder, CreditsIt
  <2>1. CASE x = r
    <3>1. /\ receipt[x] = "ACCEPTED"
          /\ \A i \in DOMAIN Confirmed[x] : credits[x][i] <= 1
          /\ \A i \in DOMAIN Confirmed[x] : i >= n => credits[x][i] = 0
          /\ \A d \in Clients : CreditsIt(job[d], x) => c = d
      BY <1>1, <1>r, <2>1 DEF PoInv, CreditedInOrder
    <3>2. \A i \in DOMAIN Confirmed[x] : credits'[x][i] <= 1
      BY <1>1, <1>7, <2>1, <3>1
    <3>3. \A d \in Clients : CreditsIt(job'[d], x) => d = c
      BY <1>9, <3>1
    <3>4. \A i \in DOMAIN Confirmed[x] : i \in Nat
      <4>1. Confirmed[x] \in Seq([line : PoLines, qty : Nat \ {0}])
        BY ConfirmedAssumption
      <4> QED
        BY <4>1
    <3>5. \A i \in DOMAIN Confirmed[x] : i >= n + 1 => credits'[x][i] = 0
      BY <1>1, <1>7, <2>1, <3>1, <3>4
    <3> QED
      BY <1>8, <1>9, <3>1, <3>2, <3>3, <3>5
  <2>2. CASE x # r
    <3>1. \A d \in Clients : CreditsIt(job'[d], x) => CreditsIt(job[d], x) /\ job'[d] = job[d]
      BY <1>8, <1>9, <2>2
    <3> QED
      BY <1>7, <2>2, <3>1 DEF PoInv, CreditedInOrder
  <2> QED
    BY <2>1, <2>2
<1>14. LinesAreFresh'
  <2> SUFFICES ASSUME NEW d \in Clients, CreditsLine(job'[d])
               PROVE  /\ LineOf(job'[d]) \notin lateItems' =>
                           job'[d].lines[LineOf(job'[d])].received
                             = poLine'[LineOf(job'[d])].received
                      /\ ~latePo' => /\ job'[d].po = po'
                                     /\ \A k \in PoLines :
                                          job'[d].lines[k].status = poLine'[k].status
    BY DEF LinesAreFresh, CreditsLine, LineOf
  <2>1. d # c /\ job'[d] = job[d] /\ CreditsLine(job[d])
    BY <1>8, <1>9
  <2>2. At(d, "receive", "credit")
    BY <2>1 DEF CreditsLine, At
  <2>3. latePo'
    BY <1>5, <2>1, <2>2 DEF PoReaders
  <2>4. LineOf(job[d]) = l => l \in lateItems'
    BY <1>5, <2>1, <2>2 DEF LineOf
  <2>5. LineOf(job[d]) \in PoLines
    <3>1. job[d].receipt \in Receipts /\ job[d].item \in DOMAIN Confirmed[job[d].receipt]
      BY <2>2, JobsOfPo DEF PoInv, ItemsAreThere, At
    <3> QED
      BY <3>1, ItemsAreFinite DEF LineOf
  <2>6. LineOf(job[d]) \notin lateItems =>
          job[d].lines[LineOf(job[d])].received = poLine[LineOf(job[d])].received
    BY <2>1 DEF PoInv, LinesAreFresh
  <2> QED
    BY SMTT(30), <1>5, <1>6, <2>1, <2>3, <2>4, <2>5, <2>6
<1>15. LinesAreCredited'
  <2> SUFFICES ASSUME NEW m \in PoLines \ lateItems'
               PROVE  poLine'[m].received = SumFunction([x \in Receipts |-> CreditOn(x, m)'])
    BY DEF LinesAreCredited
  <2>1. m \notin lateItems
    BY <1>5
  <2>2. poLine[m].received = SumFunction([x \in Receipts |-> CreditOn(x, m)])
    BY <2>1 DEF PoInv, LinesAreCredited
  <2>3. /\ SumFunction([x \in Receipts |-> CreditOn(x, m)]) \in Int
        /\ SumFunction([x \in Receipts |-> CreditOn(x, m)'])
             = SumFunction([x \in Receipts |-> CreditOn(x, m)]) + (IF l = m THEN q ELSE 0)
    <3>1. CreditsAreTyped /\ CreditsAreTyped' /\ r \in Receipts /\ n \in DOMAIN Confirmed[r]
          /\ m \in PoLines /\ credits' = [credits EXCEPT ![r][n] = credits[r][n] + 1]
      BY <1>1, <1>5, <1>7 DEF PoInv
    <3>2. /\ SumFunction([x \in Receipts |-> CreditOn(x, m)]) \in Int
          /\ SumFunction([x \in Receipts |-> CreditOn(x, m)'])
               = SumFunction([x \in Receipts |-> CreditOn(x, m)])
                 + (IF Confirmed[r][n].line = m THEN Confirmed[r][n].qty ELSE 0)
      BY <3>1, CreditsMove
    <3> QED
      BY <1>l, <3>2
  <2>4. m = l => lines[l].received = poLine[l].received
    BY <1>1, <1>l, <2>1 DEF PoInv, LinesAreFresh
  <2> QED
    BY <1>6, <2>2, <2>3, <2>4
<1>16. PoIsReceived'
  <2> SUFFICES ASSUME ~latePo'
               PROVE  po' = "RECEIVED" <=> /\ PoLines # {}
                                           /\ \A k \in PoLines : poLine'[k].status = "CLOSED"
    BY DEF PoIsReceived
  <2>1. job[c].po = po /\ \A k \in PoLines : lines[k].status = poLine[k].status
    BY <1>1, <1>l, <1>5 DEF PoInv, LinesAreFresh
  <2>2. closed <=> \A k \in PoLines : poLine'[k].status = "CLOSED"
    BY <1>1, <1>6, <2>1
  <2>3. po' = after
    BY <1>5, <2>1
  <2> QED
    BY <1>1, <2>2, <2>3
<1> QED
  BY <1>7, <1>9, <1>10, <1>11, <1>12, <1>13, <1>14, <1>15, <1>16 DEF PoInv

LEMMA PoNextInv == PoInv /\ [PoNext]_poVars => PoInv'
<1> SUFFICES ASSUME PoInv, [PoNext]_poVars PROVE PoInv'
  OBVIOUS
<1>1. ASSUME NEW c \in Clients,
             \/ ConfirmPo(c) \/ ConfirmPoWrite(c)
             \/ \E l \in PoLines, q \in PoOrdered : ChangePo(c, l, q)
             \/ ChangePoWrite(c)
      PROVE  PoInv'
  BY <1>1, ConfirmPoKeeps, ConfirmPoWriteKeeps, ChangePoKeeps, ChangePoWriteKeeps
<1>2. ASSUME NEW c \in Clients, NEW r \in Receipts,
             \/ \E to \in {"INSPECTING", "ACCEPTED", "REJECTED"} : ReadReceipt(c, r, to)
             \/ Redeliver(c, r)
      PROVE  PoInv'
  BY <1>2, ReadReceiptKeeps, RedeliverKeeps
<1>3. ASSUME NEW c \in Clients,
             \/ WriteReceipt(c)
             \/ ReceiveRead(c) \/ ReceiveWrite(c) \/ ReceiveFail(c) \/ ReceiveDone(c)
             \/ CreateInspections(c) \/ PoDie(c)
      PROVE  PoInv'
  BY <1>3, WriteReceiptKeeps, ReceiveReadKeeps, ReceiveWriteKeeps, ReceiveFailKeeps,
     ReceiveDoneKeeps, CreateInspectionsKeeps, PoDieKeeps
<1>4. ASSUME NEW r \in Receipts, CreateReceipt(r) PROVE PoInv'
  BY <1>4, CreateReceiptKeeps
<1>5. CASE UNCHANGED poVars
  <2>1. job' = job /\ UNCHANGED <<po, poLine, receipt, redeliver, inspected,
                                  credits, poTorn, decidedTwice, lateItems, latePo>>
    BY <1>5 DEF poVars, poData, poDocs, poHistory, reqVars
  <2>2. PoTypeOK'
    BY <2>1, Zenon DEF PoInv, PoTypeOK
  <2> QED
    BY <2>1, <2>2, PoRests
<1> QED
  BY <1>1, <1>2, <1>3, <1>4, <1>5 DEF PoNext

LEMMA PoSpecInv == PoSpec => []PoInv
BY PoInitInv, PoNextInv, PTL DEF PoSpec

\* The order, its lines and its receipts are records of the shapes the code
\* stores; a receipt waits for its credit again only when one failed or died.
THEOREM PurchaseIsTyped == PoSpec => []PoTypeOK
BY PoSpecInv, PTL DEF PoInv

\* The received quantity of a line is what its receipts were credited with, a
\* receipt is credited at most once, and only after it was accepted, and the
\* order is RECEIVED exactly when all of its lines are closed
\* (PurchaseOrderService.updateReceivedQty, called for the items of a
\* receipt), for all orders, receipts and numbers of requests, but for the
\* history the property excepts.
THEOREM ReceivedIsCredited == PoSpec => []ReceiptsAreBooked
<1>1. PoInv => ReceiptsAreBooked
  <2> SUFFICES ASSUME PoInv PROVE ReceiptsAreBooked
    OBVIOUS
  <2>1. \A l \in PoLines \ lateItems :
          poLine[l].received = SumFunction([r \in Receipts |-> CreditOn(r, l)])
    BY DEF PoInv, LinesAreCredited
  <2>2. \A r \in Receipts \ (poTorn \cup decidedTwice) : \A i \in DOMAIN Confirmed[r] :
          credits[r][i] <= 1 /\ (credits[r][i] = 1 => receipt[r] = "ACCEPTED")
    BY DEF PoInv, CreditedInOrder
  <2>3. PoIsReceived
    BY DEF PoInv
  <2> QED
    BY <2>1, <2>2, <2>3 DEF ReceiptsAreBooked, PoIsReceived
<1> QED
  BY <1>1, PoSpecInv, PTL

-----------------------------------------------------------------------------
(***************************************************************************)
(* The quantities of an outsourcing order are those of its documents, and  *)
(* no more is received for an issue than it leaves room for.               *)
(*                                                                         *)
(* OrderAddsUp leaves out the documents that a request has confirmed and   *)
(* not counted yet. The invariant says that each of these has one such     *)
(* request (CountedOnce), so that counting it moves the sum by its         *)
(* quantity, and that what a request is about to insert still fits         *)
(* (RoomIsLeft), since a second creation for the same issue is excepted.   *)
(***************************************************************************)

OcJobs == [op : {"oc"}, stage : {"look", "save"}, row : Oc, to : OcStatus]
CreateIssueJobs == [op : {"createIssue"}, stage : {"insert"}, on : Issues, qty : Nat]
ConfirmIssueJobs == [op : {"confirmIssue"}, stage : {"save", "count", "look", "issued"},
                     on : Issues]
CreateReceiptJobs == [op : {"createOutReceipt"}, stage : {"insert"}, on : OutReceipts,
                      issue : Issues, qty : Nat]
ConfirmReceiptJobs == [op : {"confirmOutReceipt"},
                       stage : {"save", "count", "look", "inspecting"}, on : OutReceipts]
ReceiptStatusJobs == [op : {"confirmOutReceipt"}, stage : {"status"}, on : OutReceipts,
                      to : OcStatus]
OutJobs == OcJobs \cup CreateIssueJobs \cup ConfirmIssueJobs \cup CreateReceiptJobs
           \cup ConfirmReceiptJobs \cup ReceiptStatusJobs \cup {NoJob}

CountsIssue(j) == j.op = "confirmIssue" /\ j.stage = "count"
CountsReceipt(j) == j.op = "confirmOutReceipt" /\ j.stage = "count"

\* A document that is counted is confirmed, and one request counts it.
CountedOnce ==
  miscounted = {} => \A c \in Clients :
    /\ CountsIssue(job[c]) =>
         /\ issue[job[c].on].status = "CONFIRMED"
         /\ \A d \in Clients : CountsIssue(job[d]) /\ job[d].on = job[c].on => c = d
    /\ CountsReceipt(job[c]) =>
         /\ outReceipt[job[c].on].status \notin {"none", "PENDING"}
         /\ \A d \in Clients : CountsReceipt(job[d]) /\ job[d].on = job[c].on => c = d

IssuesCounted == {i \in Issues : issue[i].status = "CONFIRMED"} \ Uncounted("confirmIssue")
ReceiptsCounted ==
  {r \in OutReceipts : outReceipt[r].status \notin {"none", "PENDING"}}
    \ Uncounted("confirmOutReceipt")

QuantitiesAddUp ==
  ~stale /\ miscounted = {} => /\ oc.issued = QtyOf(issue, IssuesCounted)
                               /\ oc.received = QtyOf(outReceipt, ReceiptsCounted)

\* What an issue leaves room for, the receipt that is about to be created included
Fits(i, q) == issue[i].status = "CONFIRMED" /\ 10 * (ReceivedFor(i) + q) <= 11 * issue[i].qty
RoomIsLeft ==
  \A i \in Issues \ crowded :
    /\ ReceiptsOf(i) # {} => Fits(i, 0)
    /\ \A c \in Clients : job[c].op = "createOutReceipt" /\ job[c].issue = i
                            => Fits(i, job[c].qty)

\* A receipt that a request confirms has been created.
HasReceipt(j) == j.op = "confirmOutReceipt" => outReceipt[j.on].status # "none"
ConfirmedExist == \A c \in Clients : HasReceipt(job[c])

OutInv ==
  /\ OutTypeOK
  /\ job \in [Clients -> OutJobs]
  /\ ConfirmedExist /\ CountedOnce /\ QuantitiesAddUp /\ RoomIsLeft

-----------------------------------------------------------------------------
LEMMA JobsOfOut ==
  ASSUME NEW j \in OutJobs
  PROVE  /\ j.op \in {"oc", "createIssue", "confirmIssue", "createOutReceipt",
                      "confirmOutReceipt", "none"}
         /\ j.op = "oc" => j \in OcJobs
         /\ j.op = "createIssue" => j \in CreateIssueJobs
         /\ j.op = "confirmIssue" => j \in ConfirmIssueJobs
         /\ j.op = "createOutReceipt" => j \in CreateReceiptJobs
         /\ j.op = "confirmOutReceipt" => /\ j.on \in OutReceipts
                                          /\ j.stage # "status" => j \in ConfirmReceiptJobs
                                          /\ j.stage = "status" => j \in ReceiptStatusJobs
BY DEF OutJobs, OcJobs, CreateIssueJobs, ConfirmIssueJobs, CreateReceiptJobs,
       ConfirmReceiptJobs, ReceiptStatusJobs, NoJob

LEMMA NoOutJob ==
  /\ NoJob \in OutJobs /\ NoJob.op = "none"
  /\ ~CountsIssue(NoJob) /\ ~CountsReceipt(NoJob) /\ HasReceipt(NoJob)
BY DEF NoJob, OutJobs, CountsIssue, CountsReceipt, HasReceipt

(* The sums *)

\* The documents of two tables have the same quantities on S ...
SameQty(D, a, b, S) ==
  /\ IsFiniteSet(D) /\ DOMAIN a = D /\ DOMAIN b = D /\ S \subseteq D
  /\ \A x \in S : a[x].qty \in Nat /\ b[x].qty = a[x].qty

\* ... and so these add up to the same.
LEMMA QtyIsSame ==
  ASSUME NEW D, NEW a, NEW b, NEW S, SameQty(D, a, b, S)
  PROVE  QtyOf(b, S) = QtyOf(a, S) /\ QtyOf(a, S) \in Nat
<1> DEFINE f == [x \in D |-> a[x].qty]
           h == [x \in D |-> b[x].qty]
<1>1. \A x \in S : f[x] \in Nat /\ h[x] = f[x]
  BY DEF SameQty
<1>2. IsFiniteSet(S) /\ DOMAIN a = D /\ DOMAIN b = D
  BY FS_Subset DEF SameQty
<1>3. QtyOf(a, S) = SumFunctionOnSet(f, S) /\ QtyOf(b, S) = SumFunctionOnSet(h, S)
  BY <1>2 DEF QtyOf
<1> HIDE DEF f, h
<1>4. \A x \in S : f[x] \in Int /\ h[x] = f[x]
  BY <1>1
<1>5. SumFunctionOnSet(f, S) = SumFunctionOnSet(h, S)
  BY <1>2, <1>4, SumIsSame
<1>6. SumFunctionOnSet(f, S) \in Nat
  BY <1>1, <1>2, SumIsNat
<1> QED
  BY <1>3, <1>5, <1>6

\* One more document
OneMore(D, a, S, y) == SameQty(D, a, a, S \cup {y}) /\ y \notin S

LEMMA QtyOfMore ==
  ASSUME NEW D, NEW a, NEW S, NEW y, OneMore(D, a, S, y)
  PROVE  QtyOf(a, S \cup {y}) = QtyOf(a, S) + a[y].qty
<1> DEFINE f == [x \in D |-> a[x].qty]
<1>1. /\ \A x \in S \cup {y} : f[x] \in Nat
      /\ f[y] = a[y].qty
  BY DEF SameQty, OneMore
<1>2. IsFiniteSet(S) /\ DOMAIN a = D
  BY FS_Subset DEF SameQty, OneMore
<1>3. \A T : QtyOf(a, T) = SumFunctionOnSet(f, T)
  BY <1>2 DEF QtyOf
<1> HIDE DEF f
<1>4. (\A x \in S : f[x] \in Int) /\ f[y] \in Int
  BY <1>1
<1>5. SumFunctionOnSet(f, S \cup {y}) = f[y] + SumFunctionOnSet(f, S)
  BY <1>2, <1>4, SumOfMore DEF OneMore
<1>6. SumFunctionOnSet(f, S) \in Int
  BY <1>2, <1>4, SumIsInt
<1> QED
  BY <1>1, <1>3, <1>4, <1>5, <1>6

LEMMA OutInitInv == ReqInit /\ OutInit => OutInv
<1> SUFFICES ASSUME ReqInit, OutInit PROVE OutInv
  OBVIOUS
<1>1. /\ job = [c \in Clients |-> NoJob] /\ NoJob \in OutJobs
      /\ oc = [status |-> "DRAFT", issued |-> 0, received |-> 0, inspected |-> 0]
      /\ issue = [i \in Issues |-> [status |-> "none", qty |-> 0]]
  BY NoOutJob DEF ReqInit, OutInit, NoDocument
<1>2. PICK k \in Issues :
        outReceipt = [r \in OutReceipts |-> [status |-> "none", qty |-> 0, issue |-> k]]
  BY DEF OutInit
<1>3. \A c \in Clients : job[c].op = "none"
  BY <1>1 DEF NoJob
<1>4. OutTypeOK
  <2>1. oc \in Oc /\ issue \in [Issues -> Issue] /\ outReceipt \in [OutReceipts -> OutReceipt]
    BY <1>1, <1>2 DEF Oc, OcStatus, Issue, OutReceipt
  <2>2. stale \in BOOLEAN
    BY Zenon DEF OutInit
  <2> QED
    BY <2>1, <2>2 DEF OutInit, OutTypeOK
<1>5. CountedOnce /\ ConfirmedExist
  BY <1>3 DEF CountedOnce, CountsIssue, CountsReceipt, ConfirmedExist, HasReceipt
<1>6. IssuesCounted = {} /\ ReceiptsCounted = {} /\ \A i \in Issues : ReceiptsOf(i) = {}
  BY <1>1, <1>2 DEF IssuesCounted, ReceiptsCounted, ReceiptsOf
<1>7. QuantitiesAddUp
  BY <1>1, <1>6, SumOfNone DEF QuantitiesAddUp, QtyOf
<1>8. RoomIsLeft
  BY <1>3, <1>6 DEF RoomIsLeft
<1> QED
  BY <1>1, <1>4, <1>5, <1>7, <1>8 DEF OutInv

-----------------------------------------------------------------------------
(* What a step leaves as it was *)

\* Receipts keep their quantities, and issues that are confirmed theirs.
LEMMA RoomStays ==
  ASSUME OutInv, OutTypeOK', crowded' = crowded,
         \A r \in OutReceipts : /\ outReceipt'[r].status = "none" <=> outReceipt[r].status = "none"
                                /\ outReceipt'[r].issue = outReceipt[r].issue
                                /\ outReceipt'[r].qty = outReceipt[r].qty,
         \A i \in Issues : issue[i].status = "CONFIRMED" =>
                             issue'[i].status = "CONFIRMED" /\ issue'[i].qty = issue[i].qty,
         \A d \in Clients : job'[d].op = "createOutReceipt" => job'[d] = job[d]
  PROVE  RoomIsLeft'
<1>1. \A i \in Issues : ReceiptsOf(i)' = ReceiptsOf(i)
  BY DEF ReceiptsOf
<1>2. \A i \in Issues : ReceivedFor(i)' = ReceivedFor(i)
  <2> SUFFICES ASSUME NEW i \in Issues PROVE ReceivedFor(i)' = ReceivedFor(i)
    OBVIOUS
  <2>1. PICK a, b, S : a = outReceipt /\ b = outReceipt' /\ S = ReceiptsOf(i)
    OBVIOUS
  <2>2. SameQty(OutReceipts, a, b, S)
    BY <2>1, DocumentsAssumption DEF SameQty, OutInv, OutTypeOK, OutReceipt, ReceiptsOf
  <2>3. QtyOf(b, S) = QtyOf(a, S)
    BY <2>2, QtyIsSame
  <2> QED
    BY <1>1, <2>1, <2>3 DEF ReceivedFor
<1>3. \A i \in Issues : \A q : Fits(i, q) => Fits(i, q)'
  BY <1>2 DEF Fits
<1> SUFFICES ASSUME NEW i \in Issues \ crowded
             PROVE  /\ ReceiptsOf(i) # {} => Fits(i, 0)'
                    /\ \A c \in Clients : job'[c].op = "createOutReceipt" /\ job'[c].issue = i
                                            => Fits(i, job[c].qty)'
  BY <1>1 DEF RoomIsLeft
<1>4. ReceiptsOf(i) # {} => Fits(i, 0)'
  BY <1>3 DEF OutInv, RoomIsLeft
<1>5. ASSUME NEW c \in Clients, job'[c].op = "createOutReceipt", job'[c].issue = i
      PROVE  Fits(i, job[c].qty)'
  <2>1. PICK q : q = job[c].qty
    OBVIOUS
  <2>2. Fits(i, q)
    BY <1>5, <2>1 DEF OutInv, RoomIsLeft
  <2>3. Fits(i, q)' /\ job'[c].qty = q
    BY <1>3, <1>5, <2>1, <2>2
  <2> QED
    BY <2>3 DEF Fits
<1> QED
  BY <1>4, <1>5

\* The documents that are counted are the same, and so are their quantities.
LEMMA SumsStay ==
  ASSUME OutInv, stale => stale', miscounted \subseteq miscounted',
         ~stale' /\ miscounted' = {} =>
           /\ oc'.issued = oc.issued /\ oc'.received = oc.received
           /\ IssuesCounted' = IssuesCounted /\ ReceiptsCounted' = ReceiptsCounted
           /\ DOMAIN issue' = Issues /\ DOMAIN outReceipt' = OutReceipts
           /\ \A i \in IssuesCounted : issue'[i].qty = issue[i].qty
           /\ \A r \in ReceiptsCounted : outReceipt'[r].qty = outReceipt[r].qty
  PROVE  QuantitiesAddUp'
<1> SUFFICES ASSUME ~stale', miscounted' = {}
             PROVE  /\ oc.issued = QtyOf(issue', IssuesCounted)
                    /\ oc.received = QtyOf(outReceipt', ReceiptsCounted)
  BY DEF QuantitiesAddUp
<1>1. oc.issued = QtyOf(issue, IssuesCounted) /\ oc.received = QtyOf(outReceipt, ReceiptsCounted)
  BY DEF OutInv, QuantitiesAddUp
<1>2. QtyOf(issue', IssuesCounted) = QtyOf(issue, IssuesCounted)
  <2>1. PICK a, b, S : a = issue /\ b = issue' /\ S = IssuesCounted
    OBVIOUS
  <2>2. SameQty(Issues, a, b, S)
    BY <2>1, DocumentsAssumption DEF SameQty, OutInv, OutTypeOK, Issue, IssuesCounted
  <2> QED
    BY <2>1, <2>2, QtyIsSame
<1>3. QtyOf(outReceipt', ReceiptsCounted) = QtyOf(outReceipt, ReceiptsCounted)
  <2>1. PICK a, b, S : a = outReceipt /\ b = outReceipt' /\ S = ReceiptsCounted
    OBVIOUS
  <2>2. SameQty(OutReceipts, a, b, S)
    BY <2>1, DocumentsAssumption DEF SameQty, OutInv, OutTypeOK, OutReceipt, ReceiptsCounted
  <2> QED
    BY <2>1, <2>2, QtyIsSame
<1> QED
  BY <1>1, <1>2, <1>3

\* Client c goes on with j, and neither counts a document.
LEMMA CountsStay ==
  ASSUME OutInv, NEW c \in Clients, NEW j \in OutJobs, job' = [job EXCEPT ![c] = j],
         ~CountsIssue(j), ~CountsReceipt(j), ~CountsIssue(job[c]), ~CountsReceipt(job[c])
  PROVE  /\ Uncounted("confirmIssue")' = Uncounted("confirmIssue")
         /\ Uncounted("confirmOutReceipt")' = Uncounted("confirmOutReceipt")
<1>1. job'[c] = j /\ \A d \in Clients \ {c} : job'[d] = job[d]
  BY DEF OutInv
<1> QED
  BY <1>1 DEF Uncounted, At, CountsIssue, CountsReceipt

\* A step that changes no document
LEMMA OutGoesOn ==
  ASSUME OutInv, NEW c \in Clients, NEW j \in OutJobs, job' = [job EXCEPT ![c] = j],
         OutTypeOK', UNCHANGED <<issue, outReceipt, crowded>>,
         ~CountsIssue(j), ~CountsReceipt(j), HasReceipt(j), j.op # "createOutReceipt",
         stale => stale', miscounted \subseteq miscounted',
         stale' \/ (oc'.issued = oc.issued /\ oc'.received = oc.received),
         miscounted' # {} \/ (~CountsIssue(job[c]) /\ ~CountsReceipt(job[c]))
  PROVE  OutInv'
<1>1. /\ job' \in [Clients -> OutJobs]
      /\ job'[c] = j /\ \A d \in Clients \ {c} : job'[d] = job[d]
  BY DEF OutInv
<1>2. CountedOnce'
  BY <1>1 DEF OutInv, CountedOnce, CountsIssue, CountsReceipt
<1>3. RoomIsLeft'
  BY <1>1, RoomStays
<1>4. miscounted' = {} => IssuesCounted' = IssuesCounted /\ ReceiptsCounted' = ReceiptsCounted
  BY CountsStay DEF IssuesCounted, ReceiptsCounted
<1>5. DOMAIN issue' = Issues /\ DOMAIN outReceipt' = OutReceipts
  BY DEF OutInv, OutTypeOK
<1>6. QuantitiesAddUp'
  BY <1>4, <1>5, SumsStay
<1>7. ConfirmedExist'
  BY <1>1 DEF OutInv, ConfirmedExist, HasReceipt
<1> QED
  BY <1>1, <1>2, <1>3, <1>6, <1>7 DEF OutInv

\* Types: what a step that writes the order leaves of the rest
LEMMA OutTypesStay ==
  ASSUME OutInv, oc' \in Oc, UNCHANGED <<issue, outReceipt, crowded>>,
         inspection' = inspection \/ inspection' \in [OutReceipts -> {"none", "PENDING", "PASSED"}],
         stale' \in BOOLEAN, miscounted' \subseteq Issues \cup OutReceipts
  PROVE  OutTypeOK'
<1>1. /\ issue' \in [Issues -> Issue] /\ outReceipt' \in [OutReceipts -> OutReceipt]
      /\ inspection' \in [OutReceipts -> {"none", "PENDING", "PASSED"}]
      /\ crowded' \subseteq Issues
  BY DEF OutInv, OutTypeOK
<1> QED
  BY <1>1, Zenon DEF OutTypeOK

-----------------------------------------------------------------------------
(* The steps *)

\* A request that writes at most the status of the order
LEMMA QuietStep ==
  ASSUME OutInv, NEW c \in Clients, NEW j \in OutJobs, job' = [job EXCEPT ![c] = j],
         ~CountsIssue(j), ~CountsReceipt(j), HasReceipt(j), j.op # "createOutReceipt",
         ~CountsIssue(job[c]), ~CountsReceipt(job[c]),
         UNCHANGED <<issue, outReceipt, stale, miscounted, crowded>>,
         oc' \in Oc, oc'.issued = oc.issued, oc'.received = oc.received,
         inspection' = inspection \/ inspection' \in [OutReceipts -> {"none", "PENDING", "PASSED"}]
  PROVE  OutInv'
<1>1. stale' \in BOOLEAN
  BY Zenon DEF OutInv, OutTypeOK
<1>2. miscounted' \subseteq Issues \cup OutReceipts
  BY DEF OutInv, OutTypeOK
<1>3. OutTypeOK'
  BY <1>1, <1>2, OutTypesStay
<1> QED
  BY <1>3, OutGoesOn

LEMMA OcIsTyped ==
  ASSUME OutInv
  PROVE  oc \in Oc /\ oc.status \in OcStatus /\ oc.issued \in Nat /\ oc.received \in Nat
BY DEF OutInv, OutTypeOK, Oc

LEMMA StatusWritten ==
  ASSUME NEW row \in Oc, NEW to \in OcStatus
  PROVE  /\ [row EXCEPT !.status = to] \in Oc
         /\ [row EXCEPT !.status = to].issued = row.issued
         /\ [row EXCEPT !.status = to].received = row.received
BY DEF Oc

\* Requests begin, look and go on, or end.
LEMMA OcRequestKeeps ==
  ASSUME OutInv, NEW c \in Clients, ConfirmOc(c) \/ CancelOc(c) PROVE OutInv'
<1>1. PICK j : /\ j \in OutJobs /\ j.op = "oc" /\ job' = [job EXCEPT ![c] = j]
  <2>1. \A stage \in {"look", "save"} : \A to \in OcStatus :
          /\ [op |-> "oc", stage |-> stage, row |-> oc, to |-> to] \in OutJobs
          /\ [op |-> "oc", stage |-> stage, row |-> oc, to |-> to].op = "oc"
    BY OcIsTyped DEF OutJobs, OcJobs
  <2>2. "CONFIRMED" \in OcStatus /\ "CANCELLED" \in OcStatus
    BY DEF OcStatus
  <2>3. CASE ConfirmOc(c)
    BY <2>1, <2>2, <2>3 DEF ConfirmOc, Accept
  <2>4. CASE CancelOc(c)
    BY <2>1, <2>2, <2>4 DEF CancelOc, Accept
  <2> QED
    BY <2>3, <2>4
<1>2. UNCHANGED <<oc, issue, outReceipt, inspection, stale, miscounted, crowded>>
      /\ job[c] = NoJob
  BY DEF ConfirmOc, CancelOc, Accept, outData, outDocs
<1> QED
  BY <1>1, <1>2, OcIsTyped, NoOutJob, QuietStep DEF CountsIssue, CountsReceipt, HasReceipt

LEMMA CancelOcLookKeeps == ASSUME OutInv, NEW c \in Clients, CancelOcLook(c) PROVE OutInv'
<1>1. /\ job[c].op = "oc"
      /\ UNCHANGED <<oc, issue, outReceipt, inspection, stale, miscounted, crowded>>
  BY DEF CancelOcLook, At, outData, outDocs
<1>2. PICK j : /\ j \in OutJobs /\ (j.op = "oc" \/ j.op = "none")
               /\ job' = [job EXCEPT ![c] = j]
  <2>1. job[c] \in OcJobs
    BY <1>1, JobsOfOut DEF OutInv
  <2>2. [job[c] EXCEPT !.stage = "save"] \in OcJobs /\ [job[c] EXCEPT !.stage = "save"].op = "oc"
    BY <2>1 DEF OcJobs
  <2>3. [job[c] EXCEPT !.stage = "save"] \in OutJobs
    BY <2>2 DEF OutJobs
  <2> QED
    BY <2>2, <2>3, NoOutJob DEF CancelOcLook, Reply, Continue
<1> QED
  BY <1>1, <1>2, OcIsTyped, QuietStep DEF CountsIssue, CountsReceipt, HasReceipt

LEMMA SaveOcKeeps == ASSUME OutInv, NEW c \in Clients, SaveOc(c) PROVE OutInv'
<1>1. PICK row, to : row = job[c].row /\ to = job[c].to
  OBVIOUS
<1>2. /\ job[c].op = "oc" /\ job' = [job EXCEPT ![c] = NoJob]
      /\ oc' = [row EXCEPT !.status = to]
      /\ stale' = (stale \/ row.issued # oc.issued \/ row.received # oc.received)
      /\ UNCHANGED <<issue, outReceipt, inspection, miscounted, crowded>>
  BY <1>1 DEF SaveOc, At, Reply, Continue
<1>3. row \in Oc /\ to \in OcStatus
  BY <1>1, <1>2, JobsOfOut DEF OutInv, OcJobs
<1>4. oc' \in Oc /\ oc'.issued = row.issued /\ oc'.received = row.received
  BY <1>2, <1>3, StatusWritten
<1>5. stale' \in BOOLEAN /\ (stale => stale')
      /\ (stale' \/ (row.issued = oc.issued /\ row.received = oc.received))
  BY <1>2, Zenon DEF OutInv, OutTypeOK
<1>6. miscounted' \subseteq Issues \cup OutReceipts
  BY <1>2 DEF OutInv, OutTypeOK
<1>7. OutTypeOK'
  BY <1>2, <1>4, <1>5, <1>6, OutTypesStay
<1> QED
  BY <1>2, <1>4, <1>5, <1>7, NoOutJob, OutGoesOn DEF CountsIssue, CountsReceipt, HasReceipt

LEMMA CreateIssueKeeps ==
  ASSUME OutInv, NEW c \in Clients, NEW i \in Issues, NEW q \in 1..Planned, CreateIssue(c, i, q)
  PROVE  OutInv'
<1> DEFINE j == [op |-> "createIssue", stage |-> "insert", on |-> i, qty |-> q]
<1>1. /\ job[c] = NoJob /\ job' = [job EXCEPT ![c] = j]
      /\ UNCHANGED <<oc, issue, outReceipt, inspection, stale, miscounted, crowded>>
  BY DEF CreateIssue, Accept, outData, outDocs
<1>2. j \in OutJobs /\ j.op = "createIssue"
  BY PlannedAssumption DEF OutJobs, CreateIssueJobs
<1> HIDE DEF j
<1> QED
  BY <1>1, <1>2, OcIsTyped, NoOutJob, QuietStep DEF CountsIssue, CountsReceipt, HasReceipt

LEMMA ConfirmIssueKeeps ==
  ASSUME OutInv, NEW c \in Clients, NEW i \in Issues, ConfirmIssue(c, i) PROVE OutInv'
<1> DEFINE j == [op |-> "confirmIssue", stage |-> "save", on |-> i]
<1>1. /\ job[c] = NoJob /\ job' = [job EXCEPT ![c] = j]
      /\ UNCHANGED <<oc, issue, outReceipt, inspection, stale, miscounted, crowded>>
  BY DEF ConfirmIssue, Accept, outData, outDocs
<1>2. j \in OutJobs /\ j.op = "confirmIssue" /\ j.stage = "save"
  BY DEF OutJobs, ConfirmIssueJobs
<1> HIDE DEF j
<1> QED
  BY <1>1, <1>2, OcIsTyped, NoOutJob, QuietStep DEF CountsIssue, CountsReceipt, HasReceipt

LEMMA LookAfterIssueKeeps == ASSUME OutInv, NEW c \in Clients, LookAfterIssue(c) PROVE OutInv'
<1>1. /\ job[c].op = "confirmIssue" /\ job[c].stage = "look"
      /\ UNCHANGED <<oc, issue, outReceipt, inspection, stale, miscounted, crowded>>
  BY DEF LookAfterIssue, At, outData, outDocs
<1>2. PICK j : /\ j \in OutJobs
               /\ (j.op = "confirmIssue" /\ j.stage = "issued") \/ j.op = "none"
               /\ job' = [job EXCEPT ![c] = j]
  <2>1. job[c] \in ConfirmIssueJobs
    BY <1>1, JobsOfOut DEF OutInv
  <2>2. /\ [job[c] EXCEPT !.stage = "issued"] \in ConfirmIssueJobs
        /\ [job[c] EXCEPT !.stage = "issued"].op = "confirmIssue"
        /\ [job[c] EXCEPT !.stage = "issued"].stage = "issued"
    BY <2>1 DEF ConfirmIssueJobs
  <2>3. [job[c] EXCEPT !.stage = "issued"] \in OutJobs
    BY <2>2 DEF OutJobs
  <2> QED
    BY <2>2, <2>3, NoOutJob DEF LookAfterIssue, Reply, Continue
<1> QED
  BY <1>1, <1>2, OcIsTyped, QuietStep DEF CountsIssue, CountsReceipt, HasReceipt

LEMMA MarkIssuedKeeps == ASSUME OutInv, NEW c \in Clients, MarkIssued(c) PROVE OutInv'
<1>1. /\ job[c].op = "confirmIssue" /\ job[c].stage = "issued"
      /\ job' = [job EXCEPT ![c] = NoJob] /\ oc' = [oc EXCEPT !.status = "ISSUED"]
      /\ UNCHANGED <<issue, outReceipt, inspection, stale, miscounted, crowded>>
  BY DEF MarkIssued, At, Reply, Continue
<1>2. oc' \in Oc /\ oc'.issued = oc.issued /\ oc'.received = oc.received
  <2>1. "ISSUED" \in OcStatus
    BY DEF OcStatus
  <2> QED
    BY <1>1, <2>1, OcIsTyped, StatusWritten
<1> QED
  BY <1>1, <1>2, NoOutJob, QuietStep DEF CountsIssue, CountsReceipt, HasReceipt

LEMMA ConfirmOutReceiptKeeps ==
  ASSUME OutInv, NEW c \in Clients, NEW r \in OutReceipts, ConfirmOutReceipt(c, r) PROVE OutInv'
<1> DEFINE j == [op |-> "confirmOutReceipt", stage |-> "save", on |-> r]
<1>1. /\ job[c] = NoJob /\ job' = [job EXCEPT ![c] = j]
      /\ UNCHANGED <<oc, issue, outReceipt, inspection, stale, miscounted, crowded>>
  BY DEF ConfirmOutReceipt, Accept, outData, outDocs
<1>2. j \in OutJobs /\ j.op = "confirmOutReceipt" /\ j.stage = "save" /\ HasReceipt(j)
  BY DEF OutJobs, ConfirmReceiptJobs, ConfirmOutReceipt, HasReceipt
<1> HIDE DEF j
<1> QED
  BY <1>1, <1>2, OcIsTyped, NoOutJob, QuietStep DEF CountsIssue, CountsReceipt, HasReceipt

LEMMA LookAfterReceiptKeeps ==
  ASSUME OutInv, NEW c \in Clients, LookAfterReceipt(c) PROVE OutInv'
<1>1. PICK r, to : /\ r = job[c].on
                   /\ to = IF oc.received + outReceipt[r].qty >= Planned
                           THEN "RECEIVED" ELSE "PARTIAL_RECEIVED"
  OBVIOUS
<1> DEFINE j == [op |-> "confirmOutReceipt", stage |-> "status", on |-> r, to |-> to]
<1>2. /\ job[c].op = "confirmOutReceipt" /\ job[c].stage = "look"
      /\ job' = [job EXCEPT ![c] = j]
      /\ UNCHANGED <<oc, issue, outReceipt, inspection, stale, miscounted, crowded>>
  BY <1>1 DEF LookAfterReceipt, At, Continue, outData, outDocs
<1>3. r \in OutReceipts /\ to \in OcStatus
  BY <1>1, <1>2, JobsOfOut DEF OutInv, OcStatus
<1>4. j \in OutJobs /\ j.op = "confirmOutReceipt" /\ j.stage = "status" /\ HasReceipt(j)
  BY <1>1, <1>2, <1>3 DEF OutJobs, ReceiptStatusJobs, OutInv, ConfirmedExist, HasReceipt
<1> HIDE DEF j
<1> QED
  BY <1>2, <1>4, OcIsTyped, QuietStep DEF CountsIssue, CountsReceipt, HasReceipt

LEMMA MarkReceivedKeeps == ASSUME OutInv, NEW c \in Clients, MarkReceived(c) PROVE OutInv'
<1>1. PICK r, to : r = job[c].on /\ to = job[c].to
  OBVIOUS
<1> DEFINE j == [op |-> "confirmOutReceipt", stage |-> "inspecting", on |-> r]
<1>2. /\ job[c].op = "confirmOutReceipt" /\ job[c].stage = "status"
      /\ job' = [job EXCEPT ![c] = j] /\ oc' = [oc EXCEPT !.status = to]
      /\ UNCHANGED <<issue, outReceipt, inspection, stale, miscounted, crowded>>
  BY <1>1 DEF MarkReceived, At, Continue
<1>3. r \in OutReceipts /\ to \in OcStatus
  BY <1>1, <1>2, JobsOfOut DEF OutInv, ReceiptStatusJobs
<1>4. j \in OutJobs /\ j.op = "confirmOutReceipt" /\ j.stage = "inspecting" /\ HasReceipt(j)
  BY <1>1, <1>2, <1>3 DEF OutJobs, ConfirmReceiptJobs, OutInv, ConfirmedExist, HasReceipt
<1>5. oc' \in Oc /\ oc'.issued = oc.issued /\ oc'.received = oc.received
  BY <1>2, <1>3, OcIsTyped, StatusWritten
<1> HIDE DEF j
<1> QED
  BY <1>2, <1>4, <1>5, QuietStep DEF CountsIssue, CountsReceipt, HasReceipt

LEMMA MarkInspectingKeeps ==
  ASSUME OutInv, NEW c \in Clients, MarkInspecting(c) PROVE OutInv'
<1>1. PICK r : r = job[c].on
  OBVIOUS
<1>2. /\ job[c].op = "confirmOutReceipt" /\ job[c].stage = "inspecting"
      /\ job' = [job EXCEPT ![c] = NoJob] /\ oc' = [oc EXCEPT !.status = "INSPECTING"]
      /\ inspection' = inspection \/ inspection' = [inspection EXCEPT ![r] = "PENDING"]
      /\ UNCHANGED <<issue, outReceipt, stale, miscounted, crowded>>
  BY <1>1 DEF MarkInspecting, At, Reply, Continue
<1>3. oc' \in Oc /\ oc'.issued = oc.issued /\ oc'.received = oc.received
  <2>1. "INSPECTING" \in OcStatus
    BY DEF OcStatus
  <2> QED
    BY <1>2, <2>1, OcIsTyped, StatusWritten
<1>4. inspection' \in [OutReceipts -> {"none", "PENDING", "PASSED"}]
  BY <1>2 DEF OutInv, OutTypeOK
<1> QED
  BY <1>2, <1>3, <1>4, NoOutJob, QuietStep DEF CountsIssue, CountsReceipt, HasReceipt

LEMMA OutDieKeeps == ASSUME OutInv, NEW c \in Clients, OutDie(c) PROVE OutInv'
<1>1. /\ job' = [job EXCEPT ![c] = NoJob]
      /\ miscounted' = IF CountsIssue(job[c]) \/ CountsReceipt(job[c])
                       THEN miscounted \cup {job[c].on} ELSE miscounted
      /\ UNCHANGED <<oc, issue, outReceipt, inspection, stale, crowded>>
  BY DEF OutDie, Reply, Continue, At, CountsIssue, CountsReceipt, outDocs
<1>2. miscounted' \subseteq Issues \cup OutReceipts
  <2>1. CountsIssue(job[c]) => job[c].on \in Issues
    BY JobsOfOut DEF OutInv, CountsIssue, ConfirmIssueJobs
  <2>2. CountsReceipt(job[c]) => job[c].on \in OutReceipts
    BY JobsOfOut DEF OutInv, CountsReceipt
  <2> QED
    BY <1>1, <2>1, <2>2 DEF OutInv, OutTypeOK
<1>3. stale' \in BOOLEAN
  BY <1>1, Zenon DEF OutInv, OutTypeOK
<1>4. OutTypeOK'
  BY <1>1, <1>2, <1>3, OcIsTyped, OutTypesStay
<1> QED
  BY <1>1, <1>4, NoOutJob, OutGoesOn

-----------------------------------------------------------------------------
(* The steps that create, confirm and count documents *)

\* The documents that the other requests have to count
OthersCount(c, op) == {job[d].on : d \in {e \in Clients \ {c} : At(e, op, "count")}}

LEMMA UncountedAfter ==
  ASSUME OutInv, NEW c \in Clients, NEW j \in OutJobs, job' = [job EXCEPT ![c] = j], NEW op
  PROVE  /\ Uncounted(op) = OthersCount(c, op) \cup (IF At(c, op, "count") THEN {job[c].on} ELSE {})
         /\ Uncounted(op)' = OthersCount(c, op)
                              \cup (IF j.op = op /\ j.stage = "count" THEN {j.on} ELSE {})
<1>1. job'[c] = j /\ \A d \in Clients \ {c} : job'[d] = job[d]
  BY DEF OutInv
<1> QED
  BY <1>1 DEF Uncounted, At, OthersCount

\* Client c counts nothing of this kind, before and after.
LEMMA UncountedSame ==
  ASSUME OutInv, NEW c \in Clients, NEW j \in OutJobs, job' = [job EXCEPT ![c] = j], NEW op,
         ~At(c, op, "count"), j.op # op
  PROVE  Uncounted(op)' = Uncounted(op)
<1>1. ~(j.op = op /\ j.stage = "count")
  OBVIOUS
<1>2. /\ Uncounted(op) = OthersCount(c, op) \cup (IF At(c, op, "count") THEN {job[c].on} ELSE {})
      /\ Uncounted(op)' = OthersCount(c, op)
                           \cup (IF j.op = op /\ j.stage = "count" THEN {j.on} ELSE {})
  BY UncountedAfter
<1>3. Uncounted(op) = OthersCount(c, op) \cup {}
  BY <1>2
<1>4. Uncounted(op)' = OthersCount(c, op) \cup {}
  BY <1>1, <1>2
<1> QED
  BY <1>3, <1>4

\* Client c has to count one more.
LEMMA UncountedMore ==
  ASSUME OutInv, NEW c \in Clients, NEW j \in OutJobs, job' = [job EXCEPT ![c] = j], NEW op,
         ~At(c, op, "count"), j.op = op, j.stage = "count"
  PROVE  Uncounted(op)' = Uncounted(op) \cup {j.on}
BY UncountedAfter

LEMMA InsertIssueKeeps == ASSUME OutInv, NEW c \in Clients, InsertIssue(c) PROVE OutInv'
<1>1. PICK i, q : i = job[c].on /\ q = job[c].qty
  OBVIOUS
<1>2. /\ job[c].op = "createIssue" /\ job' = [job EXCEPT ![c] = NoJob]
      /\ issue[i].status = "none"
      /\ issue' = [issue EXCEPT ![i] = [status |-> "PENDING", qty |-> q]]
      /\ UNCHANGED <<oc, outReceipt, inspection, stale, miscounted, crowded>>
  BY <1>1 DEF InsertIssue, At, Reply, Continue
<1>3. i \in Issues /\ q \in Nat
  BY <1>1, <1>2, JobsOfOut DEF OutInv, CreateIssueJobs
<1>4. issue' \in [Issues -> Issue]
      /\ \A k \in Issues : k # i => issue'[k] = issue[k]
  BY <1>2, <1>3 DEF OutInv, OutTypeOK, Issue
<1>5. OutTypeOK'
  <2>1. stale' \in BOOLEAN
    BY <1>2, Zenon DEF OutInv, OutTypeOK
  <2> QED
    BY <1>2, <1>4, <2>1 DEF OutInv, OutTypeOK
<1>6. /\ job' \in [Clients -> OutJobs] /\ job'[c] = NoJob
      /\ \A d \in Clients \ {c} : job'[d] = job[d]
  BY <1>2, NoOutJob DEF OutInv
<1>7. CountedOnce'
  BY <1>2, <1>4, <1>6, NoOutJob DEF OutInv, CountedOnce, CountsIssue, CountsReceipt
<1>8. issue'[i].status = "PENDING"
  BY <1>2, <1>3 DEF OutInv, OutTypeOK
<1>9. RoomIsLeft'
  BY <1>2, <1>4, <1>5, <1>6, NoOutJob, RoomStays
<1>10. IssuesCounted' = IssuesCounted /\ ReceiptsCounted' = ReceiptsCounted
  <2>1. /\ Uncounted("confirmIssue")' = Uncounted("confirmIssue")
        /\ Uncounted("confirmOutReceipt")' = Uncounted("confirmOutReceipt")
    BY <1>2, NoOutJob, CountsStay DEF CountsIssue, CountsReceipt
  <2> QED
    BY <1>2, <1>4, <1>8, <2>1 DEF IssuesCounted, ReceiptsCounted
<1>11. QuantitiesAddUp'
  <2>1. \A k \in IssuesCounted : issue'[k].qty = issue[k].qty
    BY <1>2, <1>4 DEF IssuesCounted
  <2>2. DOMAIN issue' = Issues /\ DOMAIN outReceipt' = OutReceipts
    BY <1>5 DEF OutTypeOK
  <2> QED
    BY <1>2, <1>10, <2>1, <2>2, SumsStay
<1>12. ConfirmedExist'
  BY <1>2, <1>6, NoOutJob DEF OutInv, ConfirmedExist, HasReceipt
<1> QED
  BY <1>5, <1>6, <1>7, <1>9, <1>11, <1>12 DEF OutInv

LEMMA SaveIssueKeeps == ASSUME OutInv, NEW c \in Clients, SaveIssue(c) PROVE OutInv'
<1>1. PICK i, j : i = job[c].on /\ j = [job[c] EXCEPT !.stage = "count"]
  OBVIOUS
<1>2. /\ job[c].op = "confirmIssue" /\ job[c].stage = "save" /\ job' = [job EXCEPT ![c] = j]
      /\ issue' = [issue EXCEPT ![i].status = "CONFIRMED"]
      /\ miscounted' = IF issue[i].status = "CONFIRMED" THEN miscounted \cup {i} ELSE miscounted
      /\ UNCHANGED <<oc, outReceipt, inspection, stale, crowded>>
  BY <1>1 DEF SaveIssue, At, Continue
<1>3. /\ i \in Issues /\ j \in OutJobs
      /\ j.op = "confirmIssue" /\ j.stage = "count" /\ j.on = i
  <2>1. job[c] \in ConfirmIssueJobs
    BY <1>2, JobsOfOut DEF OutInv
  <2>2. j \in ConfirmIssueJobs /\ j.op = "confirmIssue" /\ j.stage = "count" /\ j.on = i
    BY <1>1, <2>1 DEF ConfirmIssueJobs
  <2> QED
    BY <2>2 DEF OutJobs, ConfirmIssueJobs
<1>4. /\ issue' \in [Issues -> Issue] /\ issue'[i].status = "CONFIRMED"
      /\ \A k \in Issues : issue'[k].qty = issue[k].qty /\ (k # i => issue'[k] = issue[k])
  <2>1. PICK row : row = issue[i]
    OBVIOUS
  <2>2. row \in Issue
    BY <1>3, <2>1 DEF OutInv, OutTypeOK
  <2>3. /\ [row EXCEPT !.status = "CONFIRMED"] \in Issue
        /\ [row EXCEPT !.status = "CONFIRMED"].status = "CONFIRMED"
        /\ [row EXCEPT !.status = "CONFIRMED"].qty = row.qty
    BY <2>2 DEF Issue
  <2>4. issue' = [issue EXCEPT ![i] = [row EXCEPT !.status = "CONFIRMED"]]
    BY <1>2, <2>1
  <2> QED
    BY <1>3, <2>1, <2>3, <2>4 DEF OutInv, OutTypeOK
<1>5. OutTypeOK'
  <2>1. stale' \in BOOLEAN
    BY <1>2, Zenon DEF OutInv, OutTypeOK
  <2>2. miscounted' \subseteq Issues \cup OutReceipts
    BY <1>2, <1>3 DEF OutInv, OutTypeOK
  <2> QED
    BY <1>2, <1>4, <2>1, <2>2 DEF OutInv, OutTypeOK
<1>6. /\ job' \in [Clients -> OutJobs] /\ job'[c] = j
      /\ \A d \in Clients \ {c} : job'[d] = job[d]
  BY <1>2, <1>3 DEF OutInv
<1>7. CountedOnce'
  <2>1. SUFFICES ASSUME miscounted' = {} PROVE CountedOnce'
    BY DEF CountedOnce
  <2>2. miscounted = {} /\ issue[i].status # "CONFIRMED"
    BY <1>2, <2>1
  <2>3. \A d \in Clients : CountsIssue(job[d]) => job[d].on # i
    BY <2>2 DEF OutInv, CountedOnce
  <2>4. CountsIssue(j) /\ ~CountsReceipt(j) /\ ~CountsIssue(job[c]) /\ ~CountsReceipt(job[c])
    BY <1>2, <1>3 DEF CountsIssue, CountsReceipt
  <2>5. \A d \in Clients : CountsIssue(job'[d]) /\ d # c => job[d].on \in Issues
    BY <1>6, JobsOfOut DEF OutInv, CountsIssue, ConfirmIssueJobs
  <2>6. \A d \in Clients : CountsIssue(job'[d]) => issue'[job'[d].on].status = "CONFIRMED"
    BY <1>3, <1>4, <1>6, <2>2, <2>5 DEF OutInv, CountedOnce
  <2>7. \A d, e \in Clients :
          CountsIssue(job'[d]) /\ CountsIssue(job'[e]) /\ job'[e].on = job'[d].on => d = e
    BY <1>3, <1>6, <2>2, <2>3, <2>4 DEF OutInv, CountedOnce
  <2>8. \A d \in Clients : CountsReceipt(job'[d]) =>
          /\ outReceipt'[job'[d].on].status \notin {"none", "PENDING"}
          /\ \A e \in Clients : CountsReceipt(job'[e]) /\ job'[e].on = job'[d].on => d = e
    BY <1>2, <1>6, <2>2, <2>4 DEF OutInv, CountedOnce
  <2> QED
    BY <2>6, <2>7, <2>8 DEF CountedOnce, CountsIssue, CountsReceipt
<1>8. RoomIsLeft'
  <2>1. \A d \in Clients : job'[d].op = "createOutReceipt" => job'[d] = job[d]
    BY <1>3, <1>6
  <2> QED
    BY <1>2, <1>4, <1>5, <2>1, RoomStays
<1>9. miscounted' = {} => IssuesCounted' = IssuesCounted /\ ReceiptsCounted' = ReceiptsCounted
  <2>1. SUFFICES ASSUME miscounted' = {}
                 PROVE  IssuesCounted' = IssuesCounted /\ ReceiptsCounted' = ReceiptsCounted
    OBVIOUS
  <2>2. issue[i].status # "CONFIRMED"
    BY <1>2, <2>1
  <2>3. /\ Uncounted("confirmIssue")' = Uncounted("confirmIssue") \cup {i}
        /\ Uncounted("confirmOutReceipt")' = Uncounted("confirmOutReceipt")
    <3>1. /\ ~At(c, "confirmIssue", "count") /\ ~At(c, "confirmOutReceipt", "count")
          /\ j.op # "confirmOutReceipt"
      BY <1>2, <1>3 DEF At
    <3>2. Uncounted("confirmIssue")' = Uncounted("confirmIssue") \cup {i}
      BY <1>2, <1>3, <3>1, UncountedMore
    <3>3. Uncounted("confirmOutReceipt")' = Uncounted("confirmOutReceipt")
      BY <1>2, <1>3, <3>1, UncountedSame
    <3> QED
      BY <3>2, <3>3
  <2> QED
    BY <1>2, <1>3, <1>4, <2>2, <2>3 DEF IssuesCounted, ReceiptsCounted
<1>10. QuantitiesAddUp'
  <2>1. DOMAIN issue' = Issues /\ DOMAIN outReceipt' = OutReceipts
    BY <1>5 DEF OutTypeOK
  <2>2. (\A k \in IssuesCounted : issue'[k].qty = issue[k].qty) /\ miscounted \subseteq miscounted'
    BY <1>2, <1>4 DEF IssuesCounted
  <2> QED
    BY <1>2, <1>9, <2>1, <2>2, SumsStay
<1>11. ConfirmedExist'
  BY <1>2, <1>3, <1>6 DEF OutInv, ConfirmedExist, HasReceipt
<1> QED
  BY <1>5, <1>6, <1>7, <1>8, <1>10, <1>11 DEF OutInv

LEMMA CountIssueKeeps == ASSUME OutInv, NEW c \in Clients, CountIssue(c) PROVE OutInv'
<1>1. PICK i, j, q : i = job[c].on /\ j = [job[c] EXCEPT !.stage = "look"] /\ q = issue[i].qty
  OBVIOUS
<1>2. /\ job[c].op = "confirmIssue" /\ job[c].stage = "count" /\ job' = [job EXCEPT ![c] = j]
      /\ oc' = [oc EXCEPT !.issued = oc.issued + q]
      /\ UNCHANGED <<issue, outReceipt, inspection, stale, miscounted, crowded>>
  BY <1>1 DEF CountIssue, At, Continue
<1>3. /\ i \in Issues /\ j \in OutJobs /\ q \in Nat
      /\ j.op = "confirmIssue" /\ j.stage = "look"
  <2>1. job[c] \in ConfirmIssueJobs
    BY <1>2, JobsOfOut DEF OutInv
  <2>2. i \in Issues /\ j \in ConfirmIssueJobs /\ j.op = "confirmIssue" /\ j.stage = "look"
    BY <1>1, <2>1 DEF ConfirmIssueJobs
  <2> QED
    BY <1>1, <2>2 DEF OutJobs, OutInv, OutTypeOK, Issue
<1>4. oc' \in Oc /\ oc'.issued = oc.issued + q /\ oc'.received = oc.received
  BY <1>2, <1>3 DEF OutInv, OutTypeOK, Oc
<1>5. OutTypeOK'
  <2>1. stale' \in BOOLEAN
    BY <1>2, Zenon DEF OutInv, OutTypeOK
  <2>2. miscounted' \subseteq Issues \cup OutReceipts
    BY <1>2 DEF OutInv, OutTypeOK
  <2> QED
    BY <1>2, <1>4, <2>1, <2>2, OutTypesStay
<1>6. /\ job' \in [Clients -> OutJobs] /\ job'[c] = j
      /\ \A d \in Clients \ {c} : job'[d] = job[d]
  BY <1>2, <1>3 DEF OutInv
<1>7. ~CountsIssue(j) /\ ~CountsReceipt(j)
  BY <1>3 DEF CountsIssue, CountsReceipt
<1>8. CountedOnce'
  BY <1>2, <1>6, <1>7 DEF OutInv, CountedOnce, CountsIssue, CountsReceipt
<1>9. RoomIsLeft'
  <2>1. \A d \in Clients : job'[d].op = "createOutReceipt" => job'[d] = job[d]
    BY <1>3, <1>6
  <2> QED
    BY <1>2, <1>5, <2>1, RoomStays
<1>10. ASSUME miscounted = {}
       PROVE  /\ IssuesCounted' = IssuesCounted \cup {i} /\ i \notin IssuesCounted
              /\ ReceiptsCounted' = ReceiptsCounted
  <2>1. issue[i].status = "CONFIRMED" /\ i \notin OthersCount(c, "confirmIssue")
    BY <1>1, <1>2, <1>10 DEF OutInv, CountedOnce, CountsIssue, OthersCount, At
  <2>2. /\ Uncounted("confirmIssue") = OthersCount(c, "confirmIssue") \cup {i}
        /\ Uncounted("confirmIssue")' = OthersCount(c, "confirmIssue")
    BY <1>1, <1>2, <1>3, UncountedAfter DEF At
  <2>3. Uncounted("confirmOutReceipt")' = Uncounted("confirmOutReceipt")
    <3>1. ~At(c, "confirmOutReceipt", "count") /\ j.op # "confirmOutReceipt"
      BY <1>2, <1>3 DEF At
    <3> QED
      BY <1>2, <1>3, <3>1, UncountedSame
  <2> QED
    BY <1>2, <1>3, <2>1, <2>2, <2>3 DEF IssuesCounted, ReceiptsCounted
<1>11. QuantitiesAddUp'
  <2>1. SUFFICES ASSUME ~stale, miscounted = {}
                 PROVE  /\ oc'.issued = QtyOf(issue', IssuesCounted')
                        /\ oc'.received = QtyOf(outReceipt', ReceiptsCounted')
    BY <1>2 DEF QuantitiesAddUp
  <2>2. oc.issued = QtyOf(issue, IssuesCounted) /\ oc.received = QtyOf(outReceipt, ReceiptsCounted)
    BY <2>1 DEF OutInv, QuantitiesAddUp
  <2>3. PICK a, S : a = issue /\ S = IssuesCounted
    OBVIOUS
  <2>4. OneMore(Issues, a, S, i)
    BY <1>3, <1>10, <2>1, <2>3, DocumentsAssumption
       DEF OneMore, SameQty, OutInv, OutTypeOK, Issue, IssuesCounted
  <2>5. QtyOf(a, S \cup {i}) = QtyOf(a, S) + q
    BY <1>1, <2>3, <2>4, QtyOfMore
  <2> QED
    BY <1>2, <1>4, <1>10, <2>1, <2>2, <2>3, <2>5
<1>12. ConfirmedExist'
  BY <1>2, <1>3, <1>6 DEF OutInv, ConfirmedExist, HasReceipt
<1> QED
  BY <1>5, <1>6, <1>8, <1>9, <1>11, <1>12 DEF OutInv

LEMMA SaveOutReceiptKeeps == ASSUME OutInv, NEW c \in Clients, SaveOutReceipt(c) PROVE OutInv'
<1>1. PICK r, j : r = job[c].on /\ j = [job[c] EXCEPT !.stage = "count"]
  OBVIOUS
<1>2. /\ job[c].op = "confirmOutReceipt" /\ job[c].stage = "save" /\ job' = [job EXCEPT ![c] = j]
      /\ outReceipt' = [outReceipt EXCEPT ![r].status = "INSPECTING"]
      /\ miscounted' = IF outReceipt[r].status # "PENDING"
                       THEN miscounted \cup {r} ELSE miscounted
      /\ UNCHANGED <<oc, issue, inspection, stale, crowded>>
  BY <1>1 DEF SaveOutReceipt, At, Continue
<1>3. /\ r \in OutReceipts /\ j \in OutJobs
      /\ j.op = "confirmOutReceipt" /\ j.stage = "count" /\ j.on = r
  <2>1. job[c] \in ConfirmReceiptJobs
    BY <1>2, JobsOfOut DEF OutInv
  <2>2. j \in ConfirmReceiptJobs /\ j.op = "confirmOutReceipt" /\ j.stage = "count" /\ j.on = r
    BY <1>1, <2>1 DEF ConfirmReceiptJobs
  <2> QED
    BY <2>2 DEF OutJobs, ConfirmReceiptJobs
<1>4. /\ outReceipt' \in [OutReceipts -> OutReceipt] /\ outReceipt'[r].status = "INSPECTING"
      /\ \A k \in OutReceipts : /\ outReceipt'[k].qty = outReceipt[k].qty
                                /\ outReceipt'[k].issue = outReceipt[k].issue
                                /\ k # r => outReceipt'[k] = outReceipt[k]
  <2>1. PICK row : row = outReceipt[r]
    OBVIOUS
  <2>2. row \in OutReceipt
    BY <1>3, <2>1 DEF OutInv, OutTypeOK
  <2>3. /\ [row EXCEPT !.status = "INSPECTING"] \in OutReceipt
        /\ [row EXCEPT !.status = "INSPECTING"].status = "INSPECTING"
        /\ [row EXCEPT !.status = "INSPECTING"].qty = row.qty
        /\ [row EXCEPT !.status = "INSPECTING"].issue = row.issue
    BY <2>2 DEF OutReceipt
  <2>4. outReceipt' = [outReceipt EXCEPT ![r] = [row EXCEPT !.status = "INSPECTING"]]
    BY <1>2, <2>1
  <2> QED
    BY <1>3, <2>1, <2>3, <2>4 DEF OutInv, OutTypeOK
<1>5. OutTypeOK'
  <2>1. stale' \in BOOLEAN
    BY <1>2, Zenon DEF OutInv, OutTypeOK
  <2>2. miscounted' \subseteq Issues \cup OutReceipts
    BY <1>2, <1>3 DEF OutInv, OutTypeOK
  <2> QED
    BY <1>2, <1>4, <2>1, <2>2 DEF OutInv, OutTypeOK
<1>6. /\ job' \in [Clients -> OutJobs] /\ job'[c] = j
      /\ \A d \in Clients \ {c} : job'[d] = job[d]
  BY <1>2, <1>3 DEF OutInv
<1>7. CountedOnce'
  <2>1. SUFFICES ASSUME miscounted' = {} PROVE CountedOnce'
    BY DEF CountedOnce
  <2>2. miscounted = {} /\ outReceipt[r].status = "PENDING"
    BY <1>2, <2>1
  <2>3. \A d \in Clients : CountsReceipt(job[d]) => job[d].on # r
    BY <2>2 DEF OutInv, CountedOnce
  <2>4. CountsReceipt(j) /\ ~CountsIssue(j) /\ ~CountsIssue(job[c]) /\ ~CountsReceipt(job[c])
    BY <1>2, <1>3 DEF CountsIssue, CountsReceipt
  <2>5. \A d \in Clients : CountsReceipt(job'[d]) /\ d # c => job[d].on \in OutReceipts
    BY <1>6, JobsOfOut DEF OutInv, CountsReceipt
  <2>6. \A d \in Clients :
          CountsReceipt(job'[d]) => outReceipt'[job'[d].on].status \notin {"none", "PENDING"}
    BY <1>3, <1>4, <1>6, <2>2, <2>5 DEF OutInv, CountedOnce
  <2>7. \A d, e \in Clients :
          CountsReceipt(job'[d]) /\ CountsReceipt(job'[e]) /\ job'[e].on = job'[d].on => d = e
    BY <1>3, <1>6, <2>2, <2>3, <2>4 DEF OutInv, CountedOnce
  <2>8. \A d \in Clients : CountsIssue(job'[d]) =>
          /\ issue'[job'[d].on].status = "CONFIRMED"
          /\ \A e \in Clients : CountsIssue(job'[e]) /\ job'[e].on = job'[d].on => d = e
    BY <1>2, <1>6, <2>2, <2>4 DEF OutInv, CountedOnce
  <2> QED
    BY <2>6, <2>7, <2>8 DEF CountedOnce, CountsIssue, CountsReceipt
<1>8. outReceipt[r].status # "none"
  BY <1>1, <1>2 DEF OutInv, ConfirmedExist, HasReceipt
<1>9. RoomIsLeft'
  <2>1. \A d \in Clients : job'[d].op = "createOutReceipt" => job'[d] = job[d]
    BY <1>3, <1>6
  <2>2. \A k \in OutReceipts : outReceipt'[k].status = "none" <=> outReceipt[k].status = "none"
    BY <1>3, <1>4, <1>8
  <2> QED
    BY <1>2, <1>4, <1>5, <2>1, <2>2, RoomStays
<1>10. miscounted' = {} => IssuesCounted' = IssuesCounted /\ ReceiptsCounted' = ReceiptsCounted
  <2>1. SUFFICES ASSUME miscounted' = {}
                 PROVE  IssuesCounted' = IssuesCounted /\ ReceiptsCounted' = ReceiptsCounted
    OBVIOUS
  <2>2. outReceipt[r].status = "PENDING"
    BY <1>2, <2>1
  <2>3. ~At(c, "confirmIssue", "count") /\ j.op # "confirmIssue"
        /\ ~At(c, "confirmOutReceipt", "count")
    BY <1>2, <1>3 DEF At
  <2>4. Uncounted("confirmOutReceipt")' = Uncounted("confirmOutReceipt") \cup {r}
    BY <1>2, <1>3, <2>3, UncountedMore
  <2>5. Uncounted("confirmIssue")' = Uncounted("confirmIssue")
    BY <1>2, <1>3, <2>3, UncountedSame
  <2> QED
    BY <1>2, <1>3, <1>4, <2>2, <2>4, <2>5 DEF IssuesCounted, ReceiptsCounted
<1>11. QuantitiesAddUp'
  <2>1. DOMAIN issue' = Issues /\ DOMAIN outReceipt' = OutReceipts
    BY <1>5 DEF OutTypeOK
  <2>2. /\ \A k \in ReceiptsCounted : outReceipt'[k].qty = outReceipt[k].qty
        /\ miscounted \subseteq miscounted'
    BY <1>2, <1>4 DEF ReceiptsCounted
  <2> QED
    BY <1>2, <1>10, <2>1, <2>2, SumsStay
<1>12. ConfirmedExist'
  BY <1>3, <1>4, <1>6, JobsOfOut DEF OutInv, ConfirmedExist, HasReceipt
<1> QED
  BY <1>5, <1>6, <1>7, <1>9, <1>11, <1>12 DEF OutInv

LEMMA CountOutReceiptKeeps == ASSUME OutInv, NEW c \in Clients, CountOutReceipt(c) PROVE OutInv'
<1>1. PICK r, j, q : r = job[c].on /\ j = [job[c] EXCEPT !.stage = "look"] /\ q = outReceipt[r].qty
  OBVIOUS
<1>2. /\ job[c].op = "confirmOutReceipt" /\ job[c].stage = "count" /\ job' = [job EXCEPT ![c] = j]
      /\ oc' = [oc EXCEPT !.received = oc.received + q]
      /\ UNCHANGED <<issue, outReceipt, inspection, stale, miscounted, crowded>>
  BY <1>1 DEF CountOutReceipt, Counted, At, Continue
<1>3. /\ r \in OutReceipts /\ j \in OutJobs /\ q \in Nat
      /\ j.op = "confirmOutReceipt" /\ j.stage = "look" /\ j.on = r
  <2>1. job[c] \in ConfirmReceiptJobs
    BY <1>2, JobsOfOut DEF OutInv
  <2>2. /\ r \in OutReceipts /\ j \in ConfirmReceiptJobs
        /\ j.op = "confirmOutReceipt" /\ j.stage = "look" /\ j.on = r
    BY <1>1, <2>1 DEF ConfirmReceiptJobs
  <2> QED
    BY <1>1, <2>2 DEF OutJobs, OutInv, OutTypeOK, OutReceipt
<1>4. oc' \in Oc /\ oc'.received = oc.received + q /\ oc'.issued = oc.issued
  BY <1>2, <1>3 DEF OutInv, OutTypeOK, Oc
<1>5. OutTypeOK'
  <2>1. stale' \in BOOLEAN
    BY <1>2, Zenon DEF OutInv, OutTypeOK
  <2>2. miscounted' \subseteq Issues \cup OutReceipts
    BY <1>2 DEF OutInv, OutTypeOK
  <2> QED
    BY <1>2, <1>4, <2>1, <2>2, OutTypesStay
<1>6. /\ job' \in [Clients -> OutJobs] /\ job'[c] = j
      /\ \A d \in Clients \ {c} : job'[d] = job[d]
  BY <1>2, <1>3 DEF OutInv
<1>7. ~CountsIssue(j) /\ ~CountsReceipt(j)
  BY <1>3 DEF CountsIssue, CountsReceipt
<1>8. CountedOnce'
  BY <1>2, <1>6, <1>7 DEF OutInv, CountedOnce, CountsIssue, CountsReceipt
<1>9. RoomIsLeft'
  <2>1. \A d \in Clients : job'[d].op = "createOutReceipt" => job'[d] = job[d]
    BY <1>3, <1>6
  <2> QED
    BY <1>2, <1>5, <2>1, RoomStays
<1>10. ASSUME miscounted = {}
       PROVE  /\ ReceiptsCounted' = ReceiptsCounted \cup {r} /\ r \notin ReceiptsCounted
              /\ IssuesCounted' = IssuesCounted
  <2>1. /\ outReceipt[r].status \notin {"none", "PENDING"}
        /\ r \notin OthersCount(c, "confirmOutReceipt")
    BY <1>1, <1>2, <1>10 DEF OutInv, CountedOnce, CountsReceipt, OthersCount, At
  <2>2. /\ Uncounted("confirmOutReceipt") = OthersCount(c, "confirmOutReceipt") \cup {r}
        /\ Uncounted("confirmOutReceipt")' = OthersCount(c, "confirmOutReceipt")
    BY <1>1, <1>2, <1>3, UncountedAfter DEF At
  <2>3. Uncounted("confirmIssue")' = Uncounted("confirmIssue")
    <3>1. ~At(c, "confirmIssue", "count") /\ j.op # "confirmIssue"
      BY <1>2, <1>3 DEF At
    <3> QED
      BY <1>2, <1>3, <3>1, UncountedSame
  <2> QED
    BY <1>2, <1>3, <2>1, <2>2, <2>3 DEF IssuesCounted, ReceiptsCounted
<1>11. QuantitiesAddUp'
  <2>1. SUFFICES ASSUME ~stale, miscounted = {}
                 PROVE  /\ oc'.issued = QtyOf(issue', IssuesCounted')
                        /\ oc'.received = QtyOf(outReceipt', ReceiptsCounted')
    BY <1>2 DEF QuantitiesAddUp
  <2>2. oc.issued = QtyOf(issue, IssuesCounted) /\ oc.received = QtyOf(outReceipt, ReceiptsCounted)
    BY <2>1 DEF OutInv, QuantitiesAddUp
  <2>3. PICK a, S : a = outReceipt /\ S = ReceiptsCounted
    OBVIOUS
  <2>4. OneMore(OutReceipts, a, S, r)
    BY <1>3, <1>10, <2>1, <2>3, DocumentsAssumption
       DEF OneMore, SameQty, OutInv, OutTypeOK, OutReceipt, ReceiptsCounted
  <2>5. QtyOf(a, S \cup {r}) = QtyOf(a, S) + q
    BY <1>1, <2>3, <2>4, QtyOfMore
  <2> QED
    BY <1>2, <1>4, <1>10, <2>1, <2>2, <2>3, <2>5
<1>12. ConfirmedExist'
  BY <1>1, <1>2, <1>3, <1>6 DEF OutInv, ConfirmedExist, HasReceipt
<1> QED
  BY <1>5, <1>6, <1>8, <1>9, <1>11, <1>12 DEF OutInv

\* What an issue leaves room for before a receipt is inserted or created
LEMMA CreateOutReceiptKeeps ==
  ASSUME OutInv, NEW c \in Clients, NEW r \in OutReceipts, NEW i \in Issues, NEW q \in 1..Planned,
         CreateOutReceipt(c, r, i, q)
  PROVE  OutInv'
<1> DEFINE j == [op |-> "createOutReceipt", stage |-> "insert", on |-> r, issue |-> i, qty |-> q]
<1>1. /\ job[c] = NoJob /\ job' = [job EXCEPT ![c] = j] /\ Fits(i, q)
      /\ UNCHANGED <<oc, issue, outReceipt, inspection, stale, miscounted, crowded>>
  BY DEF CreateOutReceipt, Accept, outData, outDocs, Fits
<1>2. j \in OutJobs /\ j.op = "createOutReceipt" /\ j.issue = i /\ j.qty = q
  BY PlannedAssumption DEF OutJobs, CreateReceiptJobs
<1> HIDE DEF j
<1>3. /\ job' \in [Clients -> OutJobs] /\ job'[c] = j
      /\ \A d \in Clients \ {c} : job'[d] = job[d]
  BY <1>1, <1>2 DEF OutInv
<1>4. OutTypeOK'
  <2>1. stale' \in BOOLEAN
    BY <1>1, Zenon DEF OutInv, OutTypeOK
  <2>2. miscounted' \subseteq Issues \cup OutReceipts
    BY <1>1 DEF OutInv, OutTypeOK
  <2> QED
    BY <1>1, <2>1, <2>2, OcIsTyped, OutTypesStay
<1>5. ~CountsIssue(j) /\ ~CountsReceipt(j) /\ HasReceipt(j)
  BY <1>2 DEF CountsIssue, CountsReceipt, HasReceipt
<1>6. CountedOnce' /\ ConfirmedExist'
  BY <1>1, <1>3, <1>5 DEF OutInv, CountedOnce, CountsIssue, CountsReceipt, ConfirmedExist, HasReceipt
<1>7. IssuesCounted' = IssuesCounted /\ ReceiptsCounted' = ReceiptsCounted
  BY <1>1, <1>2, <1>5, NoOutJob, CountsStay DEF IssuesCounted, ReceiptsCounted
<1>8. QuantitiesAddUp'
  BY <1>1, <1>7 DEF OutInv, QuantitiesAddUp
<1>9. \A k \in Issues : /\ ReceiptsOf(k)' = ReceiptsOf(k)
                        /\ \A p : Fits(k, p) => Fits(k, p)'
  BY <1>1 DEF ReceiptsOf, Fits, ReceivedFor
<1>10. RoomIsLeft'
  <2>1. SUFFICES ASSUME NEW k \in Issues \ crowded
                 PROVE  /\ ReceiptsOf(k) # {} => Fits(k, 0)'
                        /\ \A d \in Clients : job'[d].op = "createOutReceipt" /\ job'[d].issue = k
                                                => \E p : p = job'[d].qty /\ Fits(k, p)'
    BY <1>1, <1>9 DEF RoomIsLeft, Fits
  <2>2. ReceiptsOf(k) # {} => Fits(k, 0)
    BY DEF OutInv, RoomIsLeft
  <2>3. ASSUME NEW d \in Clients, job'[d].op = "createOutReceipt", job'[d].issue = k
        PROVE  \E p : p = job'[d].qty /\ Fits(k, p)
    BY <1>1, <1>2, <1>3, <2>3 DEF OutInv, RoomIsLeft
  <2> QED
    BY <1>9, <2>2, <2>3
<1> QED
  BY <1>3, <1>4, <1>6, <1>8, <1>10 DEF OutInv

LEMMA PassInspectionKeeps ==
  ASSUME OutInv, NEW r \in OutReceipts, PassInspection(r) PROVE OutInv'
<1>1. ~FromOutsourcing(InspectionEvent(r))
  BY DEF FromOutsourcing, InspectionEvent
<1>2. /\ inspection' = [inspection EXCEPT ![r] = "PASSED"]
      /\ UNCHANGED <<job, oc, issue, outReceipt, stale, miscounted, crowded>>
  BY <1>1 DEF PassInspection, Once
<1>3. OutTypeOK'
  <2>1. stale' \in BOOLEAN
    BY <1>2, Zenon DEF OutInv, OutTypeOK
  <2>2. /\ miscounted' \subseteq Issues \cup OutReceipts
        /\ inspection' \in [OutReceipts -> {"none", "PENDING", "PASSED"}]
    BY <1>2 DEF OutInv, OutTypeOK
  <2> QED
    BY <1>2, <2>1, <2>2, OcIsTyped, OutTypesStay
<1>4. IssuesCounted' = IssuesCounted /\ ReceiptsCounted' = ReceiptsCounted
  BY <1>2 DEF IssuesCounted, ReceiptsCounted, Uncounted, At
<1>5. QuantitiesAddUp'
  BY <1>2, <1>4 DEF OutInv, QuantitiesAddUp
<1>6. CountedOnce' /\ ConfirmedExist'
  BY <1>2 DEF OutInv, CountedOnce, CountsIssue, CountsReceipt, ConfirmedExist, HasReceipt
<1>7. RoomIsLeft'
  BY <1>2, <1>3, RoomStays
<1> QED
  BY <1>2, <1>3, <1>5, <1>6, <1>7 DEF OutInv

LEMMA OutStutters == ASSUME OutInv, UNCHANGED outVars PROVE OutInv'
<1>1. UNCHANGED <<job, oc, issue, outReceipt, inspection, stale, miscounted, crowded>>
  BY DEF outVars, outData, outDocs, reqVars
<1>2. OutTypeOK'
  <2>1. stale' \in BOOLEAN
    BY <1>1, Zenon DEF OutInv, OutTypeOK
  <2>2. miscounted' \subseteq Issues \cup OutReceipts
    BY <1>1 DEF OutInv, OutTypeOK
  <2> QED
    BY <1>1, <2>1, <2>2, OcIsTyped, OutTypesStay
<1>3. IssuesCounted' = IssuesCounted /\ ReceiptsCounted' = ReceiptsCounted
  BY <1>1 DEF IssuesCounted, ReceiptsCounted, Uncounted, At
<1>4. QuantitiesAddUp'
  BY <1>1, <1>3 DEF OutInv, QuantitiesAddUp
<1>5. CountedOnce' /\ ConfirmedExist'
  BY <1>1 DEF OutInv, CountedOnce, CountsIssue, CountsReceipt, ConfirmedExist, HasReceipt
<1>6. RoomIsLeft'
  BY <1>1, <1>2, RoomStays
<1> QED
  BY <1>1, <1>2, <1>4, <1>5, <1>6 DEF OutInv

LEMMA InsertOutReceiptKeeps ==
  ASSUME OutInv, NEW c \in Clients, InsertOutReceipt(c) PROVE OutInv'
<1>1. PICK r, k, q : r = job[c].on /\ k = job[c].issue /\ q = job[c].qty
  OBVIOUS
<1>2. /\ job[c].op = "createOutReceipt" /\ job' = [job EXCEPT ![c] = NoJob]
      /\ outReceipt[r].status = "none"
      /\ outReceipt' = [outReceipt EXCEPT ![r] = [status |-> "PENDING", qty |-> q, issue |-> k]]
      /\ crowded' = IF \E d \in Clients \ {c} : job[d].op = "createOutReceipt" /\ job[d].issue = k
                    THEN crowded \cup {k} ELSE crowded
      /\ UNCHANGED <<oc, issue, inspection, stale, miscounted>>
  BY <1>1 DEF InsertOutReceipt, At, Reply, Continue
<1>3. r \in OutReceipts /\ k \in Issues /\ q \in Nat
  BY <1>1, <1>2, JobsOfOut DEF OutInv, CreateReceiptJobs
<1>4. /\ outReceipt' \in [OutReceipts -> OutReceipt]
      /\ outReceipt'[r] = [status |-> "PENDING", qty |-> q, issue |-> k]
      /\ \A x \in OutReceipts : x # r => outReceipt'[x] = outReceipt[x]
  BY <1>2, <1>3 DEF OutInv, OutTypeOK, OutReceipt
<1>5. OutTypeOK'
  <2>1. stale' \in BOOLEAN
    BY <1>2, Zenon DEF OutInv, OutTypeOK
  <2>2. miscounted' \subseteq Issues \cup OutReceipts /\ crowded' \subseteq Issues
    BY <1>2, <1>3 DEF OutInv, OutTypeOK
  <2> QED
    BY <1>2, <1>4, <2>1, <2>2 DEF OutInv, OutTypeOK
<1>6. /\ job' \in [Clients -> OutJobs] /\ job'[c] = NoJob
      /\ \A d \in Clients \ {c} : job'[d] = job[d]
  BY <1>2, NoOutJob DEF OutInv
<1>7. CountedOnce'
  <2>1. SUFFICES ASSUME miscounted = {} PROVE CountedOnce'
    BY <1>2 DEF CountedOnce
  <2>2. \A d \in Clients : CountsReceipt(job'[d]) =>
          /\ d # c /\ job[d].on \in OutReceipts /\ job[d].on # r
          /\ outReceipt[job[d].on].status \notin {"none", "PENDING"}
    BY <1>2, <1>6, <2>1, NoOutJob, JobsOfOut DEF OutInv, CountedOnce, CountsReceipt
  <2>3. \A d \in Clients : CountsReceipt(job'[d]) =>
          /\ outReceipt'[job'[d].on].status \notin {"none", "PENDING"}
          /\ \A e \in Clients : CountsReceipt(job'[e]) /\ job'[e].on = job'[d].on => d = e
    BY <1>4, <1>6, <2>1, <2>2, NoOutJob DEF OutInv, CountedOnce
  <2>4. \A d \in Clients : CountsIssue(job'[d]) =>
          /\ issue'[job'[d].on].status = "CONFIRMED"
          /\ \A e \in Clients : CountsIssue(job'[e]) /\ job'[e].on = job'[d].on => d = e
    BY <1>2, <1>6, <2>1, NoOutJob DEF OutInv, CountedOnce
  <2> QED
    BY <2>3, <2>4 DEF CountedOnce, CountsIssue, CountsReceipt
<1>8. ConfirmedExist'
  BY <1>2, <1>4, <1>6, NoOutJob, JobsOfOut DEF OutInv, ConfirmedExist, HasReceipt
<1>9. IssuesCounted' = IssuesCounted /\ ReceiptsCounted' = ReceiptsCounted
  <2>1. /\ Uncounted("confirmIssue")' = Uncounted("confirmIssue")
        /\ Uncounted("confirmOutReceipt")' = Uncounted("confirmOutReceipt")
    BY <1>2, NoOutJob, CountsStay DEF CountsIssue, CountsReceipt
  <2> QED
    BY <1>2, <1>4, <2>1 DEF IssuesCounted, ReceiptsCounted
<1>10. QuantitiesAddUp'
  <2>1. \A x \in ReceiptsCounted : outReceipt'[x].qty = outReceipt[x].qty
    BY <1>2, <1>4 DEF ReceiptsCounted
  <2>2. DOMAIN issue' = Issues /\ DOMAIN outReceipt' = OutReceipts
    BY <1>5 DEF OutTypeOK
  <2> QED
    BY <1>2, <1>9, <2>1, <2>2, SumsStay
<1>11. /\ \A i \in Issues : i # k => ReceiptsOf(i)' = ReceiptsOf(i)
       /\ ReceiptsOf(k)' = ReceiptsOf(k) \cup {r} /\ r \notin ReceiptsOf(k)
       /\ \A i \in Issues : \A x \in ReceiptsOf(i) : outReceipt'[x].qty = outReceipt[x].qty
  BY <1>2, <1>3, <1>4 DEF ReceiptsOf
<1>12. \A i \in Issues : /\ QtyOf(outReceipt', ReceiptsOf(i)) = ReceivedFor(i)
                         /\ ReceivedFor(i) \in Nat
  <2> SUFFICES ASSUME NEW i \in Issues
               PROVE  /\ QtyOf(outReceipt', ReceiptsOf(i)) = ReceivedFor(i)
                      /\ ReceivedFor(i) \in Nat
    OBVIOUS
  <2>1. PICK a, b, S : a = outReceipt /\ b = outReceipt' /\ S = ReceiptsOf(i)
    OBVIOUS
  <2>2. SameQty(OutReceipts, a, b, S)
    BY <1>4, <1>11, <2>1, DocumentsAssumption
       DEF SameQty, OutInv, OutTypeOK, OutReceipt, ReceiptsOf
  <2> QED
    BY <2>1, <2>2, QtyIsSame DEF ReceivedFor
<1>13. ReceivedFor(k)' = ReceivedFor(k) + q
  <2>1. PICK b, S : b = outReceipt' /\ S = ReceiptsOf(k)
    OBVIOUS
  <2>2. OneMore(OutReceipts, b, S, r)
    <3>1. b \in [OutReceipts -> OutReceipt] /\ S \subseteq OutReceipts /\ r \notin S
      BY <1>4, <1>11, <2>1 DEF ReceiptsOf
    <3>2. \A x \in OutReceipts : b[x].qty \in Nat
      BY <3>1 DEF OutReceipt
    <3>3. DOMAIN b = OutReceipts /\ S \cup {r} \subseteq OutReceipts
      BY <1>3, <3>1
    <3>4. \A x \in S \cup {r} : b[x].qty \in Nat
      BY <3>2, <3>3
    <3>5. IsFiniteSet(OutReceipts)
      BY DocumentsAssumption
    <3>6. SameQty(OutReceipts, b, b, S \cup {r})
      BY <3>3, <3>4, <3>5, Zenon DEF SameQty
    <3> QED
      BY <3>1, <3>6 DEF OneMore
  <2>3. QtyOf(b, S \cup {r}) = QtyOf(b, S) + b[r].qty
    BY <2>2, QtyOfMore
  <2> QED
    BY <1>3, <1>4, <1>11, <1>12, <2>1, <2>3 DEF ReceivedFor
<1>14. \A i \in Issues : i # k => ReceivedFor(i)' = ReceivedFor(i)
  BY <1>11, <1>12 DEF ReceivedFor
<1>15. RoomIsLeft'
  <2>1. SUFFICES ASSUME NEW i \in Issues \ crowded'
                 PROVE  /\ ReceiptsOf(i)' # {} => Fits(i, 0)'
                        /\ \A d \in Clients : job'[d].op = "createOutReceipt" /\ job'[d].issue = i
                                                => \E p : p = job'[d].qty /\ Fits(i, p)'
    BY <1>2 DEF RoomIsLeft, Fits
  <2>2. i \notin crowded
    BY <1>2, <2>1
  <2>3. CASE i # k
    <3>1. \A p : Fits(i, p) => Fits(i, p)'
      BY <1>2, <1>14, <2>3 DEF Fits
    <3>2. ReceiptsOf(i) # {} => Fits(i, 0)
      BY <2>2 DEF OutInv, RoomIsLeft
    <3>3. ASSUME NEW d \in Clients, job'[d].op = "createOutReceipt", job'[d].issue = i
          PROVE  \E p : p = job'[d].qty /\ Fits(i, p)
      BY <1>6, <2>2, <3>3, NoOutJob DEF OutInv, RoomIsLeft
    <3> QED
      BY <1>11, <2>3, <3>1, <3>2, <3>3
  <2>4. CASE i = k
    <3>1. Fits(k, q)
      BY <1>1, <1>2, <2>2, <2>4 DEF OutInv, RoomIsLeft
    <3>2. ReceivedFor(k) + q + 0 = ReceivedFor(k) + q
      BY <1>3, <1>12
    <3>3. Fits(k, 0)'
      BY <1>2, <1>13, <3>1, <3>2 DEF Fits
    <3>4. \A d \in Clients : ~(job'[d].op = "createOutReceipt" /\ job'[d].issue = k)
      BY <1>2, <1>6, <2>1, <2>4, NoOutJob
    <3> QED
      BY <2>4, <3>3, <3>4
  <2> QED
    BY <2>3, <2>4
<1> QED
  BY <1>5, <1>6, <1>7, <1>8, <1>10, <1>15 DEF OutInv

-----------------------------------------------------------------------------
LEMMA OutNextInv == ASSUME OutInv, [OutNext]_outVars PROVE OutInv'
<1>1. ASSUME NEW c \in Clients,
             \/ ConfirmOc(c) \/ CancelOc(c) \/ CancelOcLook(c) \/ SaveOc(c)
             \/ InsertIssue(c) \/ SaveIssue(c) \/ CountIssue(c)
             \/ LookAfterIssue(c) \/ MarkIssued(c)
      PROVE  OutInv'
  BY <1>1, OcRequestKeeps, CancelOcLookKeeps, SaveOcKeeps, InsertIssueKeeps, SaveIssueKeeps,
     CountIssueKeeps, LookAfterIssueKeeps, MarkIssuedKeeps
<1>2. ASSUME NEW c \in Clients,
             \/ InsertOutReceipt(c) \/ SaveOutReceipt(c) \/ CountOutReceipt(c)
             \/ LookAfterReceipt(c) \/ MarkReceived(c) \/ MarkInspecting(c)
             \/ OutDie(c)
      PROVE  OutInv'
  BY <1>2, InsertOutReceiptKeeps, SaveOutReceiptKeeps, CountOutReceiptKeeps,
     LookAfterReceiptKeeps, MarkReceivedKeeps, MarkInspectingKeeps, OutDieKeeps
<1>3. ASSUME NEW c \in Clients, NEW i \in Issues, NEW q \in 1..Planned,
             \/ CreateIssue(c, i, q)
             \/ \E r \in OutReceipts : CreateOutReceipt(c, r, i, q)
             \/ ConfirmIssue(c, i)
      PROVE  OutInv'
  BY <1>3, CreateIssueKeeps, CreateOutReceiptKeeps, ConfirmIssueKeeps
<1>4. ASSUME NEW c \in Clients, NEW r \in OutReceipts, ConfirmOutReceipt(c, r)
      PROVE  OutInv'
  BY <1>4, ConfirmOutReceiptKeeps
<1>5. 1 \in 1..Planned
  BY PlannedAssumption
<1> QED
  BY <1>1, <1>2, <1>3, <1>4, <1>5, PassInspectionKeeps, OutStutters DEF OutNext

\* What OutInv says of the order is OrderAddsUp: an issue without receipts has
\* received nothing.
LEMMA OutInvImplies == OutInv => OrderAddsUp
<1> SUFFICES ASSUME OutInv PROVE OrderAddsUp
  OBVIOUS
<1>1. ~stale /\ miscounted = {} =>
        /\ oc.issued = QtyOf(issue, {i \in Issues : issue[i].status = "CONFIRMED"}
                                      \ Uncounted("confirmIssue"))
        /\ oc.received =
             QtyOf(outReceipt, {r \in OutReceipts :
                                  outReceipt[r].status \notin {"none", "PENDING"}}
                                 \ Uncounted("confirmOutReceipt"))
  BY DEF OutInv, QuantitiesAddUp, IssuesCounted, ReceiptsCounted
<1>2. ASSUME NEW i \in Issues \ crowded
      PROVE  /\ 10 * QtyOf(outReceipt, ReceiptsOf(i)) <= 11 * issue[i].qty
             /\ ReceiptsOf(i) # {} => issue[i].status = "CONFIRMED"
  <2>1. issue[i].qty \in Nat
    BY DEF OutInv, OutTypeOK, Issue
  <2>2. CASE ReceiptsOf(i) = {}
    <3>1. QtyOf(outReceipt, ReceiptsOf(i)) = 0
      BY <2>2, SumOfNone DEF QtyOf
    <3> QED
      BY <2>1, <2>2, <3>1
  <2>3. CASE ReceiptsOf(i) # {}
    <3>1. Fits(i, 0)
      BY <2>3 DEF OutInv, RoomIsLeft
    <3>2. PICK a, S : a = outReceipt /\ S = ReceiptsOf(i)
      OBVIOUS
    <3>3. SameQty(OutReceipts, a, a, S)
      BY <3>2, DocumentsAssumption DEF SameQty, OutInv, OutTypeOK, OutReceipt, ReceiptsOf
    <3>4. QtyOf(outReceipt, ReceiptsOf(i)) \in Nat
      BY <3>2, <3>3, QtyIsSame
    <3> QED
      BY <3>1, <3>4 DEF Fits, ReceivedFor
  <2> QED
    BY <2>2, <2>3
<1> QED
  BY <1>1, <1>2 DEF OrderAddsUp

(***************************************************************************)
(* The order, its documents and its inspections have their types, whatever *)
(* requests of OutsourcingOrderService, OutsourcingIssueService and        *)
(* OutsourcingReceiptService interleave or die.                            *)
(***************************************************************************)
THEOREM OutsourcingIsTyped == OutSpec => []OutTypeOK
<1>1. OutInv => OutTypeOK
  BY DEF OutInv
<1> QED
  BY <1>1, OutInitInv, OutNextInv, PTL DEF OutSpec

(***************************************************************************)
(* The increments of incrementIssuedQty and incrementReceivedQty keep the  *)
(* quantities of the order the sums of its confirmed documents, less those *)
(* that a request has confirmed and not counted yet; unless the row was    *)
(* saved over or a document was confirmed twice.  And the check made when  *)
(* a receipt is created bounds what is received for an issue, unless two   *)
(* receipts for it are created at once.                                    *)
(***************************************************************************)
THEOREM OrderIsSumOfDocuments == OutSpec => []OrderAddsUp
  BY OutInitInv, OutNextInv, OutInvImplies, PTL DEF OutSpec

-----------------------------------------------------------------------------
(***************************************************************************)
(* The schedule: live rows of one resource stay apart, for any number of   *)
(* rows, resources and requests, loose rows excepted.                      *)
(*                                                                         *)
(* The search of a place steps past one busy row after the other; what it  *)
(* returns is apart from every row it was given, because those are looked  *)
(* at in the order of their starts and the cursor never moves back (the    *)
(* first section). The invariant then has two parts. A request that is     *)
(* going to save a row has found a place that is free until then           *)
(* (PlacesAreFree), because whatever else is saved in between makes the    *)
(* row, or the other one, loose. While a list of rows is put off one after *)
(* the other, two of them may overlap, one moved and one not yet           *)
(* (Between); the invariant says that the rows still to be put off will,   *)
(* once they are, be apart from all those that stay (WillBeApart), which   *)
(* needs that what was read of them is what there is (RowsAreFresh).       *)
(***************************************************************************)

(* The search *)

PlacedRow == {r \in [status : SlotStatus \ {"none"}, on : Resources,
                     start : Nat, end : Nat] : r.start < r.end}

SlotTypes == slot \in [Rows -> PlacedRow \cup {NoSlot}]

LEMMA SlotIsPlaced ==
  ASSUME SlotTypes, NEW s \in Rows
  PROVE  /\ slot[s].start \in Nat /\ slot[s].end \in Nat /\ slot[s].status \in SlotStatus
         /\ slot[s] = NoSlot <=> slot[s].status = "none"
         /\ slot[s].status # "none" =>
              slot[s] \in PlacedRow /\ slot[s].start < slot[s].end
BY DEF SlotTypes, PlacedRow, NoSlot, SlotStatus

LEMMA ByStartIsSorted ==
  ASSUME SlotTypes, NEW S \in SUBSET Rows
  PROVE  /\ IsFiniteSet(S) /\ Cardinality(S) \in Nat
         /\ ByStart(S) \in [1..Cardinality(S) -> S]
         /\ \A i, j \in 1..Cardinality(S) : i # j => ByStart(S)[i] # ByStart(S)[j]
         /\ \A i, j \in 1..Cardinality(S) :
              i < j => slot[ByStart(S)[i]].start <= slot[ByStart(S)[j]].start
         /\ \A s \in S : \E i \in 1..Cardinality(S) : ByStart(S)[i] = s
<1>1. IsFiniteSet(S) /\ Cardinality(S) \in Nat
  BY FS_Subset, FS_CardinalityType, RowsAssumption
<1> DEFINE R == {p \in S \X S : slot[p[1]].start <= slot[p[2]].start}
           Sorted(q) == /\ q \in SetToSeqs(S)
                        /\ \A i, j \in DOMAIN q :
                             i < j => slot[q[i]].start <= slot[q[j]].start
<1>2. \A s \in S : slot[s].start \in Nat
  BY SlotIsPlaced
<1>3. \A x, y \in S : <<x, y>> \in R <=> slot[x].start <= slot[y].start
  OBVIOUS
<1> HIDE DEF R
<1>4. Orders(R, S)
  BY <1>2, <1>3 DEF Orders
<1>5. PICK q : Lists(q, S, R)
  BY <1>1, <1>4, ListExists
<1>6. /\ q \in [1..Cardinality(S) -> S]
      /\ \A i, j \in 1..Cardinality(S) : i # j => q[i] # q[j]
      /\ \A i, j \in 1..Cardinality(S) : i < j => <<q[i], q[j]>> \in R
  BY <1>5 DEF Lists
<1>7. \A i, j \in 1..Cardinality(S) : i < j => slot[q[i]].start <= slot[q[j]].start
  BY <1>3, <1>6
<1>8. q \in SetToSeqs(S)
  BY <1>6 DEF SetToSeqs
<1>9. Sorted(q)
  BY <1>6, <1>7, <1>8
<1>10. PICK p : p = ByStart(S)
  OBVIOUS
<1>11. p = CHOOSE r : Sorted(r)
  BY <1>10 DEF ByStart
<1> HIDE DEF Sorted
<1>12. Sorted(p)
  BY <1>9, <1>11
<1>13. /\ p \in [1..Cardinality(S) -> S]
       /\ \A i, j \in 1..Cardinality(S) : i # j => p[i] # p[j]
  BY <1>12 DEF Sorted, SetToSeqs
<1>14. \A i, j \in 1..Cardinality(S) : i < j => slot[p[i]].start <= slot[p[j]].start
  BY <1>12, <1>13 DEF Sorted
<1>15. \A s \in S : \E i \in 1..Cardinality(S) : p[i] = s
  BY <1>1, <1>13, ListHasAll
<1> QED
  BY <1>1, <1>10, <1>13, <1>14, <1>15

Gap == [at : Nat, fits : BOOLEAN]

PassRow(gap, s, hours) ==
  IF gap.fits THEN gap
  ELSE IF slot[s].start - gap.at >= hours THEN [gap EXCEPT !.fits = TRUE]
  ELSE [gap EXCEPT !.at = CursorAfter(gap.at, s)]

\* g is the fold of PassRow over the rows of q.
Passes(g, q, hours, from) ==
  g = [s \in SUBSET DOMAIN q |->
         IF s = {} THEN [at |-> from, fits |-> FALSE]
         ELSE PassRow(g[s \ {Max(s)}], q[Max(s)], hours)]

LEMMA SearchIsFold ==
  ASSUME NEW r, NEW hours, NEW from
  PROVE  NextSlot(r, hours, from)
           = (CHOOSE g : Passes(g, ByStart(InTheWay(r, from)), hours, from))
               [DOMAIN ByStart(InTheWay(r, from))].at
BY DEF NextSlot, FoldLeft, MapThenFoldSet, Passes, PassRow
IsSearch(p, q, hours, from) == p = CHOOSE g : Passes(g, q, hours, from)

SearchRuns(p, n, q, hours, from) ==
  /\ p[1..0] = [at |-> from, fits |-> FALSE]
  /\ \A k \in 0..n : p[1..k] \in Gap
  /\ \A k \in 1..n : p[1..k] = PassRow(p[1..(k - 1)], q[k], hours)

\* The state of the search after k rows: at starts of gaps it has tried.
LEMMA SearchSteps ==
  ASSUME SlotTypes, NEW n \in Nat, NEW q \in [1..n -> Rows],
         NEW hours \in Nat, NEW from \in Nat,
         NEW p, IsSearch(p, q, hours, from)
  PROVE  SearchRuns(p, n, q, hours, from)
<1>1. PICK base : base = [at |-> from, fits |-> FALSE]
  OBVIOUS
<1>2. PICK f : f = [x \in (1..n) \X Gap |-> PassRow(x[2], q[x[1]], hours)]
  OBVIOUS
<1>3. \A x \in 1..n, v \in Gap : PassRow(v, q[x], hours) \in Gap
  <2> SUFFICES ASSUME NEW x \in 1..n, NEW v \in Gap PROVE PassRow(v, q[x], hours) \in Gap
    OBVIOUS
  <2>1. q[x] \in Rows /\ slot[q[x]].end \in Nat
    BY SlotIsPlaced
  <2> QED
    BY <2>1 DEF PassRow, Gap, CursorAfter
<1>4. \A x \in 1..n, v \in Gap : f[<<x, v>>] = PassRow(v, q[x], hours)
  BY <1>2
<1>5. CanRun(n, Gap, f, base)
  <2>1. base \in Gap
    BY <1>1 DEF Gap
  <2> QED
    BY <1>3, <1>4, <2>1 DEF CanRun
<1>6. DOMAIN q = 1..n
  OBVIOUS
<1>7. PICK g : RunsOver(g, n, Gap, f, base)
  BY <1>5, RunExists
<1>8. Passes(g, q, hours, from)
  BY <1>1, <1>4, <1>6, <1>7 DEF Passes, RunsOver
<1>9. Passes(p, q, hours, from)
  BY <1>8 DEF IsSearch
<1>10. \A s \in SUBSET (1..n) :
         p[s] = IF s = {} THEN base ELSE PassRow(p[s \ {Max(s)}], q[Max(s)], hours)
  BY <1>1, <1>6, <1>9 DEF Passes
<1>11. p[1..0] = base
  <2>1. 1..0 = {} /\ {} \in SUBSET (1..n)
    OBVIOUS
  <2> QED
    BY <1>10, <2>1
<1>12. \A k \in 1..n : p[1..k] = PassRow(p[1..(k - 1)], q[k], hours)
  BY <1>10, PrefixIsLess
<1>13. StepsLike(p, n, Gap, f, base)
  BY <1>4, <1>11, <1>12 DEF StepsLike
<1>14. RunsUp(p, n, Gap, f, base)
  BY <1>5, <1>13, RunFollows
<1> QED
  BY <1>1, <1>12, <1>14 DEF RunsUp, SearchRuns

\* An operation of so many hours can start at t without a row of way.
FreeOf(way, hours, t) ==
  \A s \in way : t + hours <= slot[s].start \/ slot[s].end <= t

LEMMA GapIsFound ==
  ASSUME SlotTypes, NEW r, NEW hours \in Nat \ {0}, NEW from \in Nat
  PROVE  LET way == InTheWay(r, from)
             found == NextSlot(r, hours, from)
         IN /\ found \in Nat /\ found >= from /\ FreeOf(way, hours, found)
            /\ \A t \in from..(found - 1) : ~FreeOf(way, hours, t)
<1> DEFINE way == InTheWay(r, from)
<1>1. PICK q : q = ByStart(way)
  OBVIOUS
<1>2. PICK n : n = Cardinality(way)
  OBVIOUS
<1>3. way \in SUBSET Rows
  BY DEF InTheWay
<1>4. /\ n \in Nat /\ q \in [1..n -> way]
      /\ \A i, j \in 1..n : i < j => slot[q[i]].start <= slot[q[j]].start
      /\ \A s \in way : \E i \in 1..n : q[i] = s
  BY <1>1, <1>2, <1>3, ByStartIsSorted
<1>5. PICK p : p = CHOOSE g : Passes(g, q, hours, from)
  OBVIOUS
<1>6. /\ p[1..0] = [at |-> from, fits |-> FALSE]
      /\ \A k \in 0..n : p[1..k] \in Gap
      /\ \A k \in 1..n : p[1..k] = PassRow(p[1..(k - 1)], q[k], hours)
  <2>1. q \in [1..n -> Rows] /\ hours \in Nat
    BY <1>3, <1>4
  <2>2. IsSearch(p, q, hours, from)
    BY <1>5 DEF IsSearch
  <2> HIDE DEF way
  <2>3. SearchRuns(p, n, q, hours, from)
    BY <1>4, <2>1, <2>2, SearchSteps
  <2> QED
    BY <2>3 DEF SearchRuns
<1>7. NextSlot(r, hours, from) = p[1..n].at
  <2>1. DOMAIN q = 1..n
    BY <1>4
  <2> QED
    BY <1>1, <1>5, <2>1, SearchIsFold
<1>8. \A s \in way : /\ s \in Rows /\ slot[s].start \in Nat /\ slot[s].end \in Nat
                     /\ slot[s].start < slot[s].end
  BY <1>3, SlotIsPlaced DEF InTheWay
<1> HIDE DEF way
<1> DEFINE Tried(k) ==
             /\ p[1..k].at >= from
             /\ \A t \in from..(p[1..k].at - 1) : ~FreeOf(way, hours, t)
             /\ p[1..k].fits => FreeOf(way, hours, p[1..k].at)
             /\ ~p[1..k].fits => \A i \in 1..k : slot[q[i]].end <= p[1..k].at
           P == {k \in Nat : k <= n => Tried(k)}
<1>9. 0 \in P
  <2>1. p[1..0].at = from /\ ~p[1..0].fits
    BY <1>6
  <2>2. 1..0 = {} /\ from..(from - 1) = {}
    OBVIOUS
  <2> QED
    BY <2>1, <2>2
<1>10. ASSUME NEW k \in Nat, k \in P PROVE k + 1 \in P
  <2> SUFFICES ASSUME k + 1 <= n PROVE Tried(k + 1)
    OBVIOUS
  <2>1. PICK a : a = p[1..k]
    OBVIOUS
  <2>2. PICK b : b = p[1..(k + 1)]
    OBVIOUS
  <2>3. PICK s : s = q[k + 1]
    OBVIOUS
  <2>4. k + 1 \in 1..n /\ (k + 1) - 1 = k /\ k \in 0..n /\ k + 1 \in 0..n
    BY <1>4
  <2>5. b = PassRow(a, s, hours) /\ a \in Gap /\ b \in Gap /\ s \in way
    BY <1>4, <1>6, <2>1, <2>2, <2>3, <2>4
  <2>6. /\ a.at >= from /\ a.at \in Nat
        /\ \A t \in from..(a.at - 1) : ~FreeOf(way, hours, t)
        /\ a.fits => FreeOf(way, hours, a.at)
        /\ ~a.fits => \A i \in 1..k : slot[q[i]].end <= a.at
    <3>1. Tried(k)
      BY <1>4, <1>10
    <3>2. a.at \in Nat
      BY <2>5 DEF Gap
    <3> QED
      BY <2>1, <3>1, <3>2
  <2>7. slot[s].start \in Nat /\ slot[s].end \in Nat /\ slot[s].start < slot[s].end
    BY <1>8, <2>5
  <2>8. CASE a.fits
    <3>1. b = a
      BY <2>5, <2>8 DEF PassRow
    <3> QED
      BY <2>1, <2>2, <2>6, <2>8, <3>1
  <2>9. CASE ~a.fits /\ slot[s].start - a.at >= hours
    <3>1. b = [a EXCEPT !.fits = TRUE]
      BY <2>5, <2>9 DEF PassRow
    <3>2. b.at = a.at /\ b.fits
      BY <2>5, <3>1 DEF Gap
    <3>3. FreeOf(way, hours, a.at)
      <4> SUFFICES ASSUME NEW u \in way
                   PROVE  a.at + hours <= slot[u].start \/ slot[u].end <= a.at
        BY DEF FreeOf
      <4>1. PICK i \in 1..n : q[i] = u
        BY <1>4
      <4>2. CASE i \in 1..k
        BY <2>6, <2>9, <4>1, <4>2
      <4>3. CASE i = k + 1
        BY <2>3, <2>6, <2>7, <2>9, <4>1, <4>3
      <4>4. CASE k + 1 < i
        <5>1. slot[s].start <= slot[u].start
          BY <1>4, <2>3, <2>4, <4>1, <4>4
        <5> QED
          BY <1>8, <2>6, <2>7, <2>9, <5>1
      <4> QED
        BY <4>2, <4>3, <4>4
    <3> QED
      BY <2>2, <2>6, <3>2, <3>3
  <2>10. CASE ~a.fits /\ ~(slot[s].start - a.at >= hours)
    <3>1. b = [a EXCEPT !.at = CursorAfter(a.at, s)]
      BY <2>5, <2>10 DEF PassRow
    <3>2. b.at = CursorAfter(a.at, s) /\ ~b.fits
      BY <2>5, <2>10, <3>1 DEF Gap
    <3>3. b.at \in Nat /\ b.at >= a.at /\ b.at >= slot[s].end
          /\ (b.at = a.at \/ b.at = slot[s].end)
      BY <2>6, <2>7, <3>2 DEF CursorAfter
    <3>4. \A i \in 1..(k + 1) : slot[q[i]].end <= b.at
      <4> SUFFICES ASSUME NEW i \in 1..(k + 1) PROVE slot[q[i]].end <= b.at
        OBVIOUS
      <4>1. CASE i \in 1..k
        <5>1. slot[q[i]].end <= a.at /\ slot[q[i]].end \in Nat
          BY <1>4, <1>8, <2>4, <2>6, <2>10, <4>1
        <5> QED
          BY <2>6, <3>3, <5>1
      <4>2. CASE i = k + 1
        BY <2>3, <3>3, <4>2
      <4> QED
        BY <4>1, <4>2
    <3>5. \A t \in from..(b.at - 1) : ~FreeOf(way, hours, t)
      <4> SUFFICES ASSUME NEW t \in from..(b.at - 1) PROVE ~FreeOf(way, hours, t)
        OBVIOUS
      <4>1. CASE t \in from..(a.at - 1)
        BY <2>6, <4>1
      <4>2. CASE t >= a.at
        <5>1. slot[s].end > t /\ t + hours > slot[s].start /\ t \in Nat
          BY <2>6, <2>7, <2>10, <3>3, <4>2
        <5> QED
          BY <2>5, <2>7, <5>1 DEF FreeOf
      <4> QED
        BY <2>6, <3>3, <4>1, <4>2
    <3> QED
      BY <2>2, <2>6, <3>2, <3>3, <3>4, <3>5
  <2> QED
    BY <2>8, <2>9, <2>10
<1> HIDE DEF P
<1>11. n \in P
  BY <1>4, <1>9, <1>10, NatSetInduction
<1>12. Tried(n)
  BY <1>4, <1>11 DEF P
<1>13. p[1..n] \in Gap
  BY <1>4, <1>6
<1>14. FreeOf(way, hours, p[1..n].at)
  <2>1. CASE p[1..n].fits
    BY <1>12, <2>1
  <2>2. CASE ~p[1..n].fits
    BY <1>4, <1>12, <2>2 DEF FreeOf
  <2> QED
    BY <2>1, <2>2
<1> QED
  BY <1>7, <1>12, <1>13, <1>14 DEF Gap, way
-----------------------------------------------------------------------------
(* The invariant *)

SlotEntry == [id : Rows, row : PlacedRow]

SlotMoves == [op : {"move"}, stage : {"search", "save"}, list : Seq(SlotEntry),
              to : Resources \cup {"own"}, cursor : Nat]
Forwards == [op : {"forward"}, stage : {"search"}, todo : SUBSET Rows,
             placed : SUBSET Rows, from : Nat]
ForwardSaves == [op : {"forward"}, stage : {"save"}, todo : SUBSET Rows,
                 placed : SUBSET Rows, from : Nat,
                 id : Rows, row : PlacedRow]
RowJobs == [op : {"row"}, stage : {"save"}, status : SlotStatus \ {"none", "SCHEDULED"},
            list : Seq(SlotEntry)]
Urgents == [op : {"urgent"}, stage : {"insert"}, id : Rows, on : Resources,
            from : Nat, list : Seq(SlotEntry)]
Shifts == [op : {"shift"}, stage : {"save"}, list : Seq(SlotEntry),
           done : Seq(SlotEntry), by : Nat, hours : Nat, late : BOOLEAN,
           placed : {"unsearched", "kept"}]
SlotJobs == SlotMoves \cup Forwards \cup ForwardSaves \cup RowJobs \cup Urgents
            \cup Shifts \cup {NoJob}

IdsOf(list) == {list[i].id : i \in DOMAIN list}

\* Rows put off together: each by the same, one after the other.
PutsOff(j) == j.op = "shift" /\ j.placed = "kept"

KeptAlike(j) ==
  /\ j.by = FailureDelay /\ j.hours = 0 /\ ~j.late
  /\ \A i \in DOMAIN j.list : j.list[i].row.status \in Live
  /\ \A i, k \in DOMAIN j.list : i # k => j.list[i].id # j.list[k].id
  /\ IdsOf(j.list) \cap IdsOf(j.done) = {}

JobFits(j) ==
  /\ j.op = "move" /\ j.stage = "save" => j.list # << >>
  /\ j.op = "row" /\ j.status = "CONFIRMED" =>
       \A i \in DOMAIN j.list : j.list[i].row.status = "SCHEDULED"
  /\ PutsOff(j) => KeptAlike(j)

JobsFit == \A c \in Clients : JobFits(job[c])

\* What was read is what there is, in rows nobody else has saved since.
Relies(j) == j.op = "row" \/ PutsOff(j)
ReadIsFresh(j) ==
  Relies(j) => \A i \in DOMAIN j.list :
                 j.list[i].id \in loose \/ slot[j.list[i].id] = j.list[i].row
RowsAreFresh == \A c \in Clients : ReadIsFresh(job[c])

Apart(r, q) == r.end <= q.start \/ q.end <= r.start

\* The rows the property speaks of
Firm == {u \in Rows \ loose : slot[u].status \in Live}

\* A row about to be saved is apart from all others on its resource.
ClearOf(id, row) ==
  \A t \in Firm \ {id} : slot[t].on = row.on => Apart(row, slot[t])
PlaceIsFree(j) ==
  /\ j.op = "move" /\ j.stage = "save" => ClearOf(j.list[1].id, j.list[1].row)
  /\ j.op = "forward" /\ j.stage = "save" => ClearOf(j.id, j.row)
PlacesAreFree == \A c \in Clients : PlaceIsFree(job[c])

\* One of two rows is put off, the other one not yet.
Between(j, s, t) ==
  /\ PutsOff(j)
  /\ \/ s \in IdsOf(j.done) /\ t \in IdsOf(j.list)
     \/ t \in IdsOf(j.done) /\ s \in IdsOf(j.list)

FirmAreApart ==
  \A s, t \in Firm :
    s # t /\ slot[s].on = slot[t].on =>
      Apart(slot[s], slot[t]) \/ \E c \in Clients : Between(job[c], s, t)

PutOff(row) == [row EXCEPT !.start = row.start + FailureDelay,
                           !.end = row.end + FailureDelay]

\* Rows that will be put off are then apart from those that will not.
WillBeApart ==
  \A c \in Clients : PutsOff(job[c]) =>
    \A s \in Firm \cap IdsOf(job[c].list), t \in Firm \ IdsOf(job[c].list) :
      slot[s].on = slot[t].on =>
        \/ Apart(PutOff(slot[s]), slot[t])
        \/ \E d \in Clients \ {c} : Between(job[d], s, t)

SlotInv ==
  /\ SlotTypes /\ loose \subseteq Rows /\ job \in [Clients -> SlotJobs]
  /\ JobsFit /\ RowsAreFresh /\ PlacesAreFree /\ FirmAreApart /\ WillBeApart

-----------------------------------------------------------------------------
(* Requests, and what they have read *)

LEMMA SlotJobAt ==
  ASSUME job \in [Clients -> SlotJobs], NEW c \in Clients
  PROVE  /\ job[c].op = "move" => job[c] \in SlotMoves
         /\ At(c, "forward", "search") => job[c] \in Forwards
         /\ At(c, "forward", "save") => job[c] \in ForwardSaves
         /\ job[c].op = "row" => job[c] \in RowJobs
         /\ job[c].op = "urgent" => job[c] \in Urgents
         /\ job[c].op = "shift" => job[c] \in Shifts
<1>1. job[c] \in SlotJobs
  OBVIOUS
<1> QED
  BY <1>1 DEF SlotJobs, SlotMoves, Forwards, ForwardSaves, RowJobs, Urgents, Shifts,
              NoJob, At

\* q lists the rows of S as they are.
Copies(q, S) ==
  /\ q \in Seq(SlotEntry)
  /\ \A i \in DOMAIN q : q[i].id \in S /\ q[i].row = slot[q[i].id]
  /\ \A i, k \in DOMAIN q : i # k => q[i].id # q[k].id
  /\ \A s \in S : s \in IdsOf(q)

LEMMA SnapshotCopies ==
  ASSUME SlotTypes, NEW S \in SUBSET Rows, \A s \in S : slot[s] # NoSlot
  PROVE  Copies(Snapshot(S), S)
<1>1. PICK b : b = ByStart(S)
  OBVIOUS
<1>2. PICK n : n = Cardinality(S)
  OBVIOUS
<1>3. /\ n \in Nat /\ b \in [1..n -> S]
      /\ \A i, j \in 1..n : i # j => b[i] # b[j]
      /\ \A s \in S : \E i \in 1..n : b[i] = s
  BY <1>1, <1>2, ByStartIsSorted
<1>4. PICK q : q = [i \in 1..n |-> [id |-> b[i], row |-> slot[b[i]]]]
  OBVIOUS
<1>5. q = Snapshot(S)
  BY <1>1, <1>2, <1>4 DEF Snapshot
<1>6. \A i \in 1..n : q[i].id = b[i] /\ q[i].row = slot[b[i]] /\ q[i] \in SlotEntry
  <2> SUFFICES ASSUME NEW i \in 1..n
               PROVE  q[i].id = b[i] /\ q[i].row = slot[b[i]] /\ q[i] \in SlotEntry
    OBVIOUS
  <2>1. b[i] \in S /\ b[i] \in Rows
    BY <1>3
  <2>2. slot[b[i]] \in PlacedRow
    BY <2>1 DEF SlotTypes
  <2>3. q[i] = [id |-> b[i], row |-> slot[b[i]]]
    BY <1>4
  <2> QED
    BY <2>1, <2>2, <2>3 DEF SlotEntry
<1>7. DOMAIN q = 1..n
  BY <1>4
<1>8. q \in Seq(SlotEntry)
  BY <1>3, <1>4, <1>6
<1>9. \A s \in S : s \in IdsOf(q)
  <2> SUFFICES ASSUME NEW s \in S PROVE s \in IdsOf(q)
    OBVIOUS
  <2>1. PICK i \in 1..n : b[i] = s
    BY <1>3
  <2> QED
    BY <1>6, <1>7, <2>1 DEF IdsOf
<1>10. Copies(q, S)
  BY <1>3, <1>6, <1>7, <1>8, <1>9 DEF Copies
<1> QED
  BY <1>5, <1>10

\* The first of a list, and the rest.
LEMMA ListParts ==
  ASSUME NEW q \in Seq(SlotEntry), q # << >>
  PROVE  /\ Head(q) = q[1] /\ q[1] \in SlotEntry /\ 1 \in DOMAIN q
         /\ q[1].id \in IdsOf(q)
         /\ Tail(q) \in Seq(SlotEntry)
         /\ \A i \in DOMAIN Tail(q) : i + 1 \in DOMAIN q /\ Tail(q)[i] = q[i + 1] /\ i # 0
         /\ IdsOf(Tail(q)) \subseteq IdsOf(q)
         /\ IdsOf(q) \subseteq IdsOf(Tail(q)) \cup {q[1].id}
<1>1. Len(q) \in Nat \ {0} /\ DOMAIN q = 1..Len(q)
  OBVIOUS
<1>2. /\ Tail(q) \in Seq(SlotEntry) /\ Head(q) = q[1]
      /\ Len(Tail(q)) = Len(q) - 1 /\ DOMAIN Tail(q) = 1..(Len(q) - 1)
      /\ \A i \in 1..(Len(q) - 1) : Tail(q)[i] = q[i + 1]
  BY <1>1
<1>3. \A i \in DOMAIN Tail(q) : i + 1 \in DOMAIN q /\ Tail(q)[i] = q[i + 1] /\ i # 0
  BY <1>1, <1>2
<1>4. 1 \in DOMAIN q /\ q[1] \in SlotEntry /\ q[1].id \in IdsOf(q)
  BY <1>1 DEF IdsOf
<1>5. IdsOf(Tail(q)) \subseteq IdsOf(q)
  BY <1>3 DEF IdsOf
<1>6. IdsOf(q) \subseteq IdsOf(Tail(q)) \cup {q[1].id}
  <2> SUFFICES ASSUME NEW i \in DOMAIN q, i # 1 PROVE q[i].id \in IdsOf(Tail(q))
    BY DEF IdsOf
  <2>1. i - 1 \in 1..(Len(q) - 1) /\ (i - 1) + 1 = i
    BY <1>1
  <2>2. i - 1 \in DOMAIN Tail(q) /\ Tail(q)[i - 1] = q[i]
    BY <1>2, <2>1
  <2> QED
    BY <2>2 DEF IdsOf
<1> QED
  BY <1>2, <1>3, <1>4, <1>5, <1>6

-----------------------------------------------------------------------------
(* Steps that leave alone what is firm afterwards *)

\* What a request must bring for the rest to stay as it is.
MayStand(j) ==
  /\ j \in SlotJobs /\ JobFits(j)
  /\ ReadIsFresh(j) /\ PlaceIsFree(j)

\* Rows that j puts off are then apart from others.
WillStand(j, c) ==
  PutsOff(j) =>
    \A s \in Firm \cap IdsOf(j.list), t \in Firm \ IdsOf(j.list) :
      slot[s].on = slot[t].on =>
        \/ Apart(PutOff(slot[s]), slot[t])
        \/ \E d \in Clients \ {c} : Between(job[d], s, t)

\* Client c goes on with j, and rows change only to be loose.
Loosens(c, j) ==
  /\ job' = [job EXCEPT ![c] = j]
  /\ SlotTypes' /\ loose \subseteq loose' /\ loose' \subseteq Rows
  /\ \A s \in Rows \ loose' : slot'[s] = slot[s]

KeepsExcuses(c, j) ==
  \A s, t \in Firm' : Between(job[c], s, t) => Between(j, s, t)

LEMMA FirmStays ==
  ASSUME SlotInv, NEW c, NEW j, Loosens(c, j)
  PROVE  /\ Firm' \subseteq Firm
         /\ \A s \in Firm' : slot'[s] = slot[s]
BY DEF Firm, Loosens

LEMMA LooseStep ==
  ASSUME SlotInv, NEW c \in Clients, NEW j, Loosens(c, j), KeepsExcuses(c, j),
         MayStand(j)', WillStand(j, c)'
  PROVE  SlotInv'
<1>1. /\ job' \in [Clients -> SlotJobs] /\ job'[c] = j
      /\ \A d \in Clients : d # c => job'[d] = job[d]
  BY DEF Loosens, SlotInv, MayStand
<1>2. Firm' \subseteq Firm /\ \A s \in Firm' : slot'[s] = slot[s]
  BY FirmStays
<1>3. JobsFit'
  BY <1>1 DEF JobsFit, SlotInv, MayStand
<1>4. RowsAreFresh'
  <2> SUFFICES ASSUME NEW d \in Clients PROVE ReadIsFresh(job[d])'
    BY DEF RowsAreFresh
  <2>1. CASE d = c
    BY <1>1, <2>1 DEF MayStand, ReadIsFresh
  <2>2. CASE d # c
    <3>1. PICK k : k = job[d]
      OBVIOUS
    <3>2. ReadIsFresh(k) /\ k \in SlotJobs
      BY <3>1 DEF SlotInv, RowsAreFresh
    <3>3. ReadIsFresh(k)'
      <4> SUFFICES ASSUME Relies(k), NEW i \in DOMAIN k.list
                   PROVE  k.list[i].id \in loose' \/ slot'[k.list[i].id] = k.list[i].row
        BY DEF ReadIsFresh
      <4>1. k \in RowJobs \cup Shifts
        BY <3>2 DEF Relies, PutsOff, SlotJobs, SlotMoves, Forwards, ForwardSaves,
                    RowJobs, Urgents, Shifts, NoJob
      <4>2. k.list \in Seq(SlotEntry)
        BY <4>1 DEF RowJobs, Shifts
      <4>5. k.list[i] \in SlotEntry
        BY <4>2
      <4>3. k.list[i].id \in Rows
        BY <4>5 DEF SlotEntry
      <4>4. k.list[i].id \in loose \/ slot[k.list[i].id] = k.list[i].row
        BY <3>2 DEF ReadIsFresh
      <4> QED
        BY <4>3, <4>4 DEF Loosens
    <3> QED
      BY <1>1, <2>2, <3>1, <3>3
  <2> QED
    BY <2>1, <2>2
<1>5. PlacesAreFree'
  <2> SUFFICES ASSUME NEW d \in Clients PROVE PlaceIsFree(job[d])'
    BY DEF PlacesAreFree
  <2>1. CASE d = c
    BY <1>1, <2>1 DEF MayStand, PlaceIsFree
  <2>2. CASE d # c
    <3>1. PICK k : k = job[d]
      OBVIOUS
    <3>2. PlaceIsFree(k)
      BY <3>1 DEF SlotInv, PlacesAreFree
    <3>3. ASSUME NEW id, NEW row, ClearOf(id, row) PROVE ClearOf(id, row)'
      BY <1>2, <3>3 DEF ClearOf
    <3>4. PlaceIsFree(k)'
      BY <3>2, <3>3 DEF PlaceIsFree
    <3> QED
      BY <1>1, <2>2, <3>1, <3>4
  <2> QED
    BY <2>1, <2>2
<1>6. ASSUME NEW s \in Firm', NEW t \in Firm', NEW d \in Clients, Between(job[d], s, t)
      PROVE  Between(job[d], s, t)'
  <2>1. CASE d = c
    <3>1. Between(j, s, t)
      BY <1>6, <2>1 DEF KeepsExcuses
    <3> QED
      BY <1>1, <2>1, <3>1 DEF Between, PutsOff, IdsOf
  <2>2. CASE d # c
    BY <1>1, <1>6, <2>2 DEF Between, PutsOff, IdsOf
  <2> QED
    BY <2>1, <2>2
<1>7. FirmAreApart'
  <2> SUFFICES ASSUME NEW s \in Firm', NEW t \in Firm', s # t, slot'[s].on = slot'[t].on
               PROVE  Apart(slot'[s], slot'[t]) \/ \E d \in Clients : Between(job[d], s, t)'
    BY DEF FirmAreApart, Apart, Between, PutsOff, IdsOf
  <2>1. s \in Firm /\ t \in Firm /\ slot'[s] = slot[s] /\ slot'[t] = slot[t]
    BY <1>2
  <2>2. Apart(slot[s], slot[t]) \/ \E d \in Clients : Between(job[d], s, t)
    BY <2>1 DEF SlotInv, FirmAreApart
  <2> QED
    BY <1>6, <2>1, <2>2
<1>8. WillBeApart'
  <2> SUFFICES ASSUME NEW d \in Clients, NEW k, k = job'[d] PROVE WillStand(k, d)'
    BY DEF WillBeApart, WillStand
  <2>1. CASE d = c
    BY <1>1, <2>1 DEF MayStand
  <2>2. CASE d # c
    <3>1. k = job[d]
      BY <1>1, <2>2
    <3>2. WillStand(k, d)
      BY <3>1 DEF SlotInv, WillBeApart, WillStand
    <3>3. WillStand(k, d)'
      <4> SUFFICES ASSUME PutsOff(k), NEW s \in Firm' \cap IdsOf(k.list),
                          NEW t \in Firm' \ IdsOf(k.list), slot'[s].on = slot'[t].on
                   PROVE  \/ Apart(PutOff(slot'[s]), slot'[t])
                          \/ \E e \in Clients \ {d} : Between(job[e], s, t)'
        BY DEF WillStand, Apart, PutOff, Between, PutsOff, IdsOf
      <4>1. s \in Firm /\ t \in Firm /\ slot'[s] = slot[s] /\ slot'[t] = slot[t]
        BY <1>2
      <4>2. \/ Apart(PutOff(slot[s]), slot[t])
            \/ \E e \in Clients \ {d} : Between(job[e], s, t)
        BY <3>2, <4>1 DEF WillStand
      <4> QED
        BY <1>6, <4>1, <4>2
    <3> QED
      BY <3>3
  <2> QED
    BY <2>1, <2>2
<1> QED
  BY <1>1, <1>3, <1>4, <1>5, <1>7, <1>8 DEF SlotInv, Loosens

-----------------------------------------------------------------------------
(* Steps of a request that is alone *)

AllApart(j) ==
  \A s, t \in Firm :
    s # t /\ slot[s].on = slot[t].on => Apart(slot[s], slot[t]) \/ Between(j, s, t)

AllWillBeApart(j) ==
  PutsOff(j) =>
    \A s \in Firm \cap IdsOf(j.list), t \in Firm \ IdsOf(j.list) :
      slot[s].on = slot[t].on => Apart(PutOff(slot[s]), slot[t])

LEMMA AloneStep ==
  ASSUME SlotInv, NEW c \in Clients, NEW j, Alone(c), job' = [job EXCEPT ![c] = j],
         SlotTypes', loose' \subseteq Rows, MayStand(j)', AllApart(j)', AllWillBeApart(j)'
  PROVE  SlotInv'
<1>1. /\ job' \in [Clients -> SlotJobs] /\ job'[c] = j
      /\ \A d \in Clients : d # c => job'[d] = NoJob
  BY DEF SlotInv, MayStand, Alone
<1>2. JobFits(NoJob) /\ ReadIsFresh(NoJob)' /\ PlaceIsFree(NoJob)' /\ ~PutsOff(NoJob)
  BY DEF JobFits, ReadIsFresh, PlaceIsFree, PutsOff, Relies, NoJob
<1>3. JobsFit'
  <2> SUFFICES ASSUME NEW d \in Clients, NEW k, k = job'[d] PROVE JobFits(k)
    BY DEF JobsFit
  <2> QED
    BY <1>1, <1>2 DEF MayStand
<1>4. RowsAreFresh'
  <2> SUFFICES ASSUME NEW d \in Clients, NEW k, k = job'[d] PROVE ReadIsFresh(k)'
    BY DEF RowsAreFresh, ReadIsFresh
  <2> QED
    BY <1>1, <1>2 DEF MayStand
<1>5. PlacesAreFree'
  <2> SUFFICES ASSUME NEW d \in Clients, NEW k, k = job'[d] PROVE PlaceIsFree(k)'
    BY DEF PlacesAreFree, PlaceIsFree
  <2> QED
    BY <1>1, <1>2 DEF MayStand
<1>6. FirmAreApart'
  <2> SUFFICES ASSUME NEW s \in Firm', NEW t \in Firm', s # t, slot'[s].on = slot'[t].on
               PROVE  Apart(slot'[s], slot'[t]) \/ Between(job[c], s, t)'
    BY DEF FirmAreApart, Apart
  <2>1. Apart(slot'[s], slot'[t]) \/ Between(j, s, t)
    BY DEF AllApart, Apart, Between, PutsOff, IdsOf
  <2> QED
    BY <1>1, <2>1 DEF Between, PutsOff, IdsOf
<1>7. WillBeApart'
  <2> SUFFICES ASSUME NEW d \in Clients, NEW k, k = job'[d], PutsOff(k),
                      NEW s \in Firm' \cap IdsOf(k.list), NEW t \in Firm' \ IdsOf(k.list),
                      slot'[s].on = slot'[t].on
               PROVE  Apart(PutOff(slot'[s]), slot'[t])
    BY DEF WillBeApart, Apart, PutOff, IdsOf, PutsOff
  <2>1. d = c /\ k = j
    BY <1>1, <1>2
  <2> QED
    BY <2>1 DEF AllWillBeApart, Apart, PutOff, IdsOf, PutsOff
<1> QED
  BY <1>1, <1>3, <1>4, <1>5, <1>6, <1>7 DEF SlotInv

\* Where a search has placed an operation, nothing firm is in its way.
LEMMA SearchClears ==
  ASSUME SlotTypes, NEW r, NEW hours \in Nat \ {0}, NEW from \in Nat, NEW id,
         NEW row, row.on = r, row.start = NextSlot(r, hours, from),
         row.end = NextSlot(r, hours, from) + hours
  PROVE  ClearOf(id, row) /\ NextSlot(r, hours, from) \in Nat
<1>1. PICK found : found = NextSlot(r, hours, from)
  OBVIOUS
<1>2. /\ found \in Nat /\ found >= from /\ FreeOf(InTheWay(r, from), hours, found)
  BY <1>1, GapIsFound
<1>3. SUFFICES ASSUME NEW t \in Firm \ {id}, slot[t].on = r
               PROVE  found + hours <= slot[t].start \/ slot[t].end <= found
  BY <1>1, <1>2 DEF ClearOf, Apart
<1>4. t \in Rows /\ slot[t].status \notin {"none", "CANCELLED"}
  BY <1>3 DEF Firm, Live
<1>5. slot[t].start \in Nat /\ slot[t].end \in Nat
  BY <1>4, SlotIsPlaced
<1>6. CASE slot[t].end > from
  <2>1. t \in InTheWay(r, from)
    BY <1>3, <1>4, <1>6 DEF InTheWay
  <2> QED
    BY <1>2, <2>1 DEF FreeOf
<1>7. CASE slot[t].end <= from
  BY <1>2, <1>5, <1>7
<1> QED
  BY <1>5, <1>6, <1>7

-----------------------------------------------------------------------------
(* Requests that begin *)

LEMMA EmptyJob == NoJob \in SlotJobs /\ ~Relies(NoJob) /\ NoJob.op = "none"
BY DEF SlotJobs, Relies, PutsOff, NoJob

\* A step that changes no row.
LEMMA SlotQuietStep ==
  ASSUME SlotInv, NEW c \in Clients, NEW j, job' = [job EXCEPT ![c] = j],
         UNCHANGED slotData, MayStand(j), WillStand(j, c),
         PutsOff(job[c]) => job[c].list = << >>
  PROVE  SlotInv'
<1>1. slot' = slot /\ loose' = loose
  BY DEF slotData
<1>2. Loosens(c, j)
  BY <1>1 DEF Loosens, SlotInv, SlotTypes
<1>3. KeepsExcuses(c, j)
  BY DEF KeepsExcuses, Between, IdsOf
<1>4. MayStand(j)'
  BY <1>1 DEF MayStand, ReadIsFresh, PlaceIsFree, ClearOf, Firm
<1>5. WillStand(j, c)'
  <2> SUFFICES ASSUME PutsOff(j), NEW s \in Firm' \cap IdsOf(j.list),
                      NEW t \in Firm' \ IdsOf(j.list), slot'[s].on = slot'[t].on
               PROVE  \/ Apart(PutOff(slot'[s]), slot'[t])
                      \/ \E d \in Clients \ {c} : Between(job[d], s, t)'
    BY DEF WillStand, Apart, PutOff, Between, PutsOff, IdsOf
  <2>1. s \in Firm /\ t \in Firm
    BY <1>1 DEF Firm
  <2>2. \/ Apart(PutOff(slot[s]), slot[t])
        \/ \E d \in Clients \ {c} : Between(job[d], s, t)
    BY <1>1, <2>1 DEF WillStand
  <2>3. \A d \in Clients \ {c} : job'[d] = job[d]
    BY DEF SlotInv
  <2> QED
    BY <1>1, <2>2, <2>3 DEF Between, PutsOff, IdsOf
<1> QED
  BY <1>2, <1>3, <1>4, <1>5, LooseStep

LEMMA QuietPlain ==
  ASSUME SlotInv, NEW c \in Clients, NEW j, job' = [job EXCEPT ![c] = j],
         UNCHANGED slotData, j \in SlotJobs, ~PutsOff(j), JobFits(j), ReadIsFresh(j),
         PlaceIsFree(j), PutsOff(job[c]) => job[c].list = << >>
  PROVE  SlotInv'
<1>1. MayStand(j) /\ WillStand(j, c)
  BY DEF MayStand, WillStand
<1> QED
  BY <1>1, SlotQuietStep

LEMMA CopiesAreFresh ==
  ASSUME NEW S, NEW j, Copies(j.list, S)
  PROVE  ReadIsFresh(j)
BY DEF Copies, ReadIsFresh

LEMMA ForwardKeeps ==
  ASSUME SlotInv, NEW c \in Clients, NEW S \in SUBSET Rows, NEW from \in Starts,
         Forward(c, S, from)
  PROVE  SlotInv'
<1>1. PICK j : j = [op |-> "forward", stage |-> "search", todo |-> S, placed |-> {},
                    from |-> from]
  OBVIOUS
<1>2. from \in Nat
  BY MomentsAssumption
<1>3. j \in Forwards
  BY <1>1, <1>2 DEF Forwards
<1>4. j \in SlotJobs /\ JobFits(j) /\ ReadIsFresh(j) /\ PlaceIsFree(j) /\ ~PutsOff(j)
  BY <1>1, <1>3 DEF SlotJobs, JobFits, ReadIsFresh, PlaceIsFree, PutsOff, Relies
<1>5. job[c] = NoJob /\ job' = [job EXCEPT ![c] = j] /\ UNCHANGED slotData
  BY <1>1 DEF Forward, Accept
<1>6. ~PutsOff(job[c])
  BY <1>5, EmptyJob DEF Relies
<1> QED
  BY <1>4, <1>5, <1>6, QuietPlain

\* A request on rows that exist, as they are read now.
LEMMA RowJobBegins ==
  ASSUME SlotInv, NEW c \in Clients, NEW S \in SUBSET Rows, \A s \in S : slot[s] # NoSlot,
         NEW st \in {"CONFIRMED", "COMPLETED", "CANCELLED"},
         st = "CONFIRMED" => \A s \in S : slot[s].status = "SCHEDULED",
         ~PutsOff(job[c]), UNCHANGED slotData,
         NEW j, j = [op |-> "row", stage |-> "save", status |-> st, list |-> Snapshot(S)],
         job' = [job EXCEPT ![c] = j]
  PROVE  SlotInv'
<1>1. PICK q : q = Snapshot(S)
  OBVIOUS
<1>2. Copies(q, S)
  BY <1>1, SnapshotCopies DEF SlotInv
<1>3. j = [op |-> "row", stage |-> "save", status |-> st, list |-> q]
  BY <1>1
<1>4. j \in RowJobs
  BY <1>2, <1>3 DEF RowJobs, Copies, SlotStatus
<1>5. JobFits(j) /\ PlaceIsFree(j) /\ ~PutsOff(j)
  BY <1>2, <1>3 DEF JobFits, PlaceIsFree, PutsOff, Copies
<1>6. ReadIsFresh(j)
  BY <1>2, <1>3, CopiesAreFresh
<1>7. j \in SlotJobs
  BY <1>4 DEF SlotJobs
<1> QED
  BY <1>5, <1>6, <1>7, QuietPlain

LEMMA CancelSlotKeeps ==
  ASSUME SlotInv, NEW c \in Clients, NEW s \in Rows, CancelSlot(c, s)
  PROVE  SlotInv'
<1>1. PICK j : j = [op |-> "row", stage |-> "save", status |-> "CANCELLED",
                    list |-> Snapshot({s})]
  OBVIOUS
<1>2. job[c] = NoJob /\ job' = [job EXCEPT ![c] = j] /\ UNCHANGED slotData
      /\ slot[s] # NoSlot
  BY <1>1 DEF CancelSlot, Accept
<1>3. ~PutsOff(job[c])
  BY <1>2, EmptyJob DEF Relies
<1>4. {s} \in SUBSET Rows /\ \A t \in {s} : slot[t] # NoSlot
  BY <1>2
<1> QED
  BY <1>1, <1>2, <1>3, <1>4, RowJobBegins

LEMMA CompleteSlotKeeps ==
  ASSUME SlotInv, NEW c \in Clients, NEW s \in Rows, CompleteSlot(c, s)
  PROVE  SlotInv'
<1>1. PICK j : j = [op |-> "row", stage |-> "save", status |-> "COMPLETED",
                    list |-> Snapshot({s})]
  OBVIOUS
<1>2. job[c] = NoJob /\ job' = [job EXCEPT ![c] = j] /\ UNCHANGED slotData
      /\ slot[s] # NoSlot
  BY <1>1 DEF CompleteSlot, Accept
<1>3. ~PutsOff(job[c])
  BY <1>2, EmptyJob DEF Relies
<1>4. {s} \in SUBSET Rows /\ \A t \in {s} : slot[t] # NoSlot
  BY <1>2
<1> QED
  BY <1>1, <1>2, <1>3, <1>4, RowJobBegins

LEMMA ReleaseReadKeeps ==
  ASSUME SlotInv, NEW c \in Clients, ReleaseRead(c)
  PROVE  SlotInv'
<1>1. job[c] \in Forwards /\ At(c, "forward", "search")
  BY SlotJobAt DEF SlotInv, ReleaseRead
<1>2. PICK S : S = {s \in job[c].placed : slot[s].status = "SCHEDULED"}
  OBVIOUS
<1>3. PICK j : j = [op |-> "row", stage |-> "save", status |-> "CONFIRMED",
                    list |-> Snapshot(S)]
  OBVIOUS
<1>4. job' = [job EXCEPT ![c] = j] /\ UNCHANGED slotData
  BY <1>2, <1>3 DEF ReleaseRead, Continue
<1>5. ~PutsOff(job[c])
  BY <1>1 DEF PutsOff, At
<1>6. S \in SUBSET Rows
  BY <1>1, <1>2 DEF Forwards
<1>7. \A t \in S : slot[t] # NoSlot /\ slot[t].status = "SCHEDULED"
  BY <1>2 DEF NoSlot
<1> QED
  BY <1>3, <1>4, <1>5, <1>6, <1>7, RowJobBegins

LEMMA UrgentKeeps ==
  ASSUME SlotInv, NEW c \in Clients, NEW s \in Rows, NEW r \in Resources,
         NEW from \in Moments, Urgent(c, s, r, from)
  PROVE  SlotInv'
<1>1. PICK S : S = {t \in Rows : /\ slot[t].status \notin {"none", "CANCELLED"}
                                 /\ slot[t].on = r
                                 /\ slot[t].start >= from}
  OBVIOUS
<1>2. PICK q : q = Snapshot(S)
  OBVIOUS
<1>3. PICK j : j = [op |-> "urgent", stage |-> "insert", id |-> s, on |-> r, from |-> from,
                    list |-> q]
  OBVIOUS
<1>4. job[c] = NoJob /\ job' = [job EXCEPT ![c] = j] /\ UNCHANGED slotData
  BY <1>1, <1>2, <1>3 DEF Urgent, Accept
<1>5. S \in SUBSET Rows
  BY <1>1
<1>6. \A t \in S : slot[t] # NoSlot
  BY <1>1 DEF NoSlot
<1>7. Copies(q, S)
  BY <1>2, <1>5, <1>6, SnapshotCopies DEF SlotInv
<1>8. from \in Nat
  BY MomentsAssumption
<1>9. j \in Urgents
  BY <1>3, <1>7, <1>8 DEF Urgents, Copies
<1>10. j \in SlotJobs /\ JobFits(j) /\ ReadIsFresh(j) /\ PlaceIsFree(j) /\ ~PutsOff(j)
  BY <1>3, <1>9 DEF SlotJobs, JobFits, ReadIsFresh, PlaceIsFree, PutsOff, Relies
<1>11. ~PutsOff(job[c])
  BY <1>4, EmptyJob DEF Relies
<1> QED
  BY <1>4, <1>10, <1>11, QuietPlain

\* One order's rows are put off or extended.
LEMMA OrderShiftKeeps ==
  ASSUME SlotInv, NEW c \in Clients, NEW w, NEW by \in Nat, NEW hours \in Nat,
         NEW late \in BOOLEAN,
         Accept(c, Shifting(Snapshot(OfOrder(w)), by, hours, late, "unsearched")),
         UNCHANGED slotData
  PROVE  SlotInv'
<1>1. PICK S : S = OfOrder(w)
  OBVIOUS
<1>2. PICK q : q = Snapshot(S)
  OBVIOUS
<1>3. PICK j : j = [op |-> "shift", stage |-> "save", list |-> q, done |-> << >>,
                    by |-> by, hours |-> hours, late |-> late, placed |-> "unsearched"]
  OBVIOUS
<1>4. job[c] = NoJob /\ job' = [job EXCEPT ![c] = j]
  BY <1>1, <1>2, <1>3 DEF Accept, Shifting
<1>5. S \in SUBSET Rows /\ \A t \in S : slot[t] # NoSlot
  BY <1>1 DEF OfOrder
<1>6. Copies(q, S)
  BY <1>2, <1>5, SnapshotCopies DEF SlotInv
<1>7. << >> \in Seq(SlotEntry)
  OBVIOUS
<1>8. j \in Shifts
  BY <1>3, <1>6, <1>7 DEF Shifts, Copies
<1>9. j \in SlotJobs /\ JobFits(j) /\ ReadIsFresh(j) /\ PlaceIsFree(j) /\ ~PutsOff(j)
  BY <1>3, <1>8 DEF SlotJobs, JobFits, ReadIsFresh, PlaceIsFree, PutsOff, Relies
<1>10. ~PutsOff(job[c])
  BY <1>4, EmptyJob DEF Relies
<1> QED
  BY <1>4, <1>9, <1>10, QuietPlain

LEMMA ReplanChangeKeeps ==
  ASSUME SlotInv, NEW c \in Clients, NEW w, NEW hours \in NewHours, NEW late \in BOOLEAN,
         ReplanChange(c, w, hours, late)
  PROVE  SlotInv'
<1>1. hours \in Nat /\ 0 \in Nat
  BY NewHoursAssumption
<1> QED
  BY <1>1, OrderShiftKeeps DEF ReplanChange

LEMMA ReplanDateKeeps ==
  ASSUME SlotInv, NEW c \in Clients, NEW w, NEW now \in Moments, ReplanDate(c, w, now)
  PROVE  SlotInv'
<1>1. PICK S : S = OfOrder(w)
  OBVIOUS
<1>2. PICK q : q = Snapshot(S)
  OBVIOUS
<1>3. S \in SUBSET Rows /\ \A t \in S : slot[t] # NoSlot
  BY <1>1 DEF OfOrder
<1>4. Copies(q, S)
  BY <1>2, <1>3, SnapshotCopies DEF SlotInv
<1>5. job[c] = NoJob /\ UNCHANGED slotData
  BY DEF ReplanDate, Accept
<1>6. ~PutsOff(job[c])
  BY <1>5, EmptyJob DEF Relies
<1>7. now \in Nat
  BY MomentsAssumption
<1>8. PICK j : j = [op |-> "move", stage |-> "search", list |-> q, to |-> "own",
                    cursor |-> now]
  OBVIOUS
<1>9. job' = [job EXCEPT ![c] = j]
  BY <1>1, <1>2, <1>8 DEF ReplanDate, Accept, Moving
<1>10. j \in SlotMoves
  BY <1>4, <1>7, <1>8 DEF SlotMoves, Copies
<1>11. j \in SlotJobs /\ JobFits(j) /\ ReadIsFresh(j) /\ PlaceIsFree(j) /\ ~PutsOff(j)
  BY <1>8, <1>10 DEF SlotJobs, JobFits, ReadIsFresh, PlaceIsFree, PutsOff, Relies
<1> QED
  BY <1>5, <1>6, <1>9, <1>11, QuietPlain

LEMMA ReplanDelayKeeps ==
  ASSUME SlotInv, NEW c \in Clients, NEW w, NEW hours \in NewHours,
         ReplanDelay(c, w, hours)
  PROVE  SlotInv'
<1>1. hours \in Nat /\ 0 \in Nat /\ FALSE \in BOOLEAN
  BY NewHoursAssumption
<1> QED
  BY <1>1, OrderShiftKeeps DEF ReplanDelay

\* The rows of a failed resource are put off together, or moved elsewhere.
LEMMA ReplanKeeps ==
  ASSUME SlotInv, NEW c \in Clients, NEW S \in SUBSET Rows,
         \A s \in S, t \in Rows : slot[t].on = slot[s].on => t \in S,
         NEW alternative \in Resources \cup {"none"}, NEW now \in Moments,
         Replan(c, S, alternative, now)
  PROVE  SlotInv'
<1>1. PICK A : A = {s \in S : slot[s].status \in Live /\ slot[s].start > now}
  OBVIOUS
<1>2. PICK q : q = Snapshot(A)
  OBVIOUS
<1>3. A \in SUBSET Rows /\ \A t \in A : slot[t] # NoSlot
  BY <1>1 DEF Live, NoSlot
<1>4. Copies(q, A)
  BY <1>2, <1>3, SnapshotCopies DEF SlotInv
<1>5. job[c] = NoJob /\ UNCHANGED slotData
  BY DEF Replan, Accept
<1>6. ~PutsOff(job[c])
  BY <1>5, EmptyJob DEF Relies
<1>7. now \in Nat
  BY MomentsAssumption
<1>8. IdsOf(q) = A
  BY <1>4 DEF Copies, IdsOf
<1>9. CASE alternative = "none"
  <2>1. PICK j : j = [op |-> "shift", stage |-> "save", list |-> q, done |-> << >>,
                      by |-> FailureDelay, hours |-> 0, late |-> FALSE, placed |-> "kept"]
    OBVIOUS
  <2>2. job' = [job EXCEPT ![c] = j]
    BY <1>1, <1>2, <1>9, <2>1 DEF Replan, Accept, Shifting
  <2>3. j \in Shifts
    BY <1>4, <2>1 DEF Shifts, Copies, FailureDelay
  <2>4. \A i \in DOMAIN q : q[i].row.status \in Live
    BY <1>1, <1>4 DEF Copies
  <2>5. IdsOf(<< >>) = {}
    BY DEF IdsOf
  <2>6. KeptAlike(j)
    BY <1>4, <2>1, <2>4, <2>5 DEF KeptAlike, Copies
  <2>7. ReadIsFresh(j)
    BY <1>4, <2>1, CopiesAreFresh
  <2>8. MayStand(j)
    BY <2>1, <2>3, <2>6, <2>7 DEF MayStand, SlotJobs, JobFits, PlaceIsFree
  <2>9. WillStand(j, c)
    <3> SUFFICES ASSUME NEW s \in Firm \cap A, NEW t \in Firm \ A, slot[s].on = slot[t].on
                 PROVE  \/ Apart(PutOff(slot[s]), slot[t])
                        \/ \E d \in Clients \ {c} : Between(job[d], s, t)
      BY <1>8, <2>1 DEF WillStand
    <3>1. s \in Rows /\ t \in Rows /\ s # t
      BY DEF Firm
    <3>2. /\ slot[s].start \in Nat /\ slot[s].end \in Nat /\ slot[s].start < slot[s].end
          /\ slot[t].start \in Nat /\ slot[t].end \in Nat
      BY <1>3, <3>1, SlotIsPlaced DEF SlotInv
    <3>3. t \in S /\ slot[t].status \in Live
      BY <1>1, <3>1 DEF Firm
    <3>4. slot[t].start <= now /\ now < slot[s].start
      BY <1>1, <1>7, <3>2, <3>3
    <3>5. CASE Apart(slot[s], slot[t])
      <4>1. slot[t].end <= slot[s].start
        BY <1>7, <3>2, <3>4, <3>5 DEF Apart
      <4>2. slot[t].end <= slot[s].start + FailureDelay
        BY <3>2, <4>1 DEF FailureDelay
      <4>3. PutOff(slot[s]).start = slot[s].start + FailureDelay
        <5>1. slot[s] \in PlacedRow
          BY <1>3, <3>1, SlotIsPlaced DEF SlotInv
        <5> QED
          BY <5>1 DEF PutOff, PlacedRow
      <4> QED
        BY <4>2, <4>3 DEF Apart
    <3>6. CASE \E d \in Clients : Between(job[d], s, t)
      BY <1>6, <3>6 DEF Between
    <3> QED
      BY <3>1, <3>5, <3>6 DEF SlotInv, FirmAreApart
  <2> QED
    BY <1>5, <1>6, <2>2, <2>8, <2>9, SlotQuietStep
<1>10. CASE alternative # "none"
  <2>1. PICK j : j = [op |-> "move", stage |-> "search", list |-> q, to |-> alternative,
                      cursor |-> now]
    OBVIOUS
  <2>2. job' = [job EXCEPT ![c] = j]
    BY <1>1, <1>2, <1>10, <2>1 DEF Replan, Accept, Moving
  <2>3. j \in SlotMoves
    BY <1>4, <1>7, <1>10, <2>1 DEF SlotMoves, Copies
  <2>4. j \in SlotJobs /\ JobFits(j) /\ ReadIsFresh(j) /\ PlaceIsFree(j) /\ ~PutsOff(j)
    BY <2>1, <2>3 DEF SlotJobs, JobFits, ReadIsFresh, PlaceIsFree, PutsOff, Relies
  <2> QED
    BY <1>5, <1>6, <2>2, <2>4, QuietPlain
<1> QED
  BY <1>9, <1>10

LEMMA ReplanFaultKeeps ==
  ASSUME SlotInv, NEW c \in Clients, NEW r \in Resources, NEW now \in Moments,
         ReplanFault(c, r, now)
  PROVE  SlotInv'
<1>1. PICK S : S = {s \in Rows : slot[s].on = r}
  OBVIOUS
<1>2. Alternative[r] \in Resources \cup {"none"}
  BY AlternativeAssumption
<1>3. Replan(c, S, Alternative[r], now)
  BY <1>1 DEF ReplanFault
<1>4. S \in SUBSET Rows /\ \A s \in S, t \in Rows : slot[t].on = slot[s].on => t \in S
  BY <1>1
<1> QED
  BY <1>2, <1>3, <1>4, ReplanKeeps

LEMMA ReplanMaintenanceKeeps ==
  ASSUME SlotInv, NEW c \in Clients, NEW now \in Moments, ReplanMaintenance(c, now)
  PROVE  SlotInv'
<1>1. Alternative[FirstResource] \in Resources \cup {"none"}
  BY AlternativeAssumption, FirstResourceAssumption
<1>2. Rows \in SUBSET Rows
      /\ \A s \in Rows, t \in Rows : slot[t].on = slot[s].on => t \in Rows
  OBVIOUS
<1> QED
  BY <1>1, <1>2, ReplanKeeps DEF ReplanMaintenance

-----------------------------------------------------------------------------
(* Searches, and what they have found *)

LEMMA MoveSearchKeeps ==
  ASSUME SlotInv, NEW c \in Clients, MoveSearch(c)
  PROVE  SlotInv'
<1>1. PICK k : k = job[c]
  OBVIOUS
<1>2. k \in SlotMoves /\ k.stage = "search" /\ k.list # << >> /\ UNCHANGED slotData
  BY <1>1, SlotJobAt DEF SlotInv, MoveSearch, At
<1>3. PICK q : q = k.list
  OBVIOUS
<1>4. q \in Seq(SlotEntry) /\ q # << >>
  BY <1>2, <1>3 DEF SlotMoves
<1>5. Head(q) = q[1] /\ q[1] \in SlotEntry /\ 1 \in DOMAIN q
  BY <1>4, ListParts
<1>6. PICK row : row = q[1].row
  OBVIOUS
<1>7. /\ row \in PlacedRow /\ row.start \in Nat /\ row.end \in Nat /\ row.start < row.end
      /\ row.on \in Resources
  BY <1>5, <1>6 DEF SlotEntry, PlacedRow
<1>8. PICK r : r = IF k.to = "own" THEN row.on ELSE k.to
  OBVIOUS
<1>9. r \in Resources
  BY <1>2, <1>7, <1>8 DEF SlotMoves
<1>10. PICK hours : hours = row.end - row.start
  OBVIOUS
<1>11. hours \in Nat \ {0} /\ k.cursor \in Nat
  BY <1>2, <1>7, <1>10 DEF SlotMoves
<1>12. PICK from : from = NextSlot(r, hours, k.cursor)
  OBVIOUS
<1>13. PICK new : new = [row EXCEPT !.on = r, !.start = from, !.end = from + hours]
  OBVIOUS
<1>14. new.on = r /\ new.start = from /\ new.end = from + hours
  BY <1>7, <1>13 DEF PlacedRow
<1>15. ClearOf(q[1].id, new) /\ from \in Nat
  BY <1>11, <1>12, <1>14, SearchClears DEF SlotInv
<1>16. new \in PlacedRow
  <2>1. row \in [status : SlotStatus \ {"none"}, on : Resources, start : Nat, end : Nat]
    BY <1>7 DEF PlacedRow
  <2>2. from + hours \in Nat /\ from < from + hours
    BY <1>11, <1>15
  <2>3. new \in [status : SlotStatus \ {"none"}, on : Resources, start : Nat, end : Nat]
    BY <1>9, <1>13, <1>15, <2>1, <2>2
  <2> QED
    BY <1>14, <2>2, <2>3 DEF PlacedRow
<1>17. PICK p : p = [q EXCEPT ![1].row = new]
  OBVIOUS
<1>18. p[1].id = q[1].id /\ p[1].row = new /\ p[1] \in SlotEntry
  BY <1>5, <1>16, <1>17 DEF SlotEntry
<1>19. p \in Seq(SlotEntry) /\ p # << >>
  <2>1. p = [q EXCEPT ![1] = p[1]]
    BY <1>4, <1>5, <1>17
  <2> QED
    BY <1>4, <1>5, <1>18, <2>1
<1>20. PICK j : j = [k EXCEPT !.stage = "save", !.list = p]
  OBVIOUS
<1>21. /\ j \in SlotMoves /\ j.op = "move" /\ j.stage = "save" /\ j.list = p
  BY <1>2, <1>19, <1>20 DEF SlotMoves
<1>22. j = [k EXCEPT !.stage = "save", !.list[1].row = new]
  BY <1>2, <1>3, <1>17, <1>20 DEF SlotMoves
<1>23. job' = [job EXCEPT ![c] = j]
  BY <1>1, <1>3, <1>5, <1>6, <1>8, <1>10, <1>12, <1>13, <1>22 DEF MoveSearch, Continue
<1>24. j \in SlotJobs /\ JobFits(j) /\ ReadIsFresh(j) /\ PlaceIsFree(j) /\ ~PutsOff(j)
  BY <1>15, <1>18, <1>19, <1>21
  DEF SlotJobs, JobFits, ReadIsFresh, PlaceIsFree, PutsOff, Relies
<1>25. ~PutsOff(job[c])
  BY <1>1, <1>2 DEF PutsOff, SlotMoves
<1> QED
  BY <1>2, <1>23, <1>24, <1>25, QuietPlain

LEMMA MoveDoneKeeps ==
  ASSUME SlotInv, NEW c \in Clients, MoveDone(c)
  PROVE  SlotInv'
<1>1. job' = [job EXCEPT ![c] = NoJob] /\ UNCHANGED slotData /\ ~PutsOff(job[c])
  BY DEF MoveDone, Reply, Continue, At, PutsOff
<1>2. JobFits(NoJob) /\ ReadIsFresh(NoJob) /\ PlaceIsFree(NoJob) /\ ~PutsOff(NoJob)
  BY DEF JobFits, ReadIsFresh, PlaceIsFree, PutsOff, Relies, NoJob
<1> QED
  BY <1>1, <1>2, EmptyJob, QuietPlain

LEMMA ForwardSearchKeeps ==
  ASSUME SlotInv, NEW c \in Clients, ForwardSearch(c)
  PROVE  SlotInv'
<1>1. PICK k : k = job[c]
  OBVIOUS
<1>2. k \in Forwards /\ UNCHANGED slotData
  BY <1>1, SlotJobAt DEF SlotInv, ForwardSearch
<1>3. PICK s \in k.todo, r \in Resources :
        LET from == NextSlot(r, Hours[s], k.from)
        IN Continue(c, [op |-> "forward", stage |-> "save", todo |-> k.todo,
                        placed |-> k.placed \cup {s}, from |-> k.from, id |-> s,
                        row |-> [status |-> "SCHEDULED", on |-> r,
                                 start |-> from, end |-> from + Hours[s]]])
  BY <1>1 DEF ForwardSearch
<1>4. s \in Rows /\ Hours[s] \in Nat \ {0} /\ r \in Resources /\ k.from \in Nat
  BY <1>2, HoursAssumption DEF Forwards
<1>5. PICK from : from = NextSlot(r, Hours[s], k.from)
  OBVIOUS
<1>6. PICK row : row = [status |-> "SCHEDULED", on |-> r,
                        start |-> from, end |-> from + Hours[s]]
  OBVIOUS
<1>7. row.on = r /\ row.start = from /\ row.end = from + Hours[s]
  BY <1>6
<1>8. ClearOf(s, row) /\ from \in Nat
  BY <1>4, <1>5, <1>7, SearchClears DEF SlotInv
<1>9. row \in PlacedRow
  BY <1>4, <1>6, <1>8 DEF PlacedRow, SlotStatus
<1>10. PICK j : j = [op |-> "forward", stage |-> "save", todo |-> k.todo,
                     placed |-> k.placed \cup {s}, from |-> k.from,
                     id |-> s, row |-> row]
  OBVIOUS
<1>11. job' = [job EXCEPT ![c] = j]
  BY <1>3, <1>5, <1>6, <1>10 DEF Continue
<1>12. j \in ForwardSaves
  BY <1>2, <1>4, <1>9, <1>10 DEF Forwards, ForwardSaves
<1>13. j \in SlotJobs /\ JobFits(j) /\ ReadIsFresh(j) /\ PlaceIsFree(j) /\ ~PutsOff(j)
  BY <1>8, <1>10, <1>12 DEF SlotJobs, JobFits, ReadIsFresh, PlaceIsFree, PutsOff, Relies
<1>14. ~PutsOff(job[c])
  BY <1>1, <1>2 DEF PutsOff, Forwards
<1> QED
  BY <1>2, <1>11, <1>13, <1>14, QuietPlain

LEMMA ShiftDoneKeeps ==
  ASSUME SlotInv, NEW c \in Clients, ShiftDone(c)
  PROVE  SlotInv'
<1>1. PICK k : k = job[c]
  OBVIOUS
<1>2. k \in Shifts /\ k.list = << >> /\ UNCHANGED slotData
  BY <1>1, SlotJobAt DEF SlotInv, ShiftDone, At
<1>3. CASE k.late
  <2>1. PICK now \in Moments : Continue(c, Moving(k.done, "own", now))
    BY <1>1, <1>3 DEF ShiftDone
  <2>2. PICK j : j = [op |-> "move", stage |-> "search", list |-> k.done, to |-> "own",
                      cursor |-> now]
    OBVIOUS
  <2>3. job' = [job EXCEPT ![c] = j]
    BY <2>1, <2>2 DEF Continue, Moving
  <2>4. now \in Nat
    BY MomentsAssumption
  <2>5. j \in SlotMoves
    BY <1>2, <2>2, <2>4 DEF SlotMoves, Shifts
  <2>6. j \in SlotJobs /\ JobFits(j) /\ ReadIsFresh(j) /\ PlaceIsFree(j) /\ ~PutsOff(j)
    BY <2>2, <2>5 DEF SlotJobs, JobFits, ReadIsFresh, PlaceIsFree, PutsOff, Relies
  <2> QED
    BY <1>1, <1>2, <2>3, <2>6, QuietPlain
<1>4. CASE ~k.late
  <2>1. job' = [job EXCEPT ![c] = NoJob]
    BY <1>1, <1>4 DEF ShiftDone, Reply, Continue
  <2>2. JobFits(NoJob) /\ ReadIsFresh(NoJob) /\ PlaceIsFree(NoJob) /\ ~PutsOff(NoJob)
    BY DEF JobFits, ReadIsFresh, PlaceIsFree, PutsOff, Relies, NoJob
  <2> QED
    BY <1>1, <1>2, <2>1, <2>2, EmptyJob, QuietPlain
<1> QED
  BY <1>3, <1>4

-----------------------------------------------------------------------------
(* Saves *)

\* A row saved without a search, or while others are at work.
LEMMA SaveLoosens ==
  ASSUME SlotInv, NEW c \in Clients, NEW id \in Rows, NEW row \in PlacedRow, NEW placed,
         SaveSlot(c, id, row, placed), placed = "unsearched" \/ ~Alone(c),
         NEW j, job' = [job EXCEPT ![c] = j]
  PROVE  Loosens(c, j) /\ loose' = loose \cup {id}
<1>1. slot' = [slot EXCEPT ![id] = row] /\ loose' = loose \cup {id}
  BY DEF SaveSlot
<1>2. SlotTypes'
  BY <1>1 DEF SlotInv, SlotTypes
<1> QED
  BY <1>1, <1>2 DEF Loosens, SlotInv, SlotTypes

\* A row saved where a search has placed it.
LEMMA SearchedSave ==
  ASSUME SlotInv, NEW c \in Clients, NEW id \in Rows, NEW row \in PlacedRow,
         SaveSlot(c, id, row, "searched"), ClearOf(id, row), ~PutsOff(job[c]),
         NEW j, job' = [job EXCEPT ![c] = j], j \in SlotJobs, JobFits(j),
         ~Relies(j), j.stage = "search"
  PROVE  SlotInv'
<1>1. MayStand(j)' /\ ~PutsOff(j)
  BY DEF MayStand, ReadIsFresh, PlaceIsFree, Relies
<1>2. CASE ~Alone(c)
  <2>1. Loosens(c, j)
    BY <1>2, SaveLoosens
  <2>2. KeepsExcuses(c, j)
    BY DEF KeepsExcuses, Between
  <2>3. WillStand(j, c)'
    BY <1>1 DEF WillStand, PutsOff
  <2> QED
    BY <1>1, <2>1, <2>2, <2>3, LooseStep
<1>3. CASE Alone(c)
  <2>1. slot' = [slot EXCEPT ![id] = row] /\ loose' = loose \ {id}
    BY <1>3 DEF SaveSlot
  <2>2. SlotTypes' /\ loose' \subseteq Rows
    BY <2>1 DEF SlotInv, SlotTypes
  <2>3. slot'[id] = row /\ \A s \in Rows \ {id} : slot'[s] = slot[s]
    BY <2>1 DEF SlotInv, SlotTypes
  <2>4. \A s \in Firm' \ {id} : s \in Firm /\ s \in Rows
    BY <2>1, <2>3 DEF Firm
  <2>5. \A d \in Clients : ~PutsOff(job[d])
    BY <1>3, EmptyJob DEF Alone, Relies
  <2>6. AllApart(j)'
    <3> SUFFICES ASSUME NEW s \in Firm', NEW t \in Firm', s # t, slot'[s].on = slot'[t].on
                 PROVE  Apart(slot'[s], slot'[t])
      BY DEF AllApart, Apart
    <3>1. CASE s # id /\ t # id
      BY <2>3, <2>4, <2>5, <3>1 DEF SlotInv, FirmAreApart, Between
    <3>2. CASE s = id
      BY <2>3, <2>4, <3>2 DEF ClearOf
    <3>3. CASE t = id
      BY <2>3, <2>4, <3>3 DEF ClearOf, Apart
    <3> QED
      BY <3>1, <3>2, <3>3
  <2>7. AllWillBeApart(j)'
    BY <1>1 DEF AllWillBeApart, PutsOff
  <2> QED
    BY <1>1, <1>3, <2>2, <2>6, <2>7, AloneStep
<1> QED
  BY <1>2, <1>3

LEMMA MoveSaveKeeps ==
  ASSUME SlotInv, NEW c \in Clients, MoveSave(c)
  PROVE  SlotInv'
<1>1. PICK k : k = job[c]
  OBVIOUS
<1>2. k \in SlotMoves /\ k.stage = "save" /\ k.op = "move"
  BY <1>1, SlotJobAt DEF SlotInv, MoveSave, At
<1>3. k.list # << >> /\ ClearOf(k.list[1].id, k.list[1].row)
  BY <1>1, <1>2 DEF SlotInv, JobsFit, JobFits, PlacesAreFree, PlaceIsFree
<1>4. PICK q : q = k.list
  OBVIOUS
<1>5. q \in Seq(SlotEntry) /\ q # << >>
  BY <1>2, <1>3, <1>4 DEF SlotMoves
<1>6. Head(q) = q[1] /\ q[1] \in SlotEntry /\ Tail(q) \in Seq(SlotEntry)
  BY <1>5, ListParts
<1>7. PICK id, row : id = q[1].id /\ row = q[1].row
  OBVIOUS
<1>8. id \in Rows /\ row \in PlacedRow /\ row.end \in Nat
  BY <1>6, <1>7 DEF SlotEntry, PlacedRow
<1>9. PICK j : j = [k EXCEPT !.stage = "search", !.cursor = row.end, !.list = Tail(q)]
  OBVIOUS
<1>10. SaveSlot(c, id, row, "searched") /\ job' = [job EXCEPT ![c] = j]
  BY <1>1, <1>4, <1>6, <1>7, <1>9 DEF MoveSave, Continue
<1>11. j \in SlotMoves /\ j.stage = "search" /\ j.op = "move"
  BY <1>2, <1>6, <1>8, <1>9 DEF SlotMoves
<1>12. j \in SlotJobs /\ JobFits(j) /\ ~Relies(j)
  BY <1>11 DEF SlotJobs, JobFits, Relies, PutsOff
<1>13. ~PutsOff(job[c]) /\ ClearOf(id, row)
  BY <1>1, <1>2, <1>3, <1>4, <1>7 DEF PutsOff
<1> QED
  BY <1>8, <1>10, <1>11, <1>12, <1>13, SearchedSave

LEMMA ForwardSaveKeeps ==
  ASSUME SlotInv, NEW c \in Clients, ForwardSave(c)
  PROVE  SlotInv'
<1>1. PICK k : k = job[c]
  OBVIOUS
<1>2. k \in ForwardSaves
  BY <1>1, SlotJobAt DEF SlotInv, ForwardSave
<1>3. PICK id, row : id = k.id /\ row = k.row
  OBVIOUS
<1>4. id \in Rows /\ row \in PlacedRow
  BY <1>2, <1>3 DEF ForwardSaves
<1>5. PICK j : j = [op |-> "forward", stage |-> "search", placed |-> k.placed,
                    todo |-> k.todo \ {id}, from |-> k.from]
  OBVIOUS
<1>6. SaveSlot(c, id, row, "searched") /\ job' = [job EXCEPT ![c] = j]
  BY <1>1, <1>3, <1>5 DEF ForwardSave, Continue
<1>7. j \in Forwards /\ j.stage = "search" /\ j.op = "forward"
  BY <1>2, <1>5 DEF Forwards, ForwardSaves
<1>8. j \in SlotJobs /\ JobFits(j) /\ ~Relies(j)
  BY <1>7 DEF SlotJobs, JobFits, Relies, PutsOff
<1>9. ~PutsOff(job[c]) /\ ClearOf(id, row)
  BY <1>1, <1>2, <1>3
  DEF PutsOff, SlotInv, PlacesAreFree, PlaceIsFree, ForwardSaves
<1> QED
  BY <1>4, <1>6, <1>7, <1>8, <1>9, SearchedSave

LEMMA UrgentInsertKeeps ==
  ASSUME SlotInv, NEW c \in Clients, UrgentInsert(c)
  PROVE  SlotInv'
<1>1. PICK k : k = job[c]
  OBVIOUS
<1>2. k \in Urgents
  BY <1>1, SlotJobAt DEF SlotInv, UrgentInsert, At
<1>3. k.id \in Rows /\ Hours[k.id] \in Nat \ {0} /\ k.from \in Nat /\ k.on \in Resources
      /\ k.list \in Seq(SlotEntry)
  BY <1>2, HoursAssumption DEF Urgents
<1>4. PICK end : end = k.from + Hours[k.id]
  OBVIOUS
<1>5. PICK row : row = [status |-> "SCHEDULED", on |-> k.on, start |-> k.from, end |-> end]
  OBVIOUS
<1>6. row \in PlacedRow /\ end \in Nat
  BY <1>3, <1>4, <1>5 DEF PlacedRow, SlotStatus
<1>7. PICK j : j = [op |-> "move", stage |-> "search", list |-> k.list, to |-> "own",
                    cursor |-> end]
  OBVIOUS
<1>8. SaveSlot(c, k.id, row, "unsearched") /\ job' = [job EXCEPT ![c] = j]
  BY <1>1, <1>4, <1>5, <1>7 DEF UrgentInsert, Continue, Moving
<1>9. j \in SlotMoves /\ j.stage = "search" /\ j.op = "move"
  BY <1>3, <1>6, <1>7 DEF SlotMoves
<1>10. MayStand(j)' /\ ~PutsOff(j)
  BY <1>9 DEF MayStand, SlotJobs, JobFits, ReadIsFresh, PlaceIsFree, Relies, PutsOff
<1>11. Loosens(c, j)
  BY <1>3, <1>6, <1>8, SaveLoosens
<1>12. KeepsExcuses(c, j)
  BY <1>1, <1>2 DEF KeepsExcuses, Between, PutsOff, Urgents
<1>13. WillStand(j, c)'
  BY <1>10 DEF WillStand, PutsOff
<1> QED
  BY <1>10, <1>11, <1>12, <1>13, LooseStep

\* Rows of a list are saved in one statement, with the status wanted.
LEMMA RowSaveKeeps ==
  ASSUME SlotInv, NEW c \in Clients, RowSave(c)
  PROVE  SlotInv'
<1>1. PICK k : k = job[c]
  OBVIOUS
<1>2. k \in RowJobs /\ k.op = "row"
  BY <1>1, SlotJobAt DEF SlotInv, RowSave, At
<1>3. PICK q : q = k.list
  OBVIOUS
<1>4. /\ q \in Seq(SlotEntry) /\ k.status \in SlotStatus \ {"none", "SCHEDULED"}
  BY <1>2, <1>3 DEF RowJobs
<1>5. PICK ids : ids = {q[i].id : i \in DOMAIN q}
  OBVIOUS
<1>6. PICK of : of = [s \in ids |-> CHOOSE i \in DOMAIN q : q[i].id = s]
  OBVIOUS
<1>7. \A s \in ids : of[s] \in DOMAIN q /\ q[of[s]].id = s
  <2> SUFFICES ASSUME NEW s \in ids PROVE of[s] \in DOMAIN q /\ q[of[s]].id = s
    OBVIOUS
  <2>1. \E i \in DOMAIN q : q[i].id = s
    BY <1>5
  <2>2. of[s] = CHOOSE i \in DOMAIN q : q[i].id = s
    BY <1>6
  <2> QED
    BY <2>1, <2>2
<1>8. \A i \in DOMAIN q : q[i] \in SlotEntry
  BY <1>4
<1>9. ids \subseteq Rows
  BY <1>5, <1>8 DEF SlotEntry
<1>10. slot' = [s \in Rows |-> IF s \in ids THEN [q[of[s]].row EXCEPT !.status = k.status]
                                            ELSE slot[s]]
  BY <1>1, <1>3, <1>5, <1>6 DEF RowSave
<1>11. loose' = IF Alone(c) THEN loose ELSE loose \cup ids
  BY <1>1, <1>3, <1>5 DEF RowSave
<1>12. job' = [job EXCEPT ![c] = NoJob]
  BY DEF RowSave, Reply, Continue
<1>13. \A s \in ids : q[of[s]].row \in PlacedRow /\ slot'[s] \in PlacedRow
                      /\ slot'[s] = [q[of[s]].row EXCEPT !.status = k.status]
  <2> SUFFICES ASSUME NEW s \in ids
               PROVE  /\ q[of[s]].row \in PlacedRow /\ slot'[s] \in PlacedRow
                      /\ slot'[s] = [q[of[s]].row EXCEPT !.status = k.status]
    OBVIOUS
  <2>1. PICK row : row = q[of[s]].row
    OBVIOUS
  <2>2. row \in PlacedRow
    BY <1>7, <1>8, <2>1 DEF SlotEntry
  <2>3. slot'[s] = [row EXCEPT !.status = k.status]
    BY <1>9, <1>10, <2>1
  <2> QED
    BY <1>4, <2>1, <2>2, <2>3 DEF PlacedRow
<1>14. \A s \in Rows \ ids : slot'[s] = slot[s]
  BY <1>10
<1>15. SlotTypes'
  <2>1. \A s \in Rows : slot'[s] \in PlacedRow \cup {NoSlot}
    BY <1>13, <1>14 DEF SlotInv, SlotTypes
  <2> QED
    BY <1>10, <2>1 DEF SlotTypes
<1>16. ~PutsOff(k) /\ Relies(k) /\ ~PutsOff(NoJob)
  BY <1>2, EmptyJob DEF PutsOff, Relies
<1>17. MayStand(NoJob)'
  BY DEF MayStand, JobFits, ReadIsFresh, PlaceIsFree, PutsOff, Relies, NoJob, SlotJobs
<1>18. CASE ~Alone(c)
  <2>1. Loosens(c, NoJob)
    BY <1>9, <1>11, <1>12, <1>14, <1>15, <1>18 DEF Loosens, SlotInv
  <2>2. KeepsExcuses(c, NoJob)
    BY <1>1, <1>16 DEF KeepsExcuses, Between
  <2>3. WillStand(NoJob, c)'
    BY <1>16 DEF WillStand, PutsOff
  <2> QED
    BY <1>17, <2>1, <2>2, <2>3, LooseStep
<1>19. CASE Alone(c)
  <2>1. loose' = loose
    BY <1>11, <1>19
  <2>2. \A d \in Clients : ~PutsOff(job[d])
    BY <1>1, <1>16, <1>19, EmptyJob DEF Alone
  <2>3. \A s \in ids \ loose : slot[s] = q[of[s]].row
    BY <1>1, <1>3, <1>7, <1>16 DEF SlotInv, RowsAreFresh, ReadIsFresh
  <2>4. \A s \in ids \ loose : /\ slot'[s].on = slot[s].on /\ slot'[s].start = slot[s].start
                               /\ slot'[s].end = slot[s].end /\ slot'[s].status = k.status
    <3> SUFFICES ASSUME NEW s \in ids \ loose
                 PROVE  /\ slot'[s].on = slot[s].on /\ slot'[s].start = slot[s].start
                        /\ slot'[s].end = slot[s].end /\ slot'[s].status = k.status
      OBVIOUS
    <3>1. slot[s] \in PlacedRow /\ slot'[s] = [slot[s] EXCEPT !.status = k.status]
      BY <1>13, <2>3
    <3> QED
      BY <3>1 DEF PlacedRow
  <2>5. \A s \in ids \ loose : k.status \in Live => slot[s].status \in Live
    <3> SUFFICES ASSUME NEW s \in ids \ loose, k.status \in Live
                 PROVE  slot[s].status = "SCHEDULED"
      BY DEF Live
    <3>1. k.status = "CONFIRMED"
      BY <1>4 DEF Live
    <3>2. JobFits(k)
      BY <1>1 DEF SlotInv, JobsFit
    <3>3. q[of[s]].row.status = "SCHEDULED"
      BY <1>2, <1>3, <1>7, <3>1, <3>2 DEF JobFits
    <3> QED
      BY <2>3, <3>3
  <2>6. \A s \in Firm' : /\ s \in Firm /\ slot'[s].on = slot[s].on
                         /\ slot'[s].start = slot[s].start /\ slot'[s].end = slot[s].end
    <3> SUFFICES ASSUME NEW s \in Firm'
                 PROVE  /\ s \in Firm /\ slot'[s].on = slot[s].on
                        /\ slot'[s].start = slot[s].start /\ slot'[s].end = slot[s].end
      OBVIOUS
    <3>1. s \in Rows \ loose /\ slot'[s].status \in Live
      BY <2>1 DEF Firm
    <3>2. CASE s \in ids
      BY <2>4, <2>5, <3>1, <3>2 DEF Firm
    <3>3. CASE s \notin ids
      BY <1>14, <3>1, <3>3 DEF Firm
    <3> QED
      BY <3>2, <3>3
  <2>7. AllApart(NoJob)'
    <3> SUFFICES ASSUME NEW s \in Firm', NEW t \in Firm', s # t, slot'[s].on = slot'[t].on
                 PROVE  Apart(slot'[s], slot'[t])
      BY DEF AllApart, Apart
    <3>1. Apart(slot[s], slot[t])
      BY <2>2, <2>6 DEF SlotInv, FirmAreApart, Between
    <3> QED
      BY <2>6, <3>1 DEF Apart
  <2>8. AllWillBeApart(NoJob)'
    BY <1>16 DEF AllWillBeApart, PutsOff
  <2>9. loose' \subseteq Rows
    BY <2>1 DEF SlotInv
  <2> QED
    BY <1>12, <1>15, <1>17, <1>19, <2>7, <2>8, <2>9, AloneStep
<1> QED
  BY <1>18, <1>19

LEMMA SlotDieKeeps ==
  ASSUME SlotInv, NEW c \in Clients, SlotDie(c)
  PROVE  SlotInv'
<1>1. PICK k : k = job[c]
  OBVIOUS
<1>2. k.op = "shift" => k \in Shifts
  BY <1>1, SlotJobAt DEF SlotInv
<1>3. slot' = slot /\ job' = [job EXCEPT ![c] = NoJob]
  BY DEF SlotDie, Reply, Continue
<1>4. loose' = IF k.op = "shift" THEN loose \cup IdsOf(k.done) ELSE loose
  BY <1>1 DEF SlotDie, IdsOf
<1>5. k.op = "shift" => IdsOf(k.done) \subseteq Rows
  <2> SUFFICES ASSUME k.op = "shift", NEW i \in DOMAIN k.done PROVE k.done[i].id \in Rows
    BY DEF IdsOf
  <2>1. k.done[i] \in SlotEntry
    BY <1>2 DEF Shifts
  <2> QED
    BY <2>1 DEF SlotEntry
<1>6. Loosens(c, NoJob)
  BY <1>3, <1>4, <1>5 DEF Loosens, SlotInv, SlotTypes
<1>7. KeepsExcuses(c, NoJob)
  BY <1>1, <1>4 DEF KeepsExcuses, Between, PutsOff, Firm
<1>8. MayStand(NoJob)' /\ WillStand(NoJob, c)'
  BY DEF MayStand, WillStand, JobFits, ReadIsFresh, PlaceIsFree, PutsOff, Relies, NoJob,
         SlotJobs
<1> QED
  BY <1>6, <1>7, <1>8, LooseStep

-----------------------------------------------------------------------------
(* Rows that are put off *)

\* What is known of a request that puts rows off, and of its next save.
ShiftParts(k, q, id, row, new, j) ==
  /\ k \in Shifts /\ k.op = "shift" /\ q = k.list
  /\ q \in Seq(SlotEntry) /\ Tail(q) \in Seq(SlotEntry)
  /\ 1 \in DOMAIN q /\ id = q[1].id /\ row = q[1].row /\ id \in Rows /\ row \in PlacedRow
  /\ new \in PlacedRow /\ new.on = row.on /\ new.status = row.status
  /\ (k.by = FailureDelay /\ k.hours = 0 => new = PutOff(row))
  /\ \A i \in DOMAIN Tail(q) : i + 1 \in DOMAIN q /\ Tail(q)[i] = q[i + 1] /\ i # 0
  /\ IdsOf(Tail(q)) \subseteq IdsOf(q) /\ IdsOf(q) \subseteq IdsOf(Tail(q)) \cup {id}
  /\ id \in IdsOf(q)
  /\ j \in Shifts /\ j.list = Tail(q) /\ IdsOf(j.done) = IdsOf(k.done) \cup {id}
  /\ j.op = "shift" /\ j.placed = k.placed /\ j.by = k.by /\ j.hours = k.hours
  /\ j.late = k.late

LEMMA ShiftSaves ==
  ASSUME SlotInv, NEW c \in Clients, ShiftSave(c)
  PROVE  \E k, q, id, row, new, j :
           /\ k = job[c] /\ ShiftParts(k, q, id, row, new, j)
           /\ SaveSlot(c, id, new, k.placed) /\ job' = [job EXCEPT ![c] = j]
<1>1. PICK k : k = job[c]
  OBVIOUS
<1>2. k \in Shifts /\ k.op = "shift" /\ k.list # << >>
  BY <1>1, SlotJobAt DEF SlotInv, ShiftSave, At
<1>3. PICK q : q = k.list
  OBVIOUS
<1>4. /\ q \in Seq(SlotEntry) /\ q # << >> /\ k.by \in Nat /\ k.hours \in Nat
      /\ k.done \in Seq(SlotEntry)
  BY <1>2, <1>3 DEF Shifts
<1>5. /\ Head(q) = q[1] /\ q[1] \in SlotEntry /\ 1 \in DOMAIN q
      /\ q[1].id \in IdsOf(q)
      /\ Tail(q) \in Seq(SlotEntry)
      /\ \A i \in DOMAIN Tail(q) : i + 1 \in DOMAIN q /\ Tail(q)[i] = q[i + 1] /\ i # 0
      /\ IdsOf(Tail(q)) \subseteq IdsOf(q)
      /\ IdsOf(q) \subseteq IdsOf(Tail(q)) \cup {q[1].id}
  BY <1>4, ListParts
<1>6. PICK id, row : id = q[1].id /\ row = q[1].row
  OBVIOUS
<1>7. id \in Rows /\ row \in PlacedRow
  BY <1>5, <1>6 DEF SlotEntry
<1>8. PICK from : from = row.start + k.by
  OBVIOUS
<1>9. PICK end : end = IF k.hours = 0 THEN row.end + k.by ELSE from + k.hours
  OBVIOUS
<1>10. PICK new : new = [row EXCEPT !.start = from, !.end = end]
  OBVIOUS
<1>11. /\ row \in [status : SlotStatus \ {"none"}, on : Resources, start : Nat, end : Nat]
       /\ row.start \in Nat /\ row.end \in Nat /\ row.start < row.end
  BY <1>7 DEF PlacedRow
<1>12. from \in Nat /\ end \in Nat /\ from < end
  <2>1. k.by \in Nat /\ k.hours \in Nat /\ from \in Nat /\ from = row.start + k.by
    BY <1>4, <1>8, <1>11
  <2>2. CASE k.hours = 0
    <3>1. end = row.end + k.by
      BY <1>9, <2>2
    <3> QED
      BY <1>11, <2>1, <3>1
  <2>3. CASE k.hours # 0
    <3>1. end = from + k.hours
      BY <1>9, <2>3
    <3> QED
      BY <2>1, <2>3, <3>1
  <2> QED
    BY <2>2, <2>3
<1>13. /\ new \in [status : SlotStatus \ {"none"}, on : Resources, start : Nat, end : Nat]
       /\ new.start = from /\ new.end = end /\ new.on = row.on /\ new.status = row.status
  BY <1>10, <1>11, <1>12
<1>14. new \in PlacedRow
  BY <1>12, <1>13 DEF PlacedRow
<1>15. k.by = FailureDelay /\ k.hours = 0 => new = PutOff(row)
  BY <1>8, <1>9, <1>10 DEF PutOff
<1>16. PICK e : e = [id |-> id, row |-> new]
  OBVIOUS
<1>17. e \in SlotEntry /\ e.id = id
  BY <1>7, <1>14, <1>16 DEF SlotEntry
<1>18. PICK done : done = Append(k.done, e)
  OBVIOUS
<1>19. /\ done \in Seq(SlotEntry) /\ DOMAIN done = 1..(Len(k.done) + 1)
       /\ DOMAIN k.done = 1..Len(k.done) /\ Len(k.done) \in Nat
       /\ \A i \in 1..Len(k.done) : done[i] = k.done[i]
       /\ done[Len(k.done) + 1] = e
  BY <1>4, <1>17, <1>18
<1>20. IdsOf(done) = IdsOf(k.done) \cup {id}
  <2>1. IdsOf(k.done) \subseteq IdsOf(done)
    <3> SUFFICES ASSUME NEW i \in DOMAIN k.done PROVE k.done[i].id \in IdsOf(done)
      BY DEF IdsOf
    <3>1. i \in DOMAIN done /\ done[i] = k.done[i]
      BY <1>19
    <3> QED
      BY <3>1 DEF IdsOf
  <2>2. id \in IdsOf(done)
    <3>1. Len(k.done) + 1 \in DOMAIN done
      BY <1>19
    <3> QED
      BY <1>17, <1>19, <3>1 DEF IdsOf
  <2>3. ASSUME NEW i \in DOMAIN done PROVE done[i].id \in IdsOf(k.done) \cup {id}
    <3>1. CASE i = Len(k.done) + 1
      BY <1>17, <1>19, <3>1
    <3>2. CASE i # Len(k.done) + 1
      <4>1. i \in DOMAIN k.done /\ done[i] = k.done[i]
        BY <1>19, <3>2
      <4> QED
        BY <4>1 DEF IdsOf
    <3> QED
      BY <3>1, <3>2
  <2> QED
    BY <2>1, <2>2, <2>3 DEF IdsOf
<1>21. PICK j : j = [k EXCEPT !.list = Tail(q), !.done = done]
  OBVIOUS
<1>22. /\ j \in Shifts /\ j.list = Tail(q) /\ j.done = done /\ j.op = "shift"
       /\ j.placed = k.placed /\ j.by = k.by /\ j.hours = k.hours /\ j.late = k.late
  BY <1>2, <1>5, <1>19, <1>21 DEF Shifts
<1>23. SaveSlot(c, id, new, k.placed)
  BY <1>1, <1>3, <1>5, <1>6, <1>8, <1>9, <1>10 DEF ShiftSave
<1>24. job' = [job EXCEPT ![c] = j]
  BY <1>1, <1>3, <1>5, <1>6, <1>8, <1>9, <1>10, <1>16, <1>18, <1>21
  DEF ShiftSave, Continue
<1>25. ShiftParts(k, q, id, row, new, j)
  BY <1>2, <1>3, <1>4, <1>5, <1>6, <1>7, <1>13, <1>14, <1>15, <1>20, <1>22
  DEF ShiftParts
<1> QED
  BY <1>1, <1>23, <1>24, <1>25

\* Rows put off together are listed once, in rows that are worked off.
LEMMA KeptGoesOn ==
  ASSUME NEW k, NEW q, NEW id, NEW row, NEW new, NEW j,
         ShiftParts(k, q, id, row, new, j), PutsOff(k), KeptAlike(k)
  PROVE  /\ PutsOff(j) /\ KeptAlike(j)
         /\ id \notin IdsOf(Tail(q)) /\ id \notin IdsOf(k.done)
         /\ row.status \in Live /\ new = PutOff(row)
<1>1. PutsOff(j) /\ j.by = FailureDelay /\ j.hours = 0 /\ ~j.late /\ new = PutOff(row)
  BY DEF ShiftParts, PutsOff, KeptAlike
<1>2. /\ \A i \in DOMAIN q : q[i].row.status \in Live
      /\ \A i, m \in DOMAIN q : i # m => q[i].id # q[m].id
      /\ IdsOf(q) \cap IdsOf(k.done) = {}
  BY DEF ShiftParts, KeptAlike
<1>3. PICK p : p = Tail(q)
  OBVIOUS
<1>4. /\ \A i \in DOMAIN p : i + 1 \in DOMAIN q /\ p[i] = q[i + 1] /\ i # 0
      /\ DOMAIN p \subseteq Int
      /\ 1 \in DOMAIN q /\ id = q[1].id /\ row = q[1].row
  BY <1>3 DEF ShiftParts
<1>5. \A i \in DOMAIN p : p[i].row.status \in Live /\ p[i].id # id
  <2> SUFFICES ASSUME NEW i \in DOMAIN p PROVE p[i].row.status \in Live /\ p[i].id # id
    OBVIOUS
  <2>1. i \in Int /\ i + 1 # 1 /\ i + 1 \in DOMAIN q /\ p[i] = q[i + 1]
    BY <1>4
  <2> QED
    BY <1>2, <1>4, <2>1
<1>6. \A i, m \in DOMAIN p : i # m => p[i].id # p[m].id
  <2> SUFFICES ASSUME NEW i \in DOMAIN p, NEW m \in DOMAIN p, i # m PROVE p[i].id # p[m].id
    OBVIOUS
  <2>1. i \in Int /\ m \in Int /\ i + 1 # m + 1
    BY <1>4
  <2>2. i + 1 \in DOMAIN q /\ m + 1 \in DOMAIN q /\ p[i] = q[i + 1] /\ p[m] = q[m + 1]
    BY <1>4
  <2> QED
    BY <1>2, <2>1, <2>2
<1>7. id \notin IdsOf(p)
  BY <1>5 DEF IdsOf
<1>8. IdsOf(p) \cap IdsOf(j.done) = {}
  BY <1>2, <1>3, <1>7 DEF ShiftParts
<1>9. id \notin IdsOf(k.done)
  BY <1>2 DEF ShiftParts
<1>10. j.list = p
  BY <1>3 DEF ShiftParts
<1>11. KeptAlike(j)
  BY <1>1, <1>5, <1>6, <1>8, <1>10 DEF KeptAlike
<1> QED
  BY <1>1, <1>2, <1>3, <1>4, <1>7, <1>9, <1>11

LEMMA ShiftSaveKeeps ==
  ASSUME SlotInv, NEW c \in Clients, ShiftSave(c)
  PROVE  SlotInv'
<1>1. PICK k, q, id, row, new, j :
        /\ k = job[c] /\ ShiftParts(k, q, id, row, new, j)
        /\ SaveSlot(c, id, new, k.placed) /\ job' = [job EXCEPT ![c] = j]
  BY ShiftSaves
<1>2. /\ id \in Rows /\ new \in PlacedRow /\ j \in SlotJobs /\ k.list = q /\ j.list = Tail(q)
      /\ k.placed \in {"unsearched", "kept"} /\ j.op = "shift" /\ j.placed = k.placed
      /\ k.op = "shift" /\ new.on = row.on /\ new.status = row.status
      /\ 1 \in DOMAIN q /\ id = q[1].id /\ row = q[1].row
      /\ IdsOf(j.list) \subseteq IdsOf(k.list) /\ IdsOf(k.list) \subseteq IdsOf(j.list) \cup {id}
      /\ IdsOf(j.done) = IdsOf(k.done) \cup {id} /\ id \in IdsOf(k.list)
  BY <1>1 DEF ShiftParts, SlotJobs, Shifts
<1>3. slot' = [slot EXCEPT ![id] = new]
  BY <1>1 DEF SaveSlot
<1>4. slot'[id] = new /\ \A s \in Rows \ {id} : slot'[s] = slot[s]
  BY <1>2, <1>3 DEF SlotInv, SlotTypes
<1>5. loose \subseteq loose'
  BY <1>1, <1>2 DEF SaveSlot
<1>6. PutsOff(k) => KeptAlike(k) /\ ReadIsFresh(k)
  BY <1>1 DEF SlotInv, JobsFit, JobFits, RowsAreFresh
<1>7. PutsOff(k) => /\ PutsOff(j) /\ KeptAlike(j)
                    /\ id \notin IdsOf(j.list) /\ id \notin IdsOf(k.done)
                    /\ row.status \in Live /\ new = PutOff(row)
  BY <1>1, <1>2, <1>6, KeptGoesOn
<1>8. PutsOff(j) <=> PutsOff(k)
  BY <1>2 DEF PutsOff
<1>9. \A i \in DOMAIN Tail(q) : /\ Tail(q)[i].id \in Rows
                                /\ \E m \in DOMAIN q : Tail(q)[i] = q[m]
  <2> SUFFICES ASSUME NEW i \in DOMAIN Tail(q)
               PROVE  Tail(q)[i].id \in Rows /\ \E m \in DOMAIN q : Tail(q)[i] = q[m]
    OBVIOUS
  <2>1. Tail(q)[i] \in SlotEntry
    BY <1>1 DEF ShiftParts
  <2>2. \E m \in DOMAIN q : Tail(q)[i] = q[m]
    BY <1>1 DEF ShiftParts
  <2> QED
    BY <2>1, <2>2 DEF SlotEntry
<1>10. ReadIsFresh(j)'
  <2> SUFFICES ASSUME PutsOff(k), NEW i \in DOMAIN Tail(q)
               PROVE  Tail(q)[i].id \in loose' \/ slot'[Tail(q)[i].id] = Tail(q)[i].row
    BY <1>2, <1>8 DEF ReadIsFresh, Relies
  <2>1. PICK m \in DOMAIN q : Tail(q)[i] = q[m]
    BY <1>9
  <2>2. q[m].id \in loose \/ slot[q[m].id] = q[m].row
    BY <1>2, <1>6 DEF ReadIsFresh, Relies
  <2>3. Tail(q)[i].id # id
    BY <1>2, <1>7 DEF IdsOf
  <2> QED
    BY <1>4, <1>5, <1>9, <2>1, <2>2, <2>3
<1>11. MayStand(j)'
  BY <1>2, <1>7, <1>8, <1>10 DEF MayStand, JobFits, PlaceIsFree
<1>12. CASE k.placed = "unsearched" \/ ~Alone(c)
  <2>1. Loosens(c, j) /\ loose' = loose \cup {id}
    BY <1>1, <1>2, <1>12, SaveLoosens
  <2>2. id \notin Firm'
    BY <2>1 DEF Firm
  <2>3. KeepsExcuses(c, j)
    BY <1>1, <1>2, <1>8, <2>2 DEF KeepsExcuses, Between
  <2>4. WillStand(j, c)'
    <3> SUFFICES ASSUME PutsOff(j), NEW s \in Firm' \cap IdsOf(j.list),
                        NEW t \in Firm' \ IdsOf(j.list), slot'[s].on = slot'[t].on
                 PROVE  \/ Apart(PutOff(slot'[s]), slot'[t])
                        \/ \E d \in Clients \ {c} : Between(job[d], s, t)'
      BY DEF WillStand, Apart, PutOff, Between, PutsOff, IdsOf
    <3>1. s \in Firm /\ t \in Firm /\ slot'[s] = slot[s] /\ slot'[t] = slot[t]
      BY <2>1, FirmStays
    <3>2. s \in IdsOf(k.list) /\ t \notin IdsOf(k.list)
      BY <1>2, <2>2
    <3>3. \/ Apart(PutOff(slot[s]), slot[t])
          \/ \E d \in Clients \ {c} : Between(job[d], s, t)
      BY <1>1, <1>8, <3>1, <3>2 DEF SlotInv, WillBeApart
    <3>4. \A d \in Clients \ {c} : job'[d] = job[d]
      BY <1>1 DEF SlotInv
    <3> QED
      BY <3>1, <3>3, <3>4 DEF Between, PutsOff, IdsOf
  <2> QED
    BY <1>11, <2>1, <2>3, <2>4, LooseStep
<1>13. CASE k.placed = "kept" /\ Alone(c)
  <2>1. loose' = loose /\ PutsOff(k) /\ PutsOff(j)
    BY <1>1, <1>2, <1>8, <1>13 DEF SaveSlot, PutsOff
  <2>2. SlotTypes' /\ loose' \subseteq Rows
    BY <1>2, <1>3, <2>1 DEF SlotInv, SlotTypes
  <2>3. \A d \in Clients \ {c} : ~PutsOff(job[d])
    BY <1>13, EmptyJob DEF Alone, Relies
  <2>4. \A s, t, d : Between(job[d], s, t) /\ d \in Clients => Between(k, s, t)
    BY <1>1, <2>3 DEF Between
  <2>5. id \notin loose => slot[id] = row /\ slot'[id] = PutOff(slot[id])
    BY <1>2, <1>4, <1>6, <1>7, <2>1 DEF ReadIsFresh, Relies
  <2>6. id \in Firm' => id \in Firm /\ slot'[id] = PutOff(slot[id])
                        /\ slot'[id].on = slot[id].on
    BY <1>2, <1>4, <1>7, <2>1, <2>5 DEF Firm
  <2>7. \A s \in Firm' \ {id} : s \in Firm /\ slot'[s] = slot[s]
    BY <1>4, <2>1 DEF Firm
  <2>8. AllApart(j)'
    <3> SUFFICES ASSUME NEW s \in Firm', NEW t \in Firm', s # t, slot'[s].on = slot'[t].on
                 PROVE  Apart(slot'[s], slot'[t]) \/ Between(j, s, t)
      BY DEF AllApart, Apart, Between, PutsOff, IdsOf
    <3>1. s \in Firm /\ t \in Firm /\ slot[s].on = slot[t].on
      BY <2>6, <2>7
    <3>2. Apart(slot[s], slot[t]) \/ Between(k, s, t)
      BY <2>4, <3>1 DEF SlotInv, FirmAreApart
    <3>3. CASE s # id /\ t # id
      <4>1. Between(k, s, t) => Between(j, s, t)
        BY <1>2, <2>1, <3>3 DEF Between
      <4> QED
        BY <2>7, <3>2, <3>3, <4>1
    <3>4. ASSUME NEW u \in Firm', u # id, id \in Firm', slot[u].on = slot[id].on
          PROVE  Apart(slot'[id], slot'[u]) \/ Between(j, id, u)
      <4>1. CASE u \in IdsOf(j.list)
        BY <1>2, <2>1, <4>1 DEF Between
      <4>2. CASE u \notin IdsOf(j.list)
        <5>1. u \in Firm \ IdsOf(k.list) /\ id \in Firm \cap IdsOf(k.list)
          BY <1>2, <2>6, <2>7, <3>4, <4>2
        <5>2. \/ Apart(PutOff(slot[id]), slot[u])
              \/ \E d \in Clients \ {c} : Between(job[d], id, u)
          BY <1>1, <2>1, <3>4, <5>1 DEF SlotInv, WillBeApart
        <5>3. Apart(PutOff(slot[id]), slot[u])
          BY <2>3, <5>2 DEF Between
        <5> QED
          BY <2>6, <2>7, <3>4, <5>3
      <4> QED
        BY <4>1, <4>2
    <3>5. CASE s = id
      BY <3>1, <3>4, <3>5
    <3>6. CASE t = id
      <4>1. Apart(slot'[id], slot'[s]) \/ Between(j, id, s)
        BY <3>1, <3>4, <3>6
      <4> QED
        BY <3>6, <4>1 DEF Apart, Between
    <3> QED
      BY <3>3, <3>5, <3>6
  <2>9. AllWillBeApart(j)'
    <3> SUFFICES ASSUME NEW s \in Firm' \cap IdsOf(j.list), NEW t \in Firm' \ IdsOf(j.list),
                        slot'[s].on = slot'[t].on
                 PROVE  Apart(PutOff(slot'[s]), slot'[t])
      BY DEF AllWillBeApart, Apart, PutOff, IdsOf, PutsOff
    <3>1. s # id /\ s \in Firm /\ t \in Firm /\ slot'[s] = slot[s] /\ s \in IdsOf(k.list)
          /\ slot[s].on = slot[t].on
      BY <1>2, <1>7, <2>1, <2>6, <2>7
    <3>2. CASE t # id
      <4>1. t \notin IdsOf(k.list) /\ slot'[t] = slot[t]
        BY <1>2, <2>7, <3>2
      <4>2. \/ Apart(PutOff(slot[s]), slot[t])
            \/ \E d \in Clients \ {c} : Between(job[d], s, t)
        BY <1>1, <2>1, <3>1, <4>1 DEF SlotInv, WillBeApart
      <4> QED
        BY <2>3, <3>1, <4>1, <4>2 DEF Between
    <3>3. CASE t = id
      <4>1. ~Between(k, s, id)
        BY <1>2, <1>6, <1>7, <2>1, <3>1 DEF Between, KeptAlike
      <4>2. Apart(slot[s], slot[id])
        BY <2>4, <3>1, <3>3, <4>1 DEF SlotInv, FirmAreApart
      <4>3. slot[s] \in PlacedRow /\ slot[id] \in PlacedRow
        <5>1. s \in Rows /\ slot[s].status # "none" /\ slot[id].status # "none"
          BY <3>1, <3>3 DEF Firm, Live
        <5> QED
          BY <1>2, <5>1, SlotIsPlaced DEF SlotInv
      <4>4. Apart(PutOff(slot[s]), PutOff(slot[id]))
        <5>1. /\ slot[s].start \in Nat /\ slot[s].end \in Nat
              /\ slot[id].start \in Nat /\ slot[id].end \in Nat
          BY <4>3 DEF PlacedRow
        <5>2. /\ PutOff(slot[s]).start = slot[s].start + 8
              /\ PutOff(slot[s]).end = slot[s].end + 8
              /\ PutOff(slot[id]).start = slot[id].start + 8
              /\ PutOff(slot[id]).end = slot[id].end + 8
          BY <4>3 DEF PutOff, PlacedRow, FailureDelay
        <5> QED
          BY <4>2, <5>1, <5>2 DEF Apart
      <4> QED
        BY <2>6, <3>1, <3>3, <4>4
    <3> QED
      BY <3>2, <3>3
  <2> QED
    BY <1>1, <1>11, <1>13, <2>2, <2>8, <2>9, AloneStep
<1> QED
  BY <1>2, <1>12, <1>13

-----------------------------------------------------------------------------
(* Theorems *)

LEMMA SlotInitInv == ReqInit /\ SlotInit => SlotInv
<1> SUFFICES ASSUME ReqInit, SlotInit PROVE SlotInv
  OBVIOUS
<1>1. \A c \in Clients : job[c] = NoJob
  BY DEF ReqInit
<1>2. /\ JobFits(NoJob) /\ ReadIsFresh(NoJob) /\ PlaceIsFree(NoJob) /\ ~PutsOff(NoJob)
  BY DEF JobFits, ReadIsFresh, PlaceIsFree, PutsOff, Relies, NoJob
<1>3. JobsFit /\ RowsAreFresh /\ PlacesAreFree /\ WillBeApart
  BY <1>1, <1>2 DEF JobsFit, RowsAreFresh, PlacesAreFree, WillBeApart
<1>4. Firm = {}
  BY DEF Firm, SlotInit, NoSlot, Live
<1>5. SlotTypes /\ loose \subseteq Rows /\ job \in [Clients -> SlotJobs]
  BY DEF SlotInit, SlotTypes, ReqInit, SlotJobs
<1> QED
  BY <1>3, <1>4, <1>5 DEF SlotInv, FirmAreApart

LEMMA SlotNextInv == SlotInv /\ [SlotNext]_slotVars => SlotInv'
<1> SUFFICES ASSUME SlotInv, [SlotNext]_slotVars PROVE SlotInv'
  OBVIOUS
<1>1. CASE UNCHANGED slotVars
  <2>1. slot' = slot /\ loose' = loose /\ job' = job
    BY <1>1 DEF slotVars, slotData, reqVars
  <2>2. JobsFit' /\ RowsAreFresh' /\ PlacesAreFree' /\ FirmAreApart' /\ WillBeApart'
    BY <2>1 DEF SlotInv, JobsFit, RowsAreFresh, ReadIsFresh, PlacesAreFree, PlaceIsFree,
                ClearOf, FirmAreApart, WillBeApart, Firm, Between, PutsOff, IdsOf
  <2> QED
    BY <2>1, <2>2 DEF SlotInv, SlotTypes
<1>2. CASE SlotNext
  BY <1>2, ForwardKeeps, UrgentKeeps, ReplanFaultKeeps, ReplanMaintenanceKeeps,
     CancelSlotKeeps, CompleteSlotKeeps, ReplanDelayKeeps, ReplanChangeKeeps, ReplanDateKeeps,
     ForwardSearchKeeps, ForwardSaveKeeps, ReleaseReadKeeps, RowSaveKeeps,
     UrgentInsertKeeps, MoveSearchKeeps, MoveSaveKeeps, MoveDoneKeeps,
     ShiftSaveKeeps, ShiftDoneKeeps, SlotDieKeeps
  DEF SlotNext
<1> QED
  BY <1>1, <1>2

(***************************************************************************)
(* Rows of the schedule keep their types and end after they begin, and     *)
(* loose only holds rows, whatever the requests on them do.                *)
(***************************************************************************)
THEOREM SlotsAreTyped == SlotSpec => []SlotTypeOK
<1>1. SlotInv => SlotTypeOK
  <2> SUFFICES ASSUME SlotInv PROVE SlotTypeOK
    OBVIOUS
  <2>1. \A s \in Rows : slot[s] \in [status : SlotStatus, on : Resources \cup {"none"},
                                     start : Nat, end : Nat]
    BY DEF SlotInv, SlotTypes, PlacedRow, NoSlot, SlotStatus
  <2>2. slot \in [Rows -> [status : SlotStatus, on : Resources \cup {"none"},
                           start : Nat, end : Nat]]
    BY <2>1 DEF SlotInv, SlotTypes
  <2> QED
    BY <2>2, SlotIsPlaced DEF SlotTypeOK, SlotInv
<1> QED
  BY <1>1, SlotInitInv, SlotNextInv, PTL DEF SlotSpec

\* The search of one resource finds the first gap in which hours fit.
LEMMA GapIsAlwaysFirst ==
  ASSUME SlotTypes
  PROVE  GapIsFirst
<1> SUFFICES ASSUME NEW r \in Resources, NEW from \in Starts \cup Moments,
                    NEW s \in Rows
             PROVE  LET way == InTheWay(r, from)
                        hours == Hours[s]
                        Free(t) == \A u \in way : t + hours <= slot[u].start
                                                  \/ slot[u].end <= t
                        found == NextSlot(r, hours, from)
                    IN found >= from /\ Free(found) /\ \A t \in from..(found - 1) : ~Free(t)
  BY DEF GapIsFirst
<1>1. from \in Nat /\ Hours[s] \in Nat \ {0}
  BY MomentsAssumption, HoursAssumption
<1> QED
  BY <1>1, GapIsFound DEF FreeOf

(***************************************************************************)
(* No two rows that are to be worked off take the same hours of a          *)
(* resource, and a search finds the first gap that is long enough: for any *)
(* rows, resources and requests, those excepted that loose names and, while*)
(* rows are put off one after the other, the request that does so.         *)
(***************************************************************************)
THEOREM SlotsStayApart == SlotSpec => []SlotsAreApart
<1>1. SlotInv => SlotsAreApart
  <2> SUFFICES ASSUME SlotInv PROVE SlotsAreApart
    OBVIOUS
  <2>1. GapIsFirst
    BY GapIsAlwaysFirst DEF SlotInv
  <2>2. ASSUME \A c \in Clients : job[c].op # "shift",
               NEW s \in Firm, NEW t \in Firm, s # t, slot[s].on = slot[t].on
        PROVE  Apart(slot[s], slot[t])
    BY <2>2 DEF SlotInv, FirmAreApart, Between, PutsOff
  <2> QED
    BY <2>1, <2>2 DEF SlotsAreApart, Firm, Apart
<1> QED
  BY <1>1, SlotInitInv, SlotNextInv, PTL DEF SlotSpec
=============================================================================
