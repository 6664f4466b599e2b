---------------------------- MODULE ReviewProofs ----------------------------
(***************************************************************************)
(* Theorems about Review, for any employees, organizations, plots, prices, *)
(* limits and benefit claims.                                              *)
(***************************************************************************)
EXTENDS Review, TLAPS

CalculationRow == [amount : Nat, contour : Contours, after : BOOLEAN]

\* Where an application is in its life, seen from the requests at work on it: nobody works
\* on one that is not filed, an approval has it in review, a resubmission has it returned,
\* and it is billed from the decision on.
Stage ==
  /\ status = "none" => /\ assignment = None /\ resubmitting = None /\ approving = None
                        /\ recalculating = None
  /\ status # "none" => calculation \in CalculationRow /\ assigned_org \in Organizations
  /\ approving # None => status = "IN_REVIEW"
  /\ resubmitting # None => status = "RETURNED"
  /\ status = "PENDING_INFO" => info # None
  /\ invoice # None <=> status \in {"INVOICED", "PAID", "EXPIRED_UNPAID"}
  /\ printed # None => status = "PAID"

-----------------------------------------------------------------------------
(* Type correctness.                                                        *)

\* Where the transition table lets the verbs of this module start from.
LEMMA MovesFrom ==
  /\ MayMove(status, "IN_REVIEW") => status \in {"SUBMITTED", "PENDING_INFO"}
  /\ MayMove(status, "PENDING_INFO") => status = "IN_REVIEW"
  /\ MayMove(status, "RETURNED") => status \in {"SUBMITTED", "IN_REVIEW"}
  /\ MayMove(status, "REJECTED") => status \in {"SUBMITTED", "IN_REVIEW"}
  /\ MayMove(status, "APPROVED") => status = "IN_REVIEW"
  BY DEF MayMove, APPLICATION_TRANSITIONS

\* A price is always a row of calculations.
LEMMA CalculationType ==
  ASSUME NEW c \in Contours, NEW after \in BOOLEAN, tariff \in Tariffs
  PROVE  Calculation(c, after) \in CalculationRow
<1>1. Price[<<c, tariff>>] \in Nat
  BY ReviewAssumption
<1> QED
  BY <1>1 DEF Calculation, CalculationRow

\* Assignment names organizations and employees.
LEMMA AssignType ==
  ASSUME TypeOK, NEW org \in Organizations, NEW u \in Users \cup {None}, ClaimAssignment(org, u)
  PROVE  assignment' \in [org : Organizations, user : Users \cup {None}]
  BY DEF ClaimAssignment, TypeOK

\* A filing is given to the forestry of its plot, and to one of its executors or nobody.
LEMMA AutoAssignType ==
  ASSUME TypeOK, NEW c \in Contours, AutoAssign(c)
  PROVE  /\ assigned_org' \in Organizations
         /\ assigned_user' \in Users \cup {None}
         /\ assignment' \in [org : Organizations, user : Users \cup {None}] \cup {None}
<1>1. OrgOf[c] \in Organizations
  BY ReviewAssumption
<1>2. Executors(OrgOf[c]) \subseteq Users \cup {None}
  BY DEF Executors, ReviewCandidates, Users
<1> QED
  BY <1>1, <1>2 DEF AutoAssign, assignVars, TypeOK

\* Every step keeps the types and the order of an application's life.
LEMMA StageStep ==
  ASSUME TypeOK, Stage, [Next]_vars
  PROVE  TypeOK' /\ Stage'
<1> USE ReviewAssumption
    DEF Stage, filingVars, assignVars, slaVars, requestVars, moneyVars, benefitVars
<1>1. ASSUME NEW c \in Contours, NEW k \in Claims, File(c, k)
      PROVE  TypeOK' /\ Stage'
  <2>1. /\ assigned_org' \in Organizations /\ assigned_user' \in Users \cup {None}
        /\ assignment' \in [org : Organizations, user : Users \cup {None}] \cup {None}
    BY <1>1, AutoAssignType DEF File
  <2>2. calculation' \in CalculationRow
    BY <1>1, CalculationType DEF File, TypeOK
  <2>3. TypeOK'
    BY <1>1, <2>1, <2>2, ReviewAssumption
    DEF File, TypeOK, OpenBenefitVerification, CalculationRow, APPLICATION_STATUSES
  <2> QED
    BY <1>1, <2>1, <2>2, <2>3 DEF File
<1>2. ASSUME NEW c \in Contours, NEW k \in Claims, PatchDraft(c, k)
      PROVE  TypeOK' /\ Stage'
  BY <1>2 DEF PatchDraft, TypeOK
<1>3. CASE BeginSubmit
  <2>1. recalculating' \in [row : CalculationRow, during : BOOLEAN, superseded : BOOLEAN]
                             \cup {None}
    BY <1>3 DEF BeginSubmit, TypeOK, CalculationRow
  <2>2. TypeOK'
    BY <1>3, <2>1 DEF BeginSubmit, TypeOK, CalculationRow
  <2> QED
    BY <1>3, <2>2 DEF BeginSubmit
<1>4. CASE CommitSubmit
  <2>1. /\ assigned_org' \in Organizations /\ assigned_user' \in Users \cup {None}
        /\ assignment' \in [org : Organizations, user : Users \cup {None}] \cup {None}
    BY <1>4, AutoAssignType DEF CommitSubmit, TypeOK
  <2>2. calculation' \in CalculationRow
    BY <1>4, CalculationType DEF CommitSubmit, TypeOK
  <2>3. TypeOK'
    BY <1>4, <2>1, <2>2
    DEF CommitSubmit, SubmitOvertaken, TypeOK, OpenBenefitVerification, AfterSubmit,
        CalculationRow, APPLICATION_STATUSES
  <2> QED
    BY <1>4, <2>1, <2>2, <2>3 DEF CommitSubmit, AfterSubmit, TypeOK
<1>5. CASE AbortSubmit
  BY <1>5 DEF AbortSubmit, AfterSubmit, TypeOK
<1>29. CASE RefuseSubmit
  BY <1>29 DEF RefuseSubmit, AfterSubmit, OpenBenefitVerification, TypeOK
<1>6. CASE RespondInfo
  BY <1>6 DEF RespondInfo, Move, RowFree, TypeOK, APPLICATION_STATUSES
<1>7. CASE Cancel
  BY <1>7 DEF Cancel, Move, RowFree, TypeOK, APPLICATION_STATUSES,
              CANCELLABLE_BY_APPLICANT_STATUSES
<1>8. ASSUME NEW org \in Organizations, NEW u \in Users \cup {None}, Assigned(org, u)
      PROVE  /\ assigned_org' \in Organizations /\ assigned_user' \in Users \cup {None}
             /\ assignment' \in [org : Organizations, user : Users \cup {None}]
  BY <1>8, AssignType DEF Assigned
<1>9. EffectiveOrganization \in Organizations
  BY DEF EffectiveOrganization, TypeOK
<1>10. ASSUME NEW u \in Reviewers, StartReview(u)
       PROVE  TypeOK' /\ Stage'
  <2>1. u \in Users
    BY DEF Users
  <2>2. status \in {"SUBMITTED", "PENDING_INFO"} /\ status' = "IN_REVIEW"
    BY <1>10, MovesFrom DEF StartReview, Move
  <2> QED
    BY <1>8, <1>9, <1>10, <2>1, <2>2
    DEF StartReview, Move, RowFree, TypeOK, APPLICATION_STATUSES
<1>11. ASSUME NEW u \in Users, Assign(u)
       PROVE  TypeOK' /\ Stage'
  BY <1>8, <1>9, <1>11 DEF Assign, RowFree, TypeOK
<1>12. ASSUME NEW u \in Users, Return(u)
       PROVE  TypeOK' /\ Stage'
  <2>1. status \in {"SUBMITTED", "IN_REVIEW"} /\ status' = "RETURNED"
    BY <1>12, MovesFrom DEF Return, Move
  <2> QED
    BY <1>12, <2>1 DEF Return, Move, RowFree, TypeOK, APPLICATION_STATUSES
<1>13. ASSUME NEW u \in Reviewers, RequestInfo(u)
       PROVE  TypeOK' /\ Stage'
  <2>1. status = "IN_REVIEW" /\ status' = "PENDING_INFO"
    BY <1>13, MovesFrom DEF RequestInfo, Move
  <2> QED
    BY <1>13, <2>1 DEF RequestInfo, Move, RowFree, TypeOK, APPLICATION_STATUSES
<1>14. ASSUME NEW u \in Reviewers, NEW verdict \in {"verified", "rejected"},
              DecideClaim(u, verdict)
       PROVE  TypeOK' /\ Stage'
  BY <1>14 DEF DecideClaim, TypeOK
<1>15. ASSUME NEW u \in Users, BeginRecalculate(u)
       PROVE  TypeOK' /\ Stage'
  <2>1. PICK after \in BOOLEAN :
          recalculating' = [row |-> Calculation(contour, after),
                            during |-> resubmitting # None, superseded |-> FALSE]
    BY <1>15 DEF BeginRecalculate
  <2>2. Calculation(contour, after) \in CalculationRow
    BY CalculationType DEF TypeOK
  <2> QED
    BY <1>15, <2>1, <2>2 DEF BeginRecalculate, TypeOK, CalculationRow, UNDECIDED_STATUSES
<1>16. CASE CommitRecalculate
  <2>1. calculation' = calculation \/ calculation' \in CalculationRow
    BY <1>16 DEF CommitRecalculate, TypeOK, CalculationRow
  <2>2. overtaken' \subseteq {"limit", "price", "plot"}
    BY <1>16 DEF CommitRecalculate, TypeOK
  <2>3. resubmitting' \in BOOLEAN \cup {None} /\ (resubmitting' # None => resubmitting # None)
    BY <1>16 DEF CommitRecalculate, TypeOK
  <2>4. TypeOK'
    BY <1>16, <2>1, <2>2, <2>3 DEF CommitRecalculate, TypeOK, CalculationRow
  <2>5. Stage'
    BY <1>16, <2>1, <2>3 DEF CommitRecalculate
  <2> QED
    BY <2>4, <2>5
<1>17. CASE AbortRecalculate
  BY <1>17 DEF AbortRecalculate, TypeOK
<1>18. ASSUME NEW u \in Deciders, Forward(u)
       PROVE  TypeOK' /\ Stage'
  <2>1. ParentOrg[EffectiveOrganization] \in Organizations
    BY <1>9, <1>18 DEF Forward
  <2>2. Assigned(ParentOrg[EffectiveOrganization], None)
    BY <1>18 DEF Forward, Assigned
  <2>3. /\ assigned_org' \in Organizations /\ assigned_user' \in Users \cup {None}
        /\ assignment' \in [org : Organizations, user : Users \cup {None}]
    BY <1>8, <2>1, <2>2
  <2>4. status = "IN_REVIEW" /\ approving = None
    BY <1>18, MovesFrom DEF Forward, Approvable, Decidable, RowFree
  <2>5. UNCHANGED <<status, filingVars, slaVars, requestVars, moneyVars, benefitVars, tariff>>
    BY <1>18 DEF Forward
  <2>6. TypeOK'
    BY <2>3, <2>5 DEF TypeOK
  <2> QED
    BY <2>3, <2>4, <2>5, <2>6
<1>19. ASSUME NEW u \in Deciders, BeginApprove(u)
       PROVE  TypeOK' /\ Stage'
  <2>1. status = "IN_REVIEW"
    BY <1>19, MovesFrom DEF BeginApprove, Approvable, Decidable
  <2> QED
    BY <1>19, <2>1 DEF BeginApprove, TypeOK
<1>20. CASE CommitApprove
  <2>1. calculation.amount \in Nat /\ status = "IN_REVIEW"
    BY <1>20 DEF CommitApprove, CalculationRow
  <2> QED
    BY <1>20, <2>1 DEF CommitApprove, TypeOK, APPLICATION_STATUSES
<1>21. CASE AbortApprove
  <2>1. calculation' \in CalculationRow
    BY <1>21 DEF AbortApprove, CalculationRow
  <2>2. /\ recalculating = None => recalculating' = None
        /\ recalculating' \in [row : CalculationRow, during : BOOLEAN, superseded : BOOLEAN]
                                \cup {None}
    BY <1>21 DEF AbortApprove, TypeOK, CalculationRow
  <2> QED
    BY <1>21, <2>1, <2>2 DEF AbortApprove, TypeOK, CalculationRow
<1>22. ASSUME NEW u \in Deciders, Reject(u)
       PROVE  TypeOK' /\ Stage'
  <2>1. status \in {"SUBMITTED", "IN_REVIEW"} /\ status' = "REJECTED"
    BY <1>22, MovesFrom DEF Reject, Move
  <2> QED
    BY <1>22, <2>1 DEF Reject, Move, RowFree, TypeOK, APPLICATION_STATUSES
<1>23. ASSUME NEW to \in {"PAID", "EXPIRED_UNPAID"}, SettleInvoice(to)
       PROVE  TypeOK' /\ Stage'
  BY <1>23 DEF SettleInvoice, Move, RowFree, TypeOK, APPLICATION_STATUSES
<1>24. CASE IssuePermit
  <2>1. calculation.amount \in Nat
    BY <1>24 DEF IssuePermit, CalculationRow
  <2> QED
    BY <1>24, <2>1 DEF IssuePermit, TypeOK
<1>25. ASSUME NEW t \in Tariffs, PublishTariff(t)
       PROVE  TypeOK' /\ Stage'
  BY <1>25 DEF PublishTariff, TypeOK
<1>26. CASE PassDeadline
  BY <1>26 DEF PassDeadline, TypeOK
<1>27. CASE SlaSweep
  BY <1>27 DEF SlaSweep, TypeOK
<1>28. CASE UNCHANGED vars
  BY <1>28 DEF vars, TypeOK
<1> QED
  BY <1>1, <1>2, <1>3, <1>4, <1>5, <1>6, <1>7, <1>10, <1>11, <1>12, <1>13, <1>14, <1>15,
     <1>16, <1>17, <1>18, <1>19, <1>20, <1>21, <1>22, <1>23, <1>24, <1>25, <1>26, <1>27, <1>28,
     <1>29
  DEF Next, Owner, Office, Decision

\* Stage holds in every reachable state; the theorems below read it.
LEMMA StageHolds == Spec => [](TypeOK /\ Stage)
<1>1. Init => TypeOK
  BY ReviewAssumption DEF Init, TypeOK
<1>2. Init => Stage
  BY DEF Init, Stage
<1> QED
  BY <1>1, <1>2, StageStep, PTL DEF Spec

\* The variables keep their types, and an approval, a resubmission and an answer meet an
\* application only where the code expects it.
THEOREM TypeCorrect == Spec => []TypeOK
  BY StageHolds, PTL

-----------------------------------------------------------------------------
(* Assignment.                                                              *)

\* The active row of application_assignments follows the application's two columns through
\* every claim, escalation and corrected contour: a row is reused only where its
\* organization is the application's own, since who escalates has claimed it first.
THEOREM AssignmentsAgree == Spec => []AssignmentIsOne
<1>1. Init => AssignmentIsOne
  BY DEF Init, AssignmentIsOne
<1>2. ASSUME TypeOK, Stage, AssignmentIsOne, [Next]_vars
      PROVE  AssignmentIsOne'
  <2> USE <1>2 DEF AssignmentIsOne, filingVars, assignVars
  <2>1. ASSUME NEW c \in Contours, NEW k \in Claims, File(c, k)
        PROVE  AssignmentIsOne'
    BY <2>1 DEF File, AutoAssign, Stage
  <2>2. CASE CommitSubmit
    BY <2>2 DEF CommitSubmit, AutoAssign
  <2>3. ASSUME NEW u \in Users, status # "none", Assigned(EffectiveOrganization, u)
        PROVE  AssignmentIsOne'
    <3>1. EffectiveOrganization = assigned_org
      BY <2>3, ReviewAssumption DEF EffectiveOrganization, Stage
    <3>2. assignment = [org |-> assigned_org, user |-> assigned_user]
      BY <2>3
    <3> QED
      BY <2>3, <3>1, <3>2 DEF Assigned, ClaimAssignment
  <2>4. ASSUME NEW u \in Reviewers, StartReview(u)
        PROVE  AssignmentIsOne'
    BY <2>3, <2>4, MovesFrom DEF StartReview, Move, Users
  <2>5. ASSUME NEW u \in Users, Assign(u)
        PROVE  AssignmentIsOne'
    BY <2>3, <2>5 DEF Assign
  <2>6. ASSUME NEW u \in Deciders, Forward(u)
        PROVE  AssignmentIsOne'
    <3>1. status = "IN_REVIEW" /\ status' = status /\ assigned_user # None
      BY <2>6, MovesFrom DEF Forward, Approvable, Decidable
    <3>2. assignment.user # None
      BY <3>1
    <3> QED
      BY <2>6, <3>1, <3>2 DEF Forward, ClaimAssignment
  <2>7. CASE status # "none" /\ UNCHANGED assignVars
    BY <2>7
  <2>8. CASE UNCHANGED <<status, assignVars>>
    BY <2>8
  <2> QED
    <3>1. CASE \/ \E c \in Contours, k \in Claims : PatchDraft(c, k)
               \/ BeginSubmit \/ RefuseSubmit \/ AbortSubmit
               \/ CommitRecalculate \/ AbortRecalculate
               \/ \E u \in Users : BeginRecalculate(u)
               \/ \E u \in Reviewers : DecideClaim(u, "verified") \/ DecideClaim(u, "rejected")
               \/ \E u \in Deciders : BeginApprove(u)
               \/ AbortApprove \/ IssuePermit \/ PassDeadline \/ SlaSweep
               \/ \E t \in Tariffs : PublishTariff(t)
               \/ UNCHANGED vars
      BY <2>8, <3>1
      DEF PatchDraft, BeginSubmit, RefuseSubmit, AbortSubmit, CommitRecalculate,
          AbortRecalculate, BeginRecalculate, DecideClaim, BeginApprove, AbortApprove, IssuePermit, PassDeadline,
          SlaSweep, PublishTariff, vars
    <3>2. CASE \/ RespondInfo \/ Cancel \/ CommitApprove
               \/ \E u \in Reviewers : RequestInfo(u)
               \/ \E u \in Users : Return(u)
               \/ \E u \in Deciders : Reject(u)
               \/ \E to \in {"PAID", "EXPIRED_UNPAID"} : SettleInvoice(to)
      BY <2>7, <3>2, MovesFrom
      DEF RespondInfo, Cancel, CommitApprove, RequestInfo, Return, Reject, SettleInvoice, Move,
          CANCELLABLE_BY_APPLICANT_STATUSES, Stage
    <3> QED
      BY <2>1, <2>2, <2>4, <2>5, <2>6, <3>1, <3>2 DEF Next, Owner, Office, Decision
<1> QED
  BY <1>1, <1>2, StageHolds, PTL DEF Spec

-----------------------------------------------------------------------------
(* The pause.                                                               *)

\* A deadline that has passed outside an answer's days passed in the office's or in a
\* correction's, and so did the one a question set aside; and the sweep has seen none that
\* an answer can still put back.
PauseExplained ==
  /\ PausePaired
  /\ deadline = "passed" /\ status # "PENDING_INFO" =>
       late_in \in {"office", "correction"} \/ taken_back
  /\ info = "passed" =>
       deadline = "passed" /\ (late_in \in {"office", "correction"} \/ taken_back)
  /\ breach => (deadline = "passed" /\ info # "ahead") \/ taken_back

\* An owner who is asked has the question before him, and the days of his answer are never
\* counted against the office: a deadline that passes in them is moved before the sweep can
\* look, unless a reviewer took the application back. Days of a correction are counted.
THEOREM PausesArePaired == Spec => []PausePaired
<1>1. Init => PauseExplained
  BY ReviewAssumption DEF Init, PauseExplained, PausePaired
<1>2. ASSUME TypeOK, Stage, PauseExplained, [Next]_vars
      PROVE  PauseExplained'
  <2> USE <1>2 DEF PauseExplained, PausePaired, slaVars
  <2>1. CASE RespondInfo
    <3>1. /\ info' = None /\ info' # "ahead" /\ deadline' = info /\ status' = "IN_REVIEW"
          /\ breach' = breach /\ taken_back' = taken_back
          /\ late_in' = IF info = "ahead" THEN None ELSE late_in
      BY <2>1, ReviewAssumption DEF RespondInfo, Move
    <3>2. info = "ahead" \/ info = "passed"
      BY <2>1 DEF RespondInfo, TypeOK
    <3>3. CASE info = "ahead"
      <4>1. breach => taken_back
        BY <3>3
      <4> QED
        BY <3>1, <3>3, <4>1, ReviewAssumption
    <3>4. CASE info = "passed"
      BY <3>1, <3>4, ReviewAssumption
    <3> QED
      BY <3>2, <3>3, <3>4
  <2>2. ASSUME NEW u \in Reviewers, StartReview(u)
        PROVE  PauseExplained'
    <3>1. /\ status' = "IN_REVIEW" /\ UNCHANGED <<info, deadline, breach, late_in>>
          /\ taken_back' = (taken_back \/ status = "PENDING_INFO")
      BY <2>2 DEF StartReview, Move
    <3>2. taken_back \/ status = "PENDING_INFO" => taken_back'
      BY <3>1
    <3> QED
      BY <3>1, <3>2
  <2>3. ASSUME NEW u \in Reviewers, RequestInfo(u)
        PROVE  PauseExplained'
    <3>1. status = "IN_REVIEW" /\ deadline # None
      BY <2>3, MovesFrom, ReviewAssumption DEF RequestInfo, Move, TypeOK
    <3> QED
      BY <2>3, <3>1 DEF RequestInfo, Move
  <2>4. CASE PassDeadline
    BY <2>4 DEF PassDeadline
  <2>5. CASE SlaSweep
    <3>1. /\ status \in {"SUBMITTED", "IN_REVIEW"} /\ deadline = "passed"
          /\ UNCHANGED <<status, info, deadline, late_in, taken_back>>
      BY <2>5 DEF SlaSweep, SLA_ACTIVE_STATUSES
    <3>2. info = None \/ taken_back
      BY <3>1
    <3> QED
      BY <3>1, <3>2, ReviewAssumption
  <2>6. CASE UNCHANGED slaVars /\ status # "PENDING_INFO" /\ status' # "PENDING_INFO"
    BY <2>6
  <2>7. CASE UNCHANGED <<status, slaVars>>
    BY <2>7
  <2> QED
    <3>1. CASE \/ \E c \in Contours, k \in Claims : File(c, k)
               \/ Cancel \/ CommitSubmit \/ CommitApprove
               \/ \E u \in Users : Return(u)
               \/ \E u \in Deciders : Reject(u)
               \/ \E to \in {"PAID", "EXPIRED_UNPAID"} : SettleInvoice(to)
      BY <2>6, <3>1, MovesFrom
      DEF File, Cancel, CommitSubmit, CommitApprove, Return, Reject, SettleInvoice, Move,
          CANCELLABLE_BY_APPLICANT_STATUSES, Stage
    <3>2. CASE \/ \E c \in Contours, k \in Claims : PatchDraft(c, k)
               \/ BeginSubmit \/ RefuseSubmit \/ AbortSubmit
               \/ CommitRecalculate \/ AbortRecalculate
               \/ \E u \in Users : BeginRecalculate(u) \/ Assign(u)
               \/ \E u \in Reviewers : DecideClaim(u, "verified") \/ DecideClaim(u, "rejected")
               \/ \E u \in Deciders : BeginApprove(u) \/ Forward(u)
               \/ AbortApprove \/ IssuePermit
               \/ \E t \in Tariffs : PublishTariff(t)
               \/ UNCHANGED vars
      BY <2>7, <3>2
      DEF PatchDraft, BeginSubmit, RefuseSubmit, AbortSubmit, CommitRecalculate,
          AbortRecalculate, BeginRecalculate, Assign, DecideClaim, BeginApprove, Forward, AbortApprove,
          IssuePermit, PublishTariff, vars
    <3> QED
      BY <2>1, <2>2, <2>3, <2>4, <2>5, <3>1, <3>2 DEF Next, Owner, Office, Decision
<1>3. PauseExplained => PausePaired
  BY DEF PauseExplained
<1> QED
  BY <1>1, <1>2, <1>3, StageHolds, PTL DEF Spec

-----------------------------------------------------------------------------
(* The benefit.                                                             *)

\* Only a returned application's claim may differ from the one that was verified; an
\* approval, and what it leaves, has no claim that is open or rejected.
ClaimFollowed ==
  /\ status \notin {"none", "RETURNED"} =>
       /\ claim # None => benefit # "not_required"
       /\ benefit = "verified" => verified = claim
  /\ approving # None \/ invoice # None => benefit \notin {"pending", "rejected"}

\* Nobody is billed at a benefit's price who was not found to have it: a corrected claim is
\* verified again before it is decided.
THEOREM BenefitsAreVerified == Spec => []ClaimVerifiedAsFiled
<1>1. Init => ClaimFollowed
  BY DEF Init, ClaimFollowed
<1>2. ASSUME TypeOK, Stage, ClaimFollowed, [Next]_vars
      PROVE  ClaimFollowed'
  <2> USE <1>2 DEF ClaimFollowed, filingVars, benefitVars, requestVars, moneyVars
  <2>1. ASSUME NEW c \in Contours, NEW k \in Claims, File(c, k)
        PROVE  ClaimFollowed'
    BY <2>1, ReviewAssumption DEF File, OpenBenefitVerification, Stage
  <2>2. ASSUME NEW c \in Contours, NEW k \in Claims, PatchDraft(c, k)
        PROVE  ClaimFollowed'
    BY <2>2 DEF PatchDraft
  <2>3. CASE CommitSubmit
    BY <2>3, ReviewAssumption DEF CommitSubmit, OpenBenefitVerification, Stage
  <2>9. CASE RefuseSubmit
    <3>1. approving = None /\ invoice = None
      BY <2>9 DEF RefuseSubmit, Stage
    <3> QED
      BY <2>9, <3>1 DEF RefuseSubmit
  <2>4. ASSUME NEW u \in Reviewers, DecideClaim(u, "verified") \/ DecideClaim(u, "rejected")
        PROVE  ClaimFollowed'
    <3>1. approving = None /\ invoice = None
      BY <2>4 DEF DecideClaim, RowFree, Stage
    <3> QED
      BY <2>4, <3>1 DEF DecideClaim
  <2>5. ASSUME NEW u \in Deciders, BeginApprove(u)
        PROVE  ClaimFollowed'
    BY <2>5 DEF BeginApprove, Approvable
  <2>6. CASE CommitApprove
    BY <2>6 DEF CommitApprove, Stage
  <2>7. CASE AbortApprove
    BY <2>7 DEF AbortApprove
  <2>8. CASE /\ status \notin {"none", "RETURNED"} \/ status' \in {"none", "RETURNED"}
             /\ UNCHANGED <<claim, benefit, verified, approving, invoice>>
    BY <2>8
  <2> QED
    <3>1. CASE \/ BeginSubmit \/ AbortSubmit \/ CommitRecalculate \/ AbortRecalculate
               \/ \E u \in Users : BeginRecalculate(u) \/ Assign(u)
               \/ \E u \in Deciders : Forward(u)
               \/ IssuePermit \/ PassDeadline \/ SlaSweep
               \/ \E t \in Tariffs : PublishTariff(t)
               \/ UNCHANGED vars
      BY <2>8, <3>1
      DEF BeginSubmit, AbortSubmit, AfterSubmit, CommitRecalculate, AbortRecalculate,
          BeginRecalculate, Assign, Forward, IssuePermit, PassDeadline, SlaSweep,
          PublishTariff, vars
    <3>2. CASE \/ RespondInfo \/ Cancel
               \/ \E u \in Reviewers : StartReview(u) \/ RequestInfo(u)
               \/ \E u \in Users : Return(u)
               \/ \E u \in Deciders : Reject(u)
               \/ \E to \in {"PAID", "EXPIRED_UNPAID"} : SettleInvoice(to)
      BY <2>8, <3>2, MovesFrom
      DEF RespondInfo, Cancel, StartReview, RequestInfo, Return, Reject, SettleInvoice, Move,
          CANCELLABLE_BY_APPLICANT_STATUSES
    <3> QED
      BY <2>1, <2>2, <2>3, <2>4, <2>5, <2>6, <2>7, <2>9, <3>1, <3>2
      DEF Next, Owner, Office, Decision
<1>3. TypeOK /\ Stage /\ ClaimFollowed => ClaimVerifiedAsFiled
  BY DEF TypeOK, Stage, ClaimFollowed, ClaimVerifiedAsFiled
<1> QED
  BY <1>1, <1>2, <1>3, StageHolds, PTL DEF Spec

-----------------------------------------------------------------------------
(* The price.                                                               *)

\* What an approval read lies within its limits, the newest calculation is of the plot
\* applied for and so is the frozen area; a recalculation that began before the last
\* resubmission is behind its row. What overtook another request is on record.
PriceFollowed ==
  /\ approving # None =>
       /\ ~ AboveAmount(approving, calculation) \/ "limit" \in overtaken
       /\ MaxArea[approving] = None \/ area <= MaxArea[approving]
  /\ invoice # None =>
       /\ Limit[decided_by] = None \/ invoice <= Limit[decided_by] \/ "limit" \in overtaken
       /\ MaxArea[decided_by] = None \/ area <= MaxArea[decided_by]
       /\ calculation.amount = invoice \/ calculation.after \/ "price" \in overtaken
  /\ printed # None => printed = invoice \/ "price" \in overtaken
  /\ status \notin {"none", "RETURNED"} =>
       /\ calculation.contour = contour \/ "plot" \in overtaken
       /\ area = AreaOf[contour]
       /\ recalculating # None /\ ~ recalculating.superseded /\ ~ recalculating.during =>
            recalculating.row.contour = contour
  /\ recalculating # None /\ recalculating.during => ~ recalculating.superseded

\* A recalculation, a resubmission and a decision keep what is known of the newest price.
LEMMA PriceStep ==
  ASSUME TypeOK, Stage, PriceFollowed, [Next]_vars
  PROVE  PriceFollowed'
<1> USE DEF PriceFollowed, filingVars, requestVars, moneyVars
<1>0. None # FALSE
  BY ReviewAssumption
<1>1. ASSUME NEW c \in Contours, NEW k \in Claims, File(c, k)
      PROVE  PriceFollowed'
  BY <1>1 DEF File, Calculation, Stage
<1>2. ASSUME NEW c \in Contours, NEW k \in Claims, PatchDraft(c, k)
      PROVE  PriceFollowed'
  BY <1>2 DEF PatchDraft, Stage
<1>3. CASE BeginSubmit
  <2>1. /\ recalculating' # None => recalculating # None
        /\ recalculating' # None => ~ recalculating'.during
    BY <1>3 DEF BeginSubmit, TypeOK
  <2> QED
    BY <1>0, <1>3, <2>1 DEF BeginSubmit, Stage
<1>4. CASE CommitSubmit
  <2>1. approving = None /\ invoice = None /\ printed = None
    BY <1>4 DEF CommitSubmit, Stage
  <2>2. calculation'.contour = contour \/ "plot" \in overtaken'
    BY <1>4 DEF CommitSubmit, SubmitOvertaken, Calculation, TypeOK
  <2>3. recalculating' # None =>
          /\ recalculating'.superseded \/ recalculating'.during
          /\ recalculating'.during => ~ recalculating'.superseded
    BY <1>4 DEF CommitSubmit, AfterSubmit, TypeOK
  <2> QED
    BY <1>0, <1>4, <2>1, <2>2, <2>3 DEF CommitSubmit, AfterSubmit
<1>5. CASE AbortSubmit
  <2>1. recalculating' = recalculating
    BY <1>5 DEF AbortSubmit, AfterSubmit, TypeOK
  <2> QED
    BY <1>0, <1>5, <2>1 DEF AbortSubmit, AfterSubmit
<1>14. CASE RefuseSubmit
  <2>1. recalculating' = recalculating /\ approving = None /\ invoice = None
    BY <1>14 DEF RefuseSubmit, AfterSubmit, TypeOK, Stage
  <2> QED
    BY <1>14, <2>1 DEF RefuseSubmit
<1>6. ASSUME NEW u \in Users, BeginRecalculate(u)
      PROVE  PriceFollowed'
  BY <1>6 DEF BeginRecalculate, Calculation
<1>7. CASE CommitRecalculate
  <2>1. CASE recalculating.superseded
    BY <1>7, <2>1 DEF CommitRecalculate
  <2>2. CASE ~ recalculating.superseded
    <3>1. /\ recalculating # None /\ recalculating' = None
          /\ calculation' = recalculating.row
          /\ overtaken \subseteq overtaken'
          /\ approving # None /\ AboveAmount(approving, recalculating.row) =>
               "limit" \in overtaken'
          /\ invoice \notin {None, recalculating.row.amount} /\ ~ recalculating.row.after =>
               "price" \in overtaken'
          /\ recalculating.during /\ recalculating.row.contour # contour =>
               "plot" \in overtaken'
          /\ UNCHANGED <<status, contour, area, approving, invoice, printed, decided_by>>
      BY <1>7, <2>2 DEF CommitRecalculate
    <3>2. invoice' # None =>
            /\ \/ Limit[decided_by'] = None \/ invoice' <= Limit[decided_by']
               \/ "limit" \in overtaken'
            /\ MaxArea[decided_by'] = None \/ area' <= MaxArea[decided_by']
            /\ calculation'.amount = invoice' \/ calculation'.after \/ "price" \in overtaken'
      BY <3>1
    <3>3. status' \notin {"none", "RETURNED"} =>
            /\ calculation'.contour = contour' \/ "plot" \in overtaken'
            /\ area' = AreaOf[contour']
      BY <2>2, <3>1
    <3>4. printed' # None => printed' = invoice' \/ "price" \in overtaken'
      BY <3>1
    <3>5. approving' # None =>
            /\ ~ AboveAmount(approving', calculation') \/ "limit" \in overtaken'
            /\ MaxArea[approving'] = None \/ area' <= MaxArea[approving']
      BY <3>1
    <3> QED
      BY <3>1, <3>2, <3>3, <3>4, <3>5
  <2> QED
    BY <2>1, <2>2
<1>8. CASE AbortRecalculate
  BY <1>8 DEF AbortRecalculate
<1>9. ASSUME NEW u \in Deciders, BeginApprove(u)
      PROVE  PriceFollowed'
  <2>1. MaxArea[u] \in Nat \cup {None} /\ (MaxArea[u] # None => area \in Nat)
    BY <1>9, ReviewAssumption DEF BeginApprove, LimitsKnown, TypeOK
  <2>2. /\ ~ AboveAmount(u, calculation)
        /\ MaxArea[u] = None \/ area <= MaxArea[u]
    BY <1>9, <2>1 DEF BeginApprove, OverLimit
  <2> QED
    BY <1>9, <2>2 DEF BeginApprove
<1>10. CASE CommitApprove
  <2>1. /\ calculation.amount \in Nat /\ Limit[approving] \in Nat \cup {None}
        /\ approving # None /\ status = "IN_REVIEW" /\ printed = None
    BY <1>10, ReviewAssumption DEF CommitApprove, Stage, CalculationRow, TypeOK
  <2>2. \/ Limit[approving] = None \/ calculation.amount <= Limit[approving]
        \/ "limit" \in overtaken
    BY <2>1 DEF AboveAmount
  <2> QED
    BY <1>10, <2>1, <2>2 DEF CommitApprove
<1>11. CASE AbortApprove
  <2>1. invoice = None /\ printed = None /\ calculation \in CalculationRow
    BY <1>11 DEF AbortApprove, Stage
  <2>2. /\ calculation'.amount = calculation.amount
        /\ calculation'.contour = calculation.contour
    BY <1>11, <2>1 DEF AbortApprove, CalculationRow
  <2>3. recalculating' # None =>
          /\ recalculating # None /\ recalculating'.row.contour = recalculating.row.contour
          /\ recalculating'.during = recalculating.during
          /\ recalculating'.superseded = recalculating.superseded
    BY <1>11 DEF AbortApprove, TypeOK
  <2> QED
    BY <1>11, <2>1, <2>2, <2>3 DEF AbortApprove
<1>12. CASE IssuePermit
  BY <1>12 DEF IssuePermit, Stage
<1>13. CASE /\ status \notin {"none", "RETURNED"} \/ status' \in {"none", "RETURNED"}
            /\ UNCHANGED <<contour, area, calculation, invoice, printed, decided_by, overtaken,
                           recalculating, resubmitting, approving>>
  BY <1>13
<1> QED
  <2>1. CASE \/ \E u \in Users : Assign(u)
             \/ \E u \in Reviewers : DecideClaim(u, "verified") \/ DecideClaim(u, "rejected")
             \/ \E u \in Deciders : Forward(u)
             \/ PassDeadline \/ SlaSweep
             \/ \E t \in Tariffs : PublishTariff(t)
             \/ UNCHANGED vars
    BY <1>13, <2>1
    DEF Assign, DecideClaim, Forward, PassDeadline, SlaSweep, PublishTariff, vars
  <2>2. CASE \/ RespondInfo \/ Cancel
             \/ \E u \in Reviewers : StartReview(u) \/ RequestInfo(u)
             \/ \E u \in Users : Return(u)
             \/ \E u \in Deciders : Reject(u)
             \/ \E to \in {"PAID", "EXPIRED_UNPAID"} : SettleInvoice(to)
    BY <1>13, <2>2, MovesFrom
    DEF RespondInfo, Cancel, StartReview, RequestInfo, Return, Reject, SettleInvoice, Move,
        CANCELLABLE_BY_APPLICANT_STATUSES
  <2> QED
    BY <1>1, <1>2, <1>3, <1>4, <1>5, <1>6, <1>7, <1>8, <1>9, <1>10, <1>11, <1>12, <1>14,
       <2>1, <2>2
    DEF Next, Owner, Office, Decision

\* So the newest calculation is explained in every reachable state.
LEMMA PriceHolds == Spec => []PriceFollowed
<1>1. Init => PriceFollowed
  BY ReviewAssumption DEF Init, PriceFollowed
<1> QED
  BY <1>1, PriceStep, StageHolds, PTL DEF Spec

\* Nobody decides beyond his limits of money and of land, and nothing is billed for another plot, but for a
\* recalculation that comes between the limits and the invoice or overlaps a resubmission.
THEOREM PricesAreDecided == Spec => []PriceIsDecided
<1>1. PriceFollowed => PriceIsDecided
  BY DEF PriceFollowed, PriceIsDecided
<1> QED
  BY <1>1, PriceHolds, PTL

\* The permit prints what was billed, but for the one race on record.
THEOREM PrintedAsInvoiced == Spec => []PermitPricedAsInvoiced
<1>1. PriceFollowed => PermitPricedAsInvoiced
  BY DEF PriceFollowed, PermitPricedAsInvoiced
<1> QED
  BY <1>1, PriceHolds, PTL
=============================================================================
