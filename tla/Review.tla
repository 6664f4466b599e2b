------------------------------- MODULE Review -------------------------------
(***************************************************************************)
(* One application from its filing to the permit's price: filing and       *)
(* correction by its owner, assignment, requests for information, the      *)
(* benefit claim, recalculation, escalation and the decision, and the SLA  *)
(* sweep that watches all of it.                                           *)
(*                                                                         *)
(* Every step takes the application's row lock (get_application_for_update)*)
(* and is one action, but for three requests that meet others half-way: a  *)
(* recalculation takes no lock, an approval holds the row over a call to   *)
(* the signature provider, and a resubmission may wait for the row after   *)
(* its transaction has begun.                                              *)
(***************************************************************************)
EXTENDS Integers, ApplicationStatus

CONSTANTS
  Reviewers,     \* users with applications.review
  Deciders,      \* users with applications.decide
  Organizations,
  ParentOrg,     \* the organization above, or None
  Contours,
  OrgOf,         \* contour_organization
  AreaOf,        \* the area of a contour's published version (bound: it stays)
  Zone,          \* the organizations a user may act for
  Limit,         \* a role's max_approve_amount, or None
  MaxArea,       \* a role's max_approve_area, or None
  Tariffs,
  Price,         \* what a contour costs under a tariff
  Claims,        \* benefit claims an owner may make, None among them
  Registered,    \* the claims the beekeepers' register confirms by itself
  None

Users == Reviewers \cup Deciders

ASSUME ReviewAssumption ==
  /\ None \in Claims
  /\ None \notin Users \cup Organizations \cup Contours
  /\ ParentOrg \in [Organizations -> Organizations \cup {None}]
  /\ OrgOf \in [Contours -> Organizations]
  /\ Zone \in [Users -> SUBSET Organizations]
  /\ AreaOf \in [Contours -> Nat]
  /\ Limit \in [Deciders -> Nat \cup {None}]
  /\ MaxArea \in [Deciders -> Nat \cup {None}]
  /\ None \notin Nat \cup BOOLEAN \cup {"ahead", "passed", "office", "answer", "correction"}
  /\ Price \in [Contours \X Tariffs -> Nat]
  /\ Registered \subseteq Claims \ {None}

VARIABLES
  status,         \* applications.status, "none" before it is filed
  contour,
  area,           \* requested_area_ha, frozen when it is submitted
  claim,          \* the benefit claim
  benefit,        \* benefit_verification_status
  assigned_org,   \* applications.assigned_org_id, assigned_user_id
  assigned_user,
  assignment,     \* the active row of application_assignments
  info,           \* the open row of info_requests: the deadline when it was asked
  deadline,       \* sla_deadline_at: "ahead" or "passed"
  breach,         \* RI-07 is in the journal
  calculation,    \* the newest row of calculations
  tariff,         \* the tariff in force
  recalculating,  \* a recalculation at work
  resubmitting,   \* a submit at work: is the calculation it will save the newest
  approving,      \* who approves and the amount read
  invoice,        \* invoices.amount
  printed,        \* the amount on the permit
  verified,       \* the claim somebody verified (kept for the properties, like the rest)
  decided_by,     \* who approved
  late_in,        \* whose days the deadline passed in, once it has
  taken_back,     \* a request for information was still open when somebody started review
  overtaken       \* what a recalculation changed under another request

filingVars == <<contour, area, claim>>
assignVars == <<assigned_org, assigned_user, assignment>>
slaVars == <<info, deadline, breach, late_in, taken_back>>
requestVars == <<recalculating, resubmitting, approving>>
moneyVars == <<calculation, invoice, printed, overtaken, decided_by>>
benefitVars == <<benefit, verified>>
vars == <<status, filingVars, assignVars, slaVars, requestVars, moneyVars, benefitVars, tariff>>

\* The row lock is free: no approval holds it.
RowFree == approving = None

\* A row of calculations; "after" says that its created_at is past decided_at.
Calculation(c, after) ==
  [amount |-> Price[<<c, tariff>>], contour |-> c, after |-> after]

\* _over_limit: a row beyond what the role of whoever decides may approve.
AboveAmount(u, row) == Limit[u] # None /\ row.amount > Limit[u]

-----------------------------------------------------------------------------
(* Whose it is.                                                            *)

EffectiveOrganization == IF assigned_org # None THEN assigned_org ELSE OrgOf[contour]
InZone(u) == EffectiveOrganization \in Zone[u]

\* _claim_assignment: an active row that nobody or the same user holds keeps its
\* organization; any other is superseded.
ClaimAssignment(org, u) ==
  assignment' = IF assignment # None /\ assignment.user \in {None, u}
                  THEN [assignment EXCEPT !.user = u]
                  ELSE [org |-> org, user |-> u]

Assigned(org, u) ==
  /\ assigned_org' = org
  /\ assigned_user' = u
  /\ ClaimAssignment(org, u)

\* Who may be picked for an organization; choose_executor takes the least busy.
ReviewCandidates(org) == {u \in Reviewers : Zone[u] = {org}}
Executors(org) == IF ReviewCandidates(org) = {} THEN {None} ELSE ReviewCandidates(org)

\* _auto_assign_on_submission: a held application changes hands only if its contour is now
\* another organization's. The old row is deactivated first.
AutoAssign(c) ==
  IF assignment # None /\ OrgOf[c] = assigned_org
    THEN UNCHANGED assignVars
    ELSE \E u \in Executors(OrgOf[c]) :
           /\ assigned_org' = OrgOf[c]
           /\ assigned_user' = u
           /\ assignment' = [org |-> OrgOf[c], user |-> u]

-----------------------------------------------------------------------------
(* The owner.                                                              *)

\* _open_benefit_verification
OpenBenefitVerification(k) ==
  /\ benefit' = IF k = None THEN "not_required"
                ELSE IF k \in Registered THEN "verified" ELSE "pending"
  /\ verified' = IF k \in Registered THEN k ELSE None

Init ==
  /\ status = "none"
  /\ contour \in Contours
  /\ area = None
  /\ claim = None
  /\ benefit = "not_required"
  /\ assigned_org = None
  /\ assigned_user = None
  /\ assignment = None
  /\ info = None
  /\ deadline = "ahead"
  /\ breach = FALSE
  /\ calculation = None
  /\ tariff \in Tariffs
  /\ recalculating = None
  /\ resubmitting = None
  /\ approving = None
  /\ invoice = None
  /\ printed = None
  /\ verified = None
  /\ decided_by = None
  /\ late_in = None
  /\ taken_back = FALSE
  /\ overtaken = {}

\* file: priced, signed and assigned in the transaction that inserts the row. The signature
\* and the exclusion constraint may refuse it, and then nothing has happened.
File(c, k) ==
  /\ status = "none"
  /\ status' = "SUBMITTED"
  /\ contour' = c
  /\ area' = AreaOf[c]
  /\ claim' = k
  /\ OpenBenefitVerification(k)
  /\ calculation' = Calculation(c, FALSE)
  /\ AutoAssign(c)
  /\ UNCHANGED <<slaVars, requestVars, invoice, printed, overtaken, decided_by, tariff>>

\* patch_draft: a new contour clears the area frozen with the old one; neither the claim's
\* verdict nor the price follows until it is submitted.
PatchDraft(c, k) ==
  /\ status = "RETURNED"
  /\ <<c, k>> # <<contour, claim>>
  /\ contour' = c
  /\ area' = IF c = contour THEN area ELSE None
  /\ claim' = k
  /\ UNCHANGED <<status, assignVars, slaVars, requestVars, moneyVars, benefitVars, tariff>>

\* submit: its transaction begins. Rows of calculations are ordered by the START of their
\* transaction (created_at), so a recalculation that began earlier saves an older row.
BeginSubmit ==
  /\ status = "RETURNED"
  /\ resubmitting = None
  /\ resubmitting' = TRUE
  /\ recalculating' = IF recalculating = None THEN None
                      ELSE [recalculating EXCEPT !.during = FALSE]
  /\ UNCHANGED <<status, filingVars, assignVars, slaVars, approving, moneyVars, benefitVars,
                 tariff>>

\* What a finished submit leaves of the recalculation at work.
AfterSubmit(saved) ==
  /\ resubmitting' = None
  /\ recalculating' = IF recalculating = None THEN None
                      ELSE [recalculating EXCEPT
                              !.superseded = @ \/ (saved /\ ~ recalculating.during)]

\* The row it saves is the newest, and of the right plot; or a recalculation that began
\* meanwhile is, be it of the plot as it was before another correction.
SubmitOvertaken ==
  overtaken' = IF resubmitting THEN overtaken \ {"plot"}
               ELSE IF calculation.contour # contour THEN overtaken \cup {"plot"}
               ELSE overtaken

\* Mutated: the price of the first filing is kept.
CommitSubmitKeepsPrice ==
  /\ resubmitting # None
  /\ status = "RETURNED"
  /\ status' = "SUBMITTED"
  /\ area' = AreaOf[contour]
  /\ OpenBenefitVerification(claim)
  /\ AutoAssign(contour)
  /\ AfterSubmit(FALSE)
  /\ SubmitOvertaken
  /\ UNCHANGED <<contour, claim, slaVars, approving, calculation, invoice, printed, decided_by,
                 tariff>>

\* Mutated: a claim that was verified once is not asked about again.
CommitSubmitKeepsVerdict ==
  /\ resubmitting # None
  /\ status = "RETURNED"
  /\ status' = "SUBMITTED"
  /\ area' = AreaOf[contour]
  /\ IF benefit = "verified" THEN UNCHANGED benefitVars ELSE OpenBenefitVerification(claim)
  /\ calculation' = IF resubmitting THEN Calculation(contour, FALSE) ELSE calculation
  /\ AutoAssign(contour)
  /\ AfterSubmit(TRUE)
  /\ SubmitOvertaken
  /\ UNCHANGED <<contour, claim, slaVars, approving, invoice, printed, decided_by, tariff>>

\* ... and the rest of it under the row lock: the area is frozen and priced anew, the claim
\* is opened again, all of it is signed; number and deadline stay.
CommitSubmit ==
  /\ resubmitting # None
  /\ status = "RETURNED"
  /\ status' = "SUBMITTED"
  /\ area' = AreaOf[contour]
  /\ OpenBenefitVerification(claim)
  /\ calculation' = IF resubmitting THEN Calculation(contour, FALSE) ELSE calculation
  /\ AutoAssign(contour)
  /\ AfterSubmit(TRUE)
  /\ SubmitOvertaken
  /\ UNCHANGED <<contour, claim, slaVars, approving, invoice, printed, decided_by, tariff>>

\* A signature that is refused commits what is pending beside it (sign): the claim is opened
\* and the area frozen, while nothing is submitted.
RefuseSubmit ==
  /\ resubmitting # None
  /\ status = "RETURNED"
  /\ area' = AreaOf[contour]
  /\ OpenBenefitVerification(claim)
  /\ AfterSubmit(FALSE)
  /\ UNCHANGED <<status, contour, claim, assignVars, slaVars, approving, moneyVars, tariff>>

\* A check or the package refuses, or the connection is lost.
AbortSubmit ==
  /\ resubmitting # None
  /\ AfterSubmit(FALSE)
  /\ UNCHANGED <<status, filingVars, assignVars, slaVars, approving, moneyVars, benefitVars,
                 tariff>>

\* _apply_transition, for the verbs that change nothing but the status
Move(to) ==
  /\ RowFree
  /\ MayMove(status, to)
  /\ status' = to
  /\ UNCHANGED <<filingVars, requestVars, moneyVars, benefitVars, tariff>>

\* cancel
Cancel ==
  /\ status \in CANCELLABLE_BY_APPLICANT_STATUSES
  /\ Move("CANCELLED")
  /\ UNCHANGED <<assignVars, slaVars>>

\* Mutated: the clock is not set back by the pause.
RespondInfoUnshifted ==
  /\ status = "PENDING_INFO"
  /\ info' = None
  /\ Move("IN_REVIEW")
  /\ UNCHANGED <<assignVars, deadline, breach, late_in, taken_back>>

\* Mutated: the pause is read from the request after it was closed.
RespondInfoClosesFirst ==
  /\ status = "PENDING_INFO"
  /\ info' = None
  /\ deadline' = info'
  /\ Move("IN_REVIEW")
  /\ UNCHANGED <<assignVars, breach, late_in, taken_back>>

\* respond_info: the deadline moves by the length of the pause, so it is as far ahead as it
\* was when the question was asked.
RespondInfo ==
  /\ status = "PENDING_INFO"
  /\ info' = None
  /\ deadline' = info
  /\ late_in' = IF info = "ahead" THEN None ELSE late_in
  /\ Move("IN_REVIEW")
  /\ UNCHANGED <<assignVars, breach, taken_back>>

-----------------------------------------------------------------------------
(* The office.                                                             *)

\* start_review: whatever may move to IN_REVIEW may be taken, an application that waits for
\* its owner's answer too; its request stays open then.
StartReview(u) ==
  /\ InZone(u)
  /\ Move("IN_REVIEW")
  /\ Assigned(EffectiveOrganization, u)
  /\ taken_back' = (taken_back \/ status = "PENDING_INFO")
  /\ UNCHANGED <<info, deadline, breach, late_in>>

\* assign: an administrator's act, in any status.
Assign(u) ==
  /\ status # "none"
  /\ RowFree
  /\ u # assigned_user
  /\ Assigned(EffectiveOrganization, u)
  /\ UNCHANGED <<status, filingVars, slaVars, requestVars, moneyVars, benefitVars, tariff>>

\* return_to_applicant
Return(u) ==
  /\ InZone(u)
  /\ Move("RETURNED")
  /\ UNCHANGED <<assignVars, slaVars>>

\* request_info
RequestInfo(u) ==
  /\ InZone(u)
  /\ info = None
  /\ Move("PENDING_INFO")
  /\ info' = deadline
  /\ UNCHANGED <<assignVars, deadline, breach, late_in, taken_back>>

\* verify_claim, reject_claim
DecideClaim(u, verdict) ==
  /\ RowFree
  /\ InZone(u)
  /\ status = "IN_REVIEW"
  /\ benefit = "pending"
  /\ benefit' = verdict
  /\ verified' = IF verdict = "verified" THEN claim ELSE None
  /\ UNCHANGED <<status, filingVars, assignVars, slaVars, requestVars, moneyVars, tariff>>

\* recalculate, up to the row it inserts: no lock, and a status that may be old when it does.
\* One that begins while an approval is at work may be before or past its decided_at.
BeginRecalculate(u) ==
  /\ InZone(u)
  /\ status \in UNDECIDED_STATUSES
  /\ recalculating = None
  /\ \E after \in IF approving = None THEN {FALSE} ELSE BOOLEAN :
       recalculating' = [row |-> Calculation(contour, after),
                         during |-> resubmitting # None, superseded |-> FALSE]
  /\ UNCHANGED <<status, filingVars, assignVars, slaVars, resubmitting, approving, moneyVars,
                 benefitVars, tariff>>

\* ... and its commit.
CommitRecalculate ==
  /\ recalculating # None
  /\ recalculating' = None
  /\ calculation' = IF recalculating.superseded THEN calculation ELSE recalculating.row
  /\ resubmitting' = IF resubmitting # None /\ recalculating.during THEN FALSE ELSE resubmitting
  /\ overtaken' =
       IF recalculating.superseded THEN overtaken
       ELSE overtaken \cup
            {x \in {"limit", "price", "plot"} :
               \/ x = "limit" /\ approving # None /\ AboveAmount(approving, recalculating.row)
               \/ x = "price" /\ invoice \notin {None, recalculating.row.amount}
                              /\ ~ recalculating.row.after
               \/ x = "plot" /\ recalculating.during /\ recalculating.row.contour # contour}
  /\ UNCHANGED <<status, filingVars, assignVars, slaVars, approving, invoice, printed,
                 decided_by, benefitVars, tariff>>

AbortRecalculate ==
  /\ recalculating # None
  /\ recalculating' = None
  /\ UNCHANGED <<status, filingVars, assignVars, slaVars, resubmitting, approving, moneyVars,
                 benefitVars, tariff>>

-----------------------------------------------------------------------------
(* The decision.                                                           *)

\* _decidable, with _assert_benefit_decided
Decidable(u, to) ==
  /\ RowFree
  /\ InZone(u)
  /\ MayMove(status, to)

Approvable(u) == Decidable(u, "APPROVED") /\ benefit \notin {"pending", "rejected"}

\* _limits: there is a saved price, and an area where the role has a ceiling for it.
LimitsKnown(u) == calculation # None /\ (MaxArea[u] # None => area # None)

\* _over_limit: the other ceiling of the role, as optional.
OverLimit(u) == AboveAmount(u, calculation) \/ (MaxArea[u] # None /\ area > MaxArea[u])

\* Mutated: an application nobody has taken into work is escalated too.
ForwardUnclaimed(u) ==
  LET parent == ParentOrg[EffectiveOrganization]
  IN /\ Approvable(u)
     /\ LimitsKnown(u)
     /\ OverLimit(u)
     /\ parent # None
     /\ assigned_org' = parent
     /\ assigned_user' = None
     /\ ClaimAssignment(parent, None)
     /\ UNCHANGED <<status, filingVars, slaVars, requestVars, moneyVars, benefitVars, tariff>>

\* _forward: to the organization above, where nobody has it yet; the status stays.
Forward(u) ==
  LET parent == ParentOrg[EffectiveOrganization]
  IN /\ Approvable(u)
     /\ LimitsKnown(u)
     /\ OverLimit(u)
     /\ assigned_user # None
     /\ parent # None
     /\ assigned_org' = parent
     /\ assigned_user' = None
     /\ ClaimAssignment(parent, None)
     /\ UNCHANGED <<status, filingVars, slaVars, requestVars, moneyVars, benefitVars, tariff>>

\* approve, up to the call to the provider that verifies the signature.
BeginApprove(u) ==
  /\ Approvable(u)
  /\ LimitsKnown(u)
  /\ ~ OverLimit(u)
  /\ approving' = u
  /\ UNCHANGED <<status, filingVars, assignVars, slaVars, recalculating, resubmitting, moneyVars,
                 benefitVars, tariff>>

\* ... and the rest: issue_invoice, in the same transaction, reads the newest calculation
\* again. The move to INVOICED is its own.
CommitApprove ==
  /\ approving # None
  /\ approving' = None
  /\ status' = "INVOICED"
  /\ invoice' = calculation.amount
  /\ decided_by' = approving
  /\ UNCHANGED <<filingVars, assignVars, slaVars, recalculating, resubmitting, calculation,
                 printed, overtaken, benefitVars, tariff>>

\* The signature does not verify, or the plot is full: this decided_at never was.
AbortApprove ==
  /\ approving # None
  /\ approving' = None
  /\ calculation' = [calculation EXCEPT !.after = FALSE]
  /\ recalculating' = IF recalculating = None THEN None
                      ELSE [recalculating EXCEPT !.row.after = FALSE]
  /\ overtaken' = overtaken \ {"limit"}
  /\ UNCHANGED <<status, filingVars, assignVars, slaVars, resubmitting, invoice, printed,
                 decided_by, benefitVars, tariff>>

\* reject
Reject(u) ==
  /\ Decidable(u, "REJECTED")
  /\ Move("REJECTED")
  /\ UNCHANGED <<assignVars, slaVars>>

-----------------------------------------------------------------------------
(* After the decision, and around it.                                      *)

\* The invoice is paid or lapses: Settlement says how.
SettleInvoice(to) ==
  /\ status = "INVOICED"
  /\ Move(to)
  /\ UNCHANGED <<assignVars, slaVars>>

\* Mutated: whatever calculation is the newest is printed.
IssuePermitAtNewest ==
  /\ status = "PAID"
  /\ printed = None
  /\ benefit \notin {"pending", "rejected"}
  /\ calculation.contour = contour
  /\ printed' = calculation.amount
  /\ UNCHANGED <<status, filingVars, assignVars, slaVars, requestVars, calculation, invoice,
                 overtaken, decided_by, benefitVars, tariff>>

\* permits.issue, what it asks of the application: a claim that stands, a calculation of
\* this contour and none created after the decision.
IssuePermit ==
  /\ status = "PAID"
  /\ printed = None
  /\ benefit \notin {"pending", "rejected"}
  /\ calculation.contour = contour
  /\ ~ calculation.after
  /\ printed' = calculation.amount
  /\ UNCHANGED <<status, filingVars, assignVars, slaVars, requestVars, calculation, invoice,
                 overtaken, decided_by, benefitVars, tariff>>

\* A tariff is published. (Bound: not after the decision, where nobody asks for it.)
PublishTariff(t) ==
  /\ status \in UNDECIDED_STATUSES
  /\ t # tariff
  /\ tariff' = t
  /\ UNCHANGED <<status, filingVars, assignVars, slaVars, requestVars, moneyVars, benefitVars>>

\* The deadline passes: in the office's days, or while the owner answers or corrects.
PassDeadline ==
  /\ status \in UNDECIDED_STATUSES
  /\ deadline = "ahead"
  /\ deadline' = "passed"
  /\ late_in' = CASE status = "PENDING_INFO" -> "answer"
                  [] status = "RETURNED" -> "correction"
                  [] OTHER -> "office"
  /\ UNCHANGED <<status, filingVars, assignVars, info, breach, taken_back, requestVars,
                 moneyVars, benefitVars, tariff>>

\* SLA_ACTIVE_STATUSES
SLA_ACTIVE_STATUSES == {"SUBMITTED", "IN_REVIEW"}

\* sla_sweep, the half that leaves a trace: one RI-07 per application.
SlaSweep ==
  /\ status \in SLA_ACTIVE_STATUSES
  /\ deadline = "passed"
  /\ ~ breach
  /\ breach' = TRUE
  /\ UNCHANGED <<status, filingVars, assignVars, info, deadline, late_in, taken_back,
                 requestVars, moneyVars, benefitVars, tariff>>

-----------------------------------------------------------------------------
Owner ==
  \/ \E c \in Contours, k \in Claims : File(c, k) \/ PatchDraft(c, k)
  \/ BeginSubmit \/ CommitSubmit \/ RefuseSubmit \/ AbortSubmit
  \/ RespondInfo \/ Cancel

Office ==
  \/ \E u \in Reviewers :
       StartReview(u) \/ RequestInfo(u) \/ DecideClaim(u, "verified") \/ DecideClaim(u, "rejected")
  \/ \E u \in Users : Assign(u) \/ Return(u) \/ BeginRecalculate(u)
  \/ CommitRecalculate \/ AbortRecalculate

Decision ==
  \/ \E u \in Deciders : Forward(u) \/ BeginApprove(u) \/ Reject(u)
  \/ CommitApprove \/ AbortApprove

Next ==
  \/ Owner \/ Office \/ Decision
  \/ \E to \in {"PAID", "EXPIRED_UNPAID"} : SettleInvoice(to)
  \/ IssuePermit
  \/ \E t \in Tariffs : PublishTariff(t)
  \/ PassDeadline \/ SlaSweep

Spec == Init /\ [][Next]_vars

-----------------------------------------------------------------------------
TypeOK ==
  /\ status \in APPLICATION_STATUSES \cup {"none"}
  /\ contour \in Contours
  /\ area \in Nat \cup {None}
  /\ claim \in Claims
  /\ benefit \in {"not_required", "pending", "verified", "rejected"}
  /\ assigned_org \in Organizations \cup {None}
  /\ assigned_user \in Users \cup {None}
  /\ assignment \in [org : Organizations, user : Users \cup {None}] \cup {None}
  /\ info \in {"ahead", "passed", None}
  /\ deadline \in {"ahead", "passed"}
  /\ {breach, taken_back} \subseteq BOOLEAN
  /\ late_in \in {"office", "answer", "correction", None}
  /\ calculation \in [amount : Nat, contour : Contours, after : BOOLEAN] \cup {None}
  /\ tariff \in Tariffs
  /\ recalculating \in
       [row : [amount : Nat, contour : Contours, after : BOOLEAN],
        during : BOOLEAN, superseded : BOOLEAN] \cup {None}
  /\ resubmitting \in BOOLEAN \cup {None}
  /\ approving \in Deciders \cup {None}
  /\ {invoice, printed} \subseteq Nat \cup {None}
  /\ verified \in Claims
  /\ decided_by \in Deciders \cup {None}
  /\ overtaken \subseteq {"limit", "price", "plot"}

\* The active row of application_assignments and the two columns of the application name
\* the same office and the same employee, through claiming, escalation and a corrected
\* contour (_claim_assignment reuses a row nobody holds with its organization as it is).
AssignmentIsOne ==
  status # "none" => assignment = [org |-> assigned_org, user |-> assigned_user]

\* An application that waits for its owner has the question it waits for
\* (the assertion of respond_info), a question outlives the wait only where a reviewer took
\* the application back, and no office is blamed for the days its owner was answering: a
\* deadline that passed in them is ahead again before the sweep looks (shift_deadline).
\* The days of a correction are blamed on it: sla.py:12-17 calls RETURNED a pause "of the
\* same shape", and says in the same breath that submit keeps the deadline.
PausePaired ==
  /\ status = "PENDING_INFO" => info # None
  /\ info # None /\ status # "PENDING_INFO" => taken_back
  /\ breach => late_in \in {"office", "correction"} \/ taken_back

\* What is billed was within the authority of whoever decided, in money and in land, and
\* was worked out for the plot applied for (_limits,
\* _assert_application_open_for_calculation), unless a recalculation committed between the
\* limits and the invoice, or overlapped a resubmission. The frozen area is that plot's too.
PriceIsDecided ==
  /\ invoice # None =>
       /\ \/ Limit[decided_by] = None
          \/ invoice <= Limit[decided_by]
          \/ "limit" \in overtaken
       /\ MaxArea[decided_by] = None \/ area <= MaxArea[decided_by]
  /\ status \notin {"none", "RETURNED"} =>
       /\ calculation.contour = contour \/ "plot" \in overtaken
       /\ area = AreaOf[contour]

\* A permit prints the amount that was billed (calculation_after_decision), unless a
\* recalculation that began before the decision was committed after it: its row is the
\* newest and looks older than the decision.
PermitPricedAsInvoiced ==
  printed # None => printed = invoice \/ "price" \in overtaken

\* Whoever is billed with a benefit had this very claim confirmed, not the one of an
\* earlier version (_open_benefit_verification, _assert_benefit_decided).
ClaimVerifiedAsFiled ==
  invoice # None /\ claim # None => benefit = "verified" /\ verified = claim
=============================================================================
