---------------------------- MODULE Settlement ----------------------------
(***************************************************************************)
(* How an approved application becomes a paid one.                         *)
(*                                                                         *)
(* `payments` owns the invoice; `applications` owns the application's      *)
(* status.  Four independent actors race for a pending invoice: Payme's    *)
(* merchant RPC, the accountants' maker-checker door, the nightly expiry   *)
(* sweep, and the owner who withdraws the application.  Each request is    *)
(* one database transaction that locks the invoice row before it decides,  *)
(* so here one action is one committed request.  The two requests that     *)
(* read the invoice WITHOUT its lock (CreateTransaction, and the filing of *)
(* a manual confirmation) are split where another commit can come between  *)
(* the read and the insert.                                                *)
(***************************************************************************)
EXTENDS ApplicationStatus, Integers, FiniteSets

CONSTANTS
  Apps,        \* applications; each bears at most one invoice
  Txns,        \* Payme transactions, by external id
  Confs,       \* manual payment confirmations (and their 'manual' transactions)
  Staff,       \* accountants
  Amounts,     \* what a bank document may say arrived (gt=0)
  Price,       \* the amount of the calculation an application is billed by
  Exempt,      \* applications a verified claim or the law makes free at amount 0
  SplitFloor,  \* the least non-zero amount the configured recipients split
  NoApp, Nobody

Sources == Txns \cup Confs

ASSUME SettlementAssumption ==
  /\ Txns \cap Confs = {}
  /\ Amounts \subseteq Nat \ {0}
  /\ Price \in [Apps -> Nat]
  /\ Exempt \subseteq Apps
  /\ SplitFloor \in [Apps -> Nat]
  /\ NoApp \notin Apps
  /\ Nobody \notin Staff

VARIABLES
  application,  \* applications.status
  invoice,      \* invoices.status, "none" while no row exists
  overdue,      \* invoices.due_at has passed
  inv,          \* source -> the invoice its row points at
  state,        \* provider_transactions.state, "none" while no row exists
  amount,       \* the amount of the source's row
  conf,         \* manual_payment_confirmations.status
  maker,        \* manual_payment_confirmations.maker_id
  checker,      \* manual_payment_confirmations.checker_id
  payments,     \* 'payment' entry groups in allocations, per transaction
  corrections,  \* 'correction' entry groups in allocations, per transaction
  recon,        \* reconciliations.status of the source's discrepancy
  checked       \* an in-flight request: the invoice it has found payable

appVars  == <<application, invoice, overdue>>
confVars == <<conf, maker, checker>>
bookVars == <<payments, corrections>>
vars == <<application, invoice, overdue, inv, state, amount, conf, maker, checker,
          payments, corrections, recon, checked>>

INVOICE_STATUSES == {"none", "pending", "paid", "expired", "cancelled"}

STATE_CREATED          == "1"
STATE_PERFORMED        == "2"
STATE_CANCELLED_BEFORE == "-1"
STATE_CANCELLED_AFTER  == "-2"
STATES == {"none", STATE_CREATED, STATE_PERFORMED, STATE_CANCELLED_BEFORE,
           STATE_CANCELLED_AFTER}

MANUAL_CONFIRMATION_STATUSES == {"none", "pending_check", "confirmed", "rejected"}
RECONCILIATION_STATUSES == {"none", "open", "resolved"}

-----------------------------------------------------------------------------
(* The shared pieces of the handlers.                                       *)

\* set_status and _apply_transition, as the last write of a request.
SetStatus(a, to) ==
  /\ MayMove(application[a], to)
  /\ application' = [application EXCEPT ![a] = to]

SetInvoice(a, to) == invoice' = [invoice EXCEPT ![a] = to]

\* uq_invoices_one_in_force and invoice_for_application
InForce(a) == invoice[a] \in {"pending", "paid"}

\* ledger.split_payment refuses an amount its fixed shares exceed; 0 always fits
SplitFits(a, n) == n = 0 \/ n >= SplitFloor[a]

\* _free_settlement_benefit_code + _verified_claim_of, or
\* _exempt_activity_code + _exemption_of
FreeSettlement(a) == Price[a] = 0 /\ a \in Exempt

\* Mutated: the absence of a performed transaction is taken for a free settlement.
NoPerformedTransaction(a) ==
  /\ invoice[a] = "paid"
  /\ ~ \E s \in Sources : state[s] = STATE_PERFORMED /\ inv[s] = a

\* is_settled_without_payment, the reader of what _settle_free wrote
IsSettledWithoutPayment(a) ==
  /\ invoice[a] = "paid"
  /\ Price[a] = 0
  /\ ~ \E s \in Sources : state[s] # "none" /\ inv[s] = a

\* Mutated: the money is booked and the invoice stays payable.
ConfirmPaymentKeepsInvoice(s, a, n) ==
  /\ SplitFits(a, n)
  /\ payments' = [payments EXCEPT ![s] = @ + 1]
  /\ SetStatus(a, "PAID")
  /\ UNCHANGED <<invoice, corrections>>

\* confirm_payment: the source's money settles invoice a
ConfirmPayment(s, a, n) ==
  /\ SplitFits(a, n)
  /\ SetInvoice(a, "paid")
  /\ payments' = [payments EXCEPT ![s] = @ + 1]
  /\ SetStatus(a, "PAID")
  /\ UNCHANGED corrections

\* Mutated: what is stored is the negated figure, not how many rows negate it.
RecordReversalSigned(t) ==
  IF corrections[t] # 0
  THEN UNCHANGED <<corrections, recon>>
  ELSE /\ corrections' = [corrections EXCEPT ![t] = - payments[t]]
       /\ recon' = [recon EXCEPT ![t] = "open"]

\* record_reversal: negate the transaction's own payment entries, once
RecordReversal(t) ==
  IF corrections[t] > 0
  THEN UNCHANGED <<corrections, recon>>
  ELSE /\ corrections' = [corrections EXCEPT ![t] = payments[t]]
       /\ recon' = [recon EXCEPT ![t] = "open"]

-----------------------------------------------------------------------------
(* Applications: the flow up to the decision, and after the money.          *)

Init ==
  /\ application = [a \in Apps |-> "SUBMITTED"]
  /\ invoice = [a \in Apps |-> "none"]
  /\ overdue = [a \in Apps |-> FALSE]
  /\ inv = [s \in Sources |-> NoApp]
  /\ state = [s \in Sources |-> "none"]
  /\ amount = [s \in Sources |-> 0]
  /\ conf = [c \in Confs |-> "none"]
  /\ maker = [c \in Confs |-> Nobody]
  /\ checker = [c \in Confs |-> Nobody]
  /\ payments = [s \in Sources |-> 0]
  /\ corrections = [s \in Sources |-> 0]
  /\ recon = [s \in Sources |-> "none"]
  /\ checked = [s \in Sources |-> NoApp]

sourceVars == <<inv, state, amount, recon, checked, confVars, bookVars>>

\* Every review verb (start_review, return, request_info, respond, resubmit, reject).
Review(a, to) ==
  /\ to \in UNDECIDED_STATUSES \cup {"REJECTED"}
  /\ SetStatus(a, to)
  /\ UNCHANGED <<invoice, overdue, sourceVars>>

\* Mutated: a free settlement forgets the application's last move.
IssueInvoiceStopsShort(a) ==
  /\ SplitFits(a, Price[a])
  /\ overdue' = [overdue EXCEPT ![a] = FALSE]
  /\ IF FreeSettlement(a)
     THEN /\ SetInvoice(a, "paid")
          /\ application' = [application EXCEPT ![a] = "INVOICED"]
     ELSE /\ SetInvoice(a, "pending")
          /\ application' = [application EXCEPT ![a] = "INVOICED"]

\* issue_invoice, run by approve's event in approve's own transaction.  It returns
\* the invoice in force if there is one, and raises (undoing the approval) if the
\* configured shares do not fit.
IssueInvoice(a) ==
  /\ SplitFits(a, Price[a])
  /\ MayMove("APPROVED", "INVOICED")
  /\ overdue' = [overdue EXCEPT ![a] = FALSE]
  /\ IF FreeSettlement(a)
     THEN /\ MayMove("INVOICED", "PAID")
          /\ SetInvoice(a, "paid")
          /\ application' = [application EXCEPT ![a] = "PAID"]
     ELSE /\ SetInvoice(a, "pending")
          /\ application' = [application EXCEPT ![a] = "INVOICED"]

Approve(a) ==
  /\ MayMove(application[a], "APPROVED")
  /\ IF InForce(a)
     THEN /\ application' = [application EXCEPT ![a] = "APPROVED"]
          /\ UNCHANGED <<invoice, overdue>>
     ELSE IssueInvoice(a)
  /\ UNCHANGED sourceVars

\* cancel publishes APPLICATION_CANCELLED, and cancel_invoice_for_application
\* withdraws a pending invoice in the same transaction.
Cancel(a) ==
  /\ application[a] \in CANCELLABLE_BY_APPLICANT_STATUSES
  /\ SetStatus(a, "CANCELLED")
  /\ IF invoice[a] = "pending" THEN SetInvoice(a, "cancelled") ELSE UNCHANGED invoice
  /\ UNCHANGED <<overdue, sourceVars>>

\* _activate, close_finished and archive_object: what follows the payment.
AfterPayment(a, to) ==
  /\ to \in {"PERMIT_ISSUED", "CLOSED", "ARCHIVED"}
  /\ SetStatus(a, to)
  /\ UNCHANGED <<invoice, overdue, sourceVars>>

-----------------------------------------------------------------------------
(* Payme's merchant RPC.  Every call locks the transaction row first; what  *)
(* a call changed before it answers with an error is committed.             *)

\* _check_invoice_for_payment: status and amount, read without the invoice's lock.
CheckInvoiceForPayment(t, a) ==
  /\ state[t] = "none"
  /\ checked[t] = NoApp
  /\ invoice[a] = "pending"
  /\ checked' = [checked EXCEPT ![t] = a]
  /\ UNCHANGED <<appVars, inv, state, amount, recon, confVars, bookVars>>

\* The rest of _create_transaction, whatever became of the invoice meanwhile.  A second
\* call with the same id meets uq_provider_transactions_external and becomes the next
\* action.
CreateTransaction(t) ==
  /\ checked[t] # NoApp
  /\ state[t] = "none"
  /\ inv' = [inv EXCEPT ![t] = checked[t]]
  /\ state' = [state EXCEPT ![t] = STATE_CREATED]
  /\ amount' = [amount EXCEPT ![t] = Price[checked[t]]]
  /\ checked' = [checked EXCEPT ![t] = NoApp]
  /\ UNCHANGED <<appVars, recon, confVars, bookVars>>

\* _create_transaction_existing: a retry of CreateTransaction changes the row only when
\* _expire_if_overdue finds it older than TRANSACTION_TIMEOUT.
CreateTransactionExisting(t) ==
  /\ state[t] = STATE_CREATED
  /\ state' = [state EXCEPT ![t] = STATE_CANCELLED_BEFORE]
  /\ UNCHANGED <<appVars, inv, amount, recon, checked, confVars, bookVars>>

\* _perform_transaction: the deadline first (_expire_if_overdue), then the invoice under
\* its lock.  A performed row answers again without a change.
PerformTransaction(t, late) ==
  /\ state[t] = STATE_CREATED
  /\ IF late
     THEN /\ state' = [state EXCEPT ![t] = STATE_CANCELLED_BEFORE]
          /\ UNCHANGED <<application, invoice, bookVars>>
     ELSE /\ invoice[inv[t]] = "pending"
          /\ state' = [state EXCEPT ![t] = STATE_PERFORMED]
          /\ ConfirmPayment(t, inv[t], amount[t])
  /\ UNCHANGED <<overdue, inv, amount, recon, checked, confVars>>

\* Mutated: the provider's answer changes and the ledger does not.
CancelTransactionKeepsMoney(t) ==
  /\ state[t] \in {STATE_CREATED, STATE_PERFORMED}
  /\ state' = [state EXCEPT ![t] = IF state[t] = STATE_CREATED
                                   THEN STATE_CANCELLED_BEFORE
                                   ELSE STATE_CANCELLED_AFTER]
  /\ UNCHANGED <<appVars, inv, amount, payments, corrections, recon, checked, confVars>>

\* _cancel_transaction: before the money, or after it (which is a reversal).
CancelTransaction(t) ==
  /\ state[t] \in {STATE_CREATED, STATE_PERFORMED}
  /\ state' = [state EXCEPT ![t] = IF state[t] = STATE_CREATED
                                   THEN STATE_CANCELLED_BEFORE
                                   ELSE STATE_CANCELLED_AFTER]
  /\ IF state[t] = STATE_PERFORMED
     THEN RecordReversal(t)
     ELSE UNCHANGED <<corrections, recon>>
  /\ UNCHANGED <<appVars, inv, amount, payments, checked, confVars>>

-----------------------------------------------------------------------------
(* The accountants' door: a maker files a bank document, another accountant *)
(* confirms or rejects it.                                                  *)

\* file_manual_confirmation's two reads: the invoice is payable, and no confirmation
\* of it awaits a check.
BeginFiling(c, a) ==
  /\ conf[c] = "none"
  /\ checked[c] = NoApp
  /\ invoice[a] = "pending"
  /\ \A d \in Confs : conf[d] = "pending_check" => inv[d] # a
  /\ checked' = [checked EXCEPT ![c] = a]
  /\ UNCHANGED <<appVars, inv, state, amount, recon, confVars, bookVars>>

\* Mutated: only an underpayment is a discrepancy.
FileUnderpaymentOnly(c, k, n) ==
  /\ checked[c] # NoApp
  /\ inv' = [inv EXCEPT ![c] = checked[c]]
  /\ amount' = [amount EXCEPT ![c] = n]
  /\ conf' = [conf EXCEPT ![c] = "pending_check"]
  /\ maker' = [maker EXCEPT ![c] = k]
  /\ recon' = [recon EXCEPT ![c] = IF n < Price[checked[c]] THEN "open" ELSE @]
  /\ checked' = [checked EXCEPT ![c] = NoApp]
  /\ UNCHANGED <<appVars, state, checker, bookVars>>

\* ... and its inserts.  An amount that differs from the invoice's opens a discrepancy.
FileManualConfirmation(c, k, n) ==
  /\ checked[c] # NoApp
  /\ inv' = [inv EXCEPT ![c] = checked[c]]
  /\ amount' = [amount EXCEPT ![c] = n]
  /\ conf' = [conf EXCEPT ![c] = "pending_check"]
  /\ maker' = [maker EXCEPT ![c] = k]
  /\ recon' = [recon EXCEPT ![c] = IF n # Price[checked[c]] THEN "open" ELSE @]
  /\ checked' = [checked EXCEPT ![c] = NoApp]
  /\ UNCHANGED <<appVars, state, checker, bookVars>>

\* _confirm_and_pay: under the invoice's lock, a performed 'manual' transaction.
ConfirmAndPay(c) ==
  /\ invoice[inv[c]] = "pending"
  /\ state' = [state EXCEPT ![c] = STATE_PERFORMED]
  /\ ConfirmPayment(c, inv[c], amount[c])

\* Mutated: the maker may check too.
CheckOwnConfirmation(c, k, approve) ==
  /\ conf[c] = "pending_check"
  /\ IF approve
     THEN ConfirmAndPay(c)
     ELSE UNCHANGED <<application, invoice, state, bookVars>>
  /\ conf' = [conf EXCEPT ![c] = IF approve THEN "confirmed" ELSE "rejected"]
  /\ checker' = [checker EXCEPT ![c] = k]
  /\ UNCHANGED <<overdue, inv, amount, maker, recon, checked>>

\* check_manual_confirmation: confirm or reject, never by the maker.
CheckManualConfirmation(c, k, approve) ==
  /\ conf[c] = "pending_check"
  /\ maker[c] # k
  /\ IF approve
     THEN ConfirmAndPay(c)
     ELSE UNCHANGED <<application, invoice, state, bookVars>>
  /\ conf' = [conf EXCEPT ![c] = IF approve THEN "confirmed" ELSE "rejected"]
  /\ checker' = [checker EXCEPT ![c] = k]
  /\ UNCHANGED <<overdue, inv, amount, maker, recon, checked>>

\* A request that found the invoice payable and then failed, or whose worker died.
Abandon(s) ==
  /\ checked[s] # NoApp
  /\ checked' = [checked EXCEPT ![s] = NoApp]
  /\ UNCHANGED <<appVars, inv, state, amount, recon, confVars, bookVars>>

ResolveReconciliation(s) ==
  /\ recon[s] = "open"
  /\ recon' = [recon EXCEPT ![s] = "resolved"]
  /\ UNCHANGED <<appVars, inv, state, amount, checked, confVars, bookVars>>

-----------------------------------------------------------------------------
(* Time and the nightly job.                                                *)

InvoiceFallsDue(a) ==
  /\ invoice[a] = "pending"
  /\ ~ overdue[a]
  /\ overdue' = [overdue EXCEPT ![a] = TRUE]
  /\ UNCHANGED <<application, invoice, sourceVars>>

\* Mutated: an invoice with an unfinished transaction is left alone.
CanExpireUnlessCreated(a) ==
  /\ overdue[a]
  /\ invoice[a] = "pending"
  /\ MayMove(application[a], "EXPIRED_UNPAID")
  /\ ~ \E t \in Txns : state[t] = STATE_CREATED /\ inv[t] = a

\* _expire_one_invoice succeeds on a row that is still pending under its lock.
CanExpire(a) ==
  /\ overdue[a]
  /\ invoice[a] = "pending"
  /\ MayMove(application[a], "EXPIRED_UNPAID")

\* Mutated: the application is not told.
ExpirySweepInvoicesOnly(S) ==
  /\ S # {}
  /\ \A a \in S : CanExpire(a)
  /\ invoice' = [a \in Apps |-> IF a \in S THEN "expired" ELSE invoice[a]]
  /\ UNCHANGED <<application, overdue, sourceVars>>

\* _expire_overdue_invoices: one transaction for the batch, one savepoint per row.  S is
\* the part of the batch whose rows did not fail.
ExpirySweep(S) ==
  /\ S # {}
  /\ \A a \in S : CanExpire(a)
  /\ application' = [a \in Apps |-> IF a \in S THEN "EXPIRED_UNPAID" ELSE application[a]]
  /\ invoice' = [a \in Apps |-> IF a \in S THEN "expired" ELSE invoice[a]]
  /\ UNCHANGED <<overdue, sourceVars>>

-----------------------------------------------------------------------------
Next ==
  \/ \E a \in Apps :
       \/ \E to \in APPLICATION_STATUSES : Review(a, to) \/ AfterPayment(a, to)
       \/ Approve(a)
       \/ Cancel(a)
       \/ InvoiceFallsDue(a)
  \/ \E t \in Txns :
       \/ \E a \in Apps : CheckInvoiceForPayment(t, a)
       \/ CreateTransaction(t)
       \/ CreateTransactionExisting(t)
       \/ \E late \in BOOLEAN : PerformTransaction(t, late)
       \/ CancelTransaction(t)
  \/ \E c \in Confs :
       \/ \E a \in Apps : BeginFiling(c, a)
       \/ \E k \in Staff, n \in Amounts : FileManualConfirmation(c, k, n)
       \/ \E k \in Staff, approve \in BOOLEAN : CheckManualConfirmation(c, k, approve)
  \/ \E s \in Sources : Abandon(s) \/ ResolveReconciliation(s)
  \/ \E S \in SUBSET Apps : ExpirySweep(S)

\* The scheduler runs the sweep every night, whatever the other rows of a batch do.
Fairness ==
  \A a \in Apps : WF_vars(\E S \in SUBSET Apps : a \in S /\ ExpirySweep(S))

Spec == Init /\ [][Next]_vars /\ Fairness

-----------------------------------------------------------------------------
(* Properties.                                                              *)

\* Every variable keeps the domain its column or row has.
TypeOK ==
  /\ application \in [Apps -> APPLICATION_STATUSES]
  /\ invoice \in [Apps -> INVOICE_STATUSES]
  /\ overdue \in [Apps -> BOOLEAN]
  /\ inv \in [Sources -> Apps \cup {NoApp}]
  /\ state \in [Sources -> STATES]
  /\ amount \in [Sources -> Nat]
  /\ conf \in [Confs -> MANUAL_CONFIRMATION_STATUSES]
  /\ maker \in [Confs -> Staff \cup {Nobody}]
  /\ checker \in [Confs -> Staff \cup {Nobody}]
  /\ payments \in [Sources -> Nat]
  /\ corrections \in [Sources -> Nat]
  /\ recon \in [Sources -> RECONCILIATION_STATUSES]
  /\ checked \in [Sources -> Apps \cup {NoApp}]

\* Where an invoice stands allows exactly these statuses of its application.  An
\* application that is INVOICED can still be paid or expire, one that moved on cannot,
\* and no application is decided, paid or archived behind a pending invoice.  (The two
\* rows live in different modules and only the handlers keep them in step.)
InvoiceFollowsApplication ==
  \A a \in Apps :
    /\ application[a] = "INVOICED" <=> invoice[a] = "pending"
    /\ application[a] \in UNDECIDED_STATUSES \cup {"REJECTED", "CANCELLED"}
         => invoice[a] = "none"
    /\ application[a] \in {"PAID", "PERMIT_ISSUED", "CLOSED"} => invoice[a] = "paid"
    /\ invoice[a] = "paid"
         => application[a] \in {"PAID", "PERMIT_ISSUED", "CLOSED", "ARCHIVED"}
    /\ invoice[a] = "expired" => application[a] \in {"EXPIRED_UNPAID", "ARCHIVED"}

\* The transactions whose money was booked on invoice a, reversed since or not.
Booked(a) == {s \in Sources : payments[s] > 0 /\ inv[s] = a}

\* No invoice is settled twice, whatever Payme, two accountants and the sweep do at once;
\* an unpaid invoice holds nobody's money; and an invoice is paid either by exactly one
\* transaction or free of charge.
SettledOnce ==
  \A a \in Apps :
    /\ \A s1, s2 \in Booked(a) : s1 = s2
    /\ Booked(a) # {} => invoice[a] = "paid"
    /\ invoice[a] = "paid" => Booked(a) # {} \/ FreeSettlement(a)

\* The ledger says what the provider was answered: one payment group for every
\* performed transaction, negated once when Payme took it back, and nothing for a
\* transaction that never performed.
LedgerMatchesProvider ==
  \A s \in Sources :
    /\ payments[s] = IF state[s] \in {STATE_PERFORMED, STATE_CANCELLED_AFTER} THEN 1 ELSE 0
    /\ corrections[s] = IF state[s] = STATE_CANCELLED_AFTER THEN 1 ELSE 0

\* A manual transaction exists exactly for a confirmed filing, is never reversed, and
\* two different accountants stand behind it.
ManualNeedsTwo ==
  \A c \in Confs :
    /\ state[c] = STATE_PERFORMED <=> conf[c] = "confirmed"
    /\ state[c] \in {"none", STATE_PERFORMED}
    /\ conf[c] \in {"confirmed", "rejected"}
         => {maker[c], checker[c]} \subseteq Staff /\ maker[c] # checker[c]

\* Money that differs from the invoice, or that left again, is never silent: the
\* accountants' register holds a discrepancy for it, open or resolved, whether the document
\* is confirmed, rejected, overtaken by another payment or still waits.
DiscrepancyRegistered ==
  \A s \in Sources :
    inv[s] # NoApp /\ (amount[s] # Price[inv[s]] \/ corrections[s] > 0)
      => recon[s] # "none"

\* is_settled_without_payment, which decides whether a paid invoice can be refunded,
\* tells the free settlement from every other kind for ever after.
FreeSettlementReadsRight ==
  \A a \in Apps :
    invoice[a] = "paid" => (IsSettledWithoutPayment(a) <=> Booked(a) = {})

\* What the invariants above rest on.  An invoice that was ever payable is Billed; every
\* row, and every request in flight, points at a billed invoice, carries its amount or a
\* registered difference, and no application is left between two writes of one request.
Billed(a) == a \in Apps /\ invoice[a] # "none" /\ ~ FreeSettlement(a)

RowsAreBilled ==
  /\ \A a \in Apps : invoice[a] = "pending" => Billed(a)
  /\ \A s \in Sources : checked[s] # NoApp => Billed(checked[s]) /\ state[s] = "none"
  /\ \A t \in Txns :
       state[t] # "none" => Billed(inv[t]) /\ amount[t] = Price[inv[t]]
  /\ \A c \in Confs :
       /\ checked[c] # NoApp => conf[c] = "none"
       /\ conf[c] # "none" => Billed(inv[c])
       /\ conf[c] # "none" => maker[c] \in Staff

NothingHalfDone ==
  \A a \in Apps :
    /\ application[a] # "APPROVED"
    /\ invoice[a] # "cancelled"
    /\ invoice[a] = "none"
         => application[a] \in UNDECIDED_STATUSES \cup {"REJECTED", "CANCELLED", "ARCHIVED"}

Inductive ==
  /\ TypeOK
  /\ InvoiceFollowsApplication
  /\ NothingHalfDone
  /\ LedgerMatchesProvider
  /\ RowsAreBilled
  /\ SettledOnce
  /\ ManualNeedsTwo
  /\ DiscrepancyRegistered

\* An invoice whose due date passed does not stay pending: it is paid or it expires.
OverdueIsSettled ==
  \A a \in Apps :
    (invoice[a] = "pending" /\ overdue[a]) ~> (invoice[a] # "pending")
=============================================================================
