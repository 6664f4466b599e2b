-------------------------- MODULE SettlementProofs -------------------------
(***************************************************************************)
(* Theorems about Settlement, for any number of applications, transactions,*)
(* confirmations and accountants.                                          *)
(***************************************************************************)
EXTENDS Settlement, TLAPS

\* The transition table of the code, read as a relation: which status follows which.
LEMMA MoveTable ==
  ASSUME NEW from \in APPLICATION_STATUSES, NEW to, MayMove(from, to)
  PROVE  \/ from = "SUBMITTED" /\ to \in {"IN_REVIEW", "RETURNED", "REJECTED", "CANCELLED"}
         \/ from = "IN_REVIEW" /\ to \in {"PENDING_INFO", "APPROVED", "REJECTED",
                                          "RETURNED", "CANCELLED"}
         \/ from = "PENDING_INFO" /\ to \in {"IN_REVIEW", "CANCELLED"}
         \/ from = "RETURNED" /\ to \in {"SUBMITTED", "CANCELLED"}
         \/ from = "APPROVED" /\ to = "INVOICED"
         \/ from = "INVOICED" /\ to \in {"PAID", "EXPIRED_UNPAID", "CANCELLED"}
         \/ from = "PAID" /\ to = "PERMIT_ISSUED"
         \/ from = "PERMIT_ISSUED" /\ to = "CLOSED"
         \/ from \in {"REJECTED", "CANCELLED", "EXPIRED_UNPAID", "CLOSED"} /\ to = "ARCHIVED"
  BY DEF MayMove, APPLICATION_TRANSITIONS, APPLICATION_STATUSES

\* A status that may be written is a status of the table.
LEMMA MoveIsStatus ==
  ASSUME NEW from \in APPLICATION_STATUSES, NEW to, MayMove(from, to)
  PROVE  to \in APPLICATION_STATUSES
  BY MoveTable DEF APPLICATION_STATUSES

-----------------------------------------------------------------------------
(* Type correctness.                                                        *)

\* Every step, or stutter, keeps every variable in its domain.
LEMMA TypeStep ==
  ASSUME TypeOK, [Next]_vars
  PROVE  TypeOK'
<1> USE DEF TypeOK, SetInvoice, appVars, confVars, bookVars, sourceVars,
            INVOICE_STATUSES, STATES, STATE_CREATED, STATE_PERFORMED,
            STATE_CANCELLED_BEFORE, STATE_CANCELLED_AFTER,
            MANUAL_CONFIRMATION_STATUSES, RECONCILIATION_STATUSES
<1>1. ASSUME NEW a \in Apps, NEW to, SetStatus(a, to)
      PROVE  application' \in [Apps -> APPLICATION_STATUSES]
  BY <1>1, MoveIsStatus DEF SetStatus
<1>2. CASE \E a \in Apps, to \in APPLICATION_STATUSES : Review(a, to)
  BY <1>1, <1>2 DEF Review
<1>3. CASE \E a \in Apps, to \in APPLICATION_STATUSES : AfterPayment(a, to)
  BY <1>1, <1>3 DEF AfterPayment
<1>4. CASE \E a \in Apps : Approve(a)
  <2> PICK a \in Apps : Approve(a)
    BY <1>4
  <2>1. CASE InForce(a)
    BY <2>1 DEF Approve, APPLICATION_STATUSES
  <2>2. CASE ~ InForce(a)
    <3>1. /\ \E st \in {"PAID", "INVOICED"} : application' = [application EXCEPT ![a] = st]
          /\ \E st \in {"paid", "pending"} : invoice' = [invoice EXCEPT ![a] = st]
          /\ overdue' = [overdue EXCEPT ![a] = FALSE]
          /\ UNCHANGED sourceVars
      BY <2>2 DEF Approve, IssueInvoice
    <3> QED  BY <3>1 DEF APPLICATION_STATUSES
  <2> QED  BY <2>1, <2>2
<1>5. CASE \E a \in Apps : Cancel(a)
  BY <1>1, <1>5 DEF Cancel
<1>6. CASE \E a \in Apps : InvoiceFallsDue(a)
  BY <1>6 DEF InvoiceFallsDue
<1>7. CASE \E t \in Txns, a \in Apps : CheckInvoiceForPayment(t, a)
  BY <1>7 DEF CheckInvoiceForPayment, Sources
<1>8. CASE \E t \in Txns : CreateTransaction(t)
  BY <1>8, SettlementAssumption DEF CreateTransaction, Sources
<1>9. CASE \E t \in Txns : CreateTransactionExisting(t)
  BY <1>9 DEF CreateTransactionExisting, Sources
<1>10. CASE \E t \in Txns, late \in BOOLEAN : PerformTransaction(t, late)
  <2> PICK t \in Txns, late \in BOOLEAN : PerformTransaction(t, late)
    BY <1>10
  <2>1. CASE late
    BY <2>1 DEF PerformTransaction, Sources
  <2>2. CASE ~ late
    BY <2>2 DEF PerformTransaction, ConfirmPayment, SetStatus, APPLICATION_STATUSES
  <2> QED  BY <2>1, <2>2
<1>11. CASE \E t \in Txns : CancelTransaction(t)
  <2> PICK t \in Txns : CancelTransaction(t)
    BY <1>11
  <2>1. state' \in [Sources -> STATES] /\ UNCHANGED <<appVars, inv, amount, payments,
                                                      checked, confVars>>
    BY DEF CancelTransaction
  <2>2. corrections' \in [Sources -> Nat] /\ recon' \in [Sources -> RECONCILIATION_STATUSES]
    BY DEF CancelTransaction, RecordReversal, Sources
  <2> QED  BY <2>1, <2>2
<1>12. CASE \E c \in Confs, a \in Apps : BeginFiling(c, a)
  BY <1>12 DEF BeginFiling, Sources
<1>13. CASE \E c \in Confs, k \in Staff, n \in Amounts : FileManualConfirmation(c, k, n)
  BY <1>13, SettlementAssumption DEF FileManualConfirmation, Sources
<1>14. CASE \E c \in Confs, k \in Staff, approve \in BOOLEAN :
              CheckManualConfirmation(c, k, approve)
  <2> PICK c \in Confs, k \in Staff, approve \in BOOLEAN :
             CheckManualConfirmation(c, k, approve)
    BY <1>14
  <2>1. CASE approve
    BY <2>1 DEF CheckManualConfirmation, ConfirmAndPay, ConfirmPayment, SetStatus,
                APPLICATION_STATUSES
  <2>2. CASE ~ approve
    BY <2>2 DEF CheckManualConfirmation
  <2> QED  BY <2>1, <2>2
<1>15. CASE \E s \in Sources : Abandon(s)
  BY <1>15 DEF Abandon
<1>16. CASE \E s \in Sources : ResolveReconciliation(s)
  BY <1>16 DEF ResolveReconciliation
<1>17. CASE \E S \in SUBSET Apps : ExpirySweep(S)
  BY <1>17 DEF ExpirySweep, APPLICATION_STATUSES
<1>18. CASE UNCHANGED vars
  BY <1>18 DEF vars
<1> QED
  BY <1>2, <1>3, <1>4, <1>5, <1>6, <1>7, <1>8, <1>9, <1>10, <1>11, <1>12, <1>13,
     <1>14, <1>15, <1>16, <1>17, <1>18 DEF Next

\* Every variable keeps the domain of its column, in every behaviour.
THEOREM TypeCorrect == Spec => []TypeOK
<1>1. Init => TypeOK
  BY DEF Init, TypeOK, APPLICATION_STATUSES, INVOICE_STATUSES, STATES,
         MANUAL_CONFIRMATION_STATUSES, RECONCILIATION_STATUSES
<1>2. TypeOK /\ [Next]_vars => TypeOK'
  BY TypeStep
<1> QED
  BY <1>1, <1>2, PTL DEF Spec

-----------------------------------------------------------------------------
(* The inductive invariant.  An action moves either an application and its  *)
(* invoice (first two lemmas), or the rows that point at one (third lemma), *)
(* or, when money is booked, both.                                          *)

\* Before the first request nothing is billed, booked or filed, and the strengthening holds.
LEMMA InitInductive == Init => Inductive
<1> SUFFICES ASSUME Init PROVE Inductive
  OBVIOUS
<1>1. TypeOK
  BY DEF Init, TypeOK, APPLICATION_STATUSES, INVOICE_STATUSES, STATES,
         MANUAL_CONFIRMATION_STATUSES, RECONCILIATION_STATUSES
<1>2. InvoiceFollowsApplication /\ NothingHalfDone
  BY DEF Init, InvoiceFollowsApplication, NothingHalfDone, UNDECIDED_STATUSES
<1>3. LedgerMatchesProvider /\ DiscrepancyRegistered /\ ManualNeedsTwo
  BY DEF Init, LedgerMatchesProvider, DiscrepancyRegistered, ManualNeedsTwo, Sources,
         STATE_PERFORMED, STATE_CANCELLED_AFTER
<1>4. RowsAreBilled
  BY DEF Init, RowsAreBilled, Sources
<1>5. SettledOnce
  BY DEF Init, SettledOnce, Booked, Sources
<1> QED  BY <1>1, <1>2, <1>3, <1>4, <1>5 DEF Inductive

\* A step that touches no row behind an invoice keeps what is said of those rows, as long
\* as no invoice disappears, none becomes payable that should be free, and none becomes
\* paid or stops being paid except a free one that becomes paid.
LEMMA RowsKept ==
  ASSUME Inductive, UNCHANGED sourceVars,
         \A b \in Apps :
           /\ invoice[b] # "none" => invoice'[b] # "none"
           /\ invoice'[b] = "pending" => ~ FreeSettlement(b)
           /\ invoice[b] = "paid" => invoice'[b] = "paid"
           /\ invoice'[b] = "paid" => invoice[b] = "paid" \/ FreeSettlement(b)
  PROVE  /\ LedgerMatchesProvider'
         /\ RowsAreBilled'
         /\ SettledOnce'
         /\ ManualNeedsTwo'
         /\ DiscrepancyRegistered'
<1> USE DEF Inductive, sourceVars, confVars, bookVars
<1>1. LedgerMatchesProvider' /\ ManualNeedsTwo' /\ DiscrepancyRegistered'
  BY DEF LedgerMatchesProvider, ManualNeedsTwo, DiscrepancyRegistered
<1>2. RowsAreBilled'
  BY DEF RowsAreBilled, Billed, FreeSettlement
<1>3. SettledOnce'
  BY DEF SettledOnce, Booked, FreeSettlement
<1> QED  BY <1>1, <1>2, <1>3

\* A step that touches neither an application nor an invoice keeps their agreement.
LEMMA ApplicationsKept ==
  ASSUME Inductive, UNCHANGED <<application, invoice>>
  PROVE  InvoiceFollowsApplication' /\ NothingHalfDone'
  BY DEF Inductive, InvoiceFollowsApplication, NothingHalfDone

\* The steps of the application's own module, and of the nightly job: the two rows move
\* together, and the rows behind the invoice do not move.
LEMMA ApplicationStep ==
  ASSUME Inductive, NEW a \in Apps,
         \/ \E to : Review(a, to) \/ AfterPayment(a, to)
         \/ Approve(a) \/ Cancel(a) \/ InvoiceFallsDue(a)
  PROVE  /\ InvoiceFollowsApplication' /\ NothingHalfDone'
         /\ LedgerMatchesProvider' /\ RowsAreBilled' /\ SettledOnce'
         /\ ManualNeedsTwo' /\ DiscrepancyRegistered'
<1> USE DEF Inductive, InvoiceFollowsApplication, NothingHalfDone, SetInvoice, SetStatus,
            UNDECIDED_STATUSES
<1>T. application \in [Apps -> APPLICATION_STATUSES] /\ invoice \in [Apps -> INVOICE_STATUSES]
  BY DEF TypeOK
<1>N. \A b \in Apps : invoice[b] = "pending" => ~ FreeSettlement(b)
  BY DEF RowsAreBilled, Billed
<1>1. ASSUME NEW to, Review(a, to)
      PROVE  InvoiceFollowsApplication' /\ NothingHalfDone' /\ UNCHANGED <<invoice, sourceVars>>
  <2>1. application[a] \in UNDECIDED_STATUSES /\ UNCHANGED <<invoice, sourceVars>>
    BY <1>1, <1>T, MoveTable DEF Review
  <2> QED  BY <1>1, <1>T, <2>1 DEF Review
<1>2. ASSUME NEW to, AfterPayment(a, to)
      PROVE  InvoiceFollowsApplication' /\ NothingHalfDone' /\ UNCHANGED <<invoice, sourceVars>>
  <2>1. /\ UNCHANGED <<invoice, sourceVars>>
        /\ \/ application[a] = "PAID" /\ to = "PERMIT_ISSUED"
           \/ application[a] = "PERMIT_ISSUED" /\ to = "CLOSED"
           \/ /\ application[a] \in {"REJECTED", "CANCELLED", "EXPIRED_UNPAID", "CLOSED"}
              /\ to = "ARCHIVED"
    BY <1>2, <1>T, MoveTable DEF AfterPayment
  <2>2. application' = [application EXCEPT ![a] = to]
    BY <1>2 DEF AfterPayment
  <2> QED  BY <1>T, <2>1, <2>2
<1>3. ASSUME Cancel(a)
      PROVE  InvoiceFollowsApplication' /\ NothingHalfDone' /\ UNCHANGED <<invoice, sourceVars>>
  BY <1>3, <1>T DEF Cancel, CANCELLABLE_BY_APPLICANT_STATUSES
<1>4. ASSUME InvoiceFallsDue(a)
      PROVE  InvoiceFollowsApplication' /\ NothingHalfDone' /\ UNCHANGED <<invoice, sourceVars>>
  BY <1>4 DEF InvoiceFallsDue
<1>5. ASSUME Approve(a)
      PROVE  /\ application[a] = "IN_REVIEW" /\ invoice[a] = "none"
             /\ UNCHANGED sourceVars
             /\ IF FreeSettlement(a)
                THEN /\ application' = [application EXCEPT ![a] = "PAID"]
                     /\ invoice' = [invoice EXCEPT ![a] = "paid"]
                ELSE /\ application' = [application EXCEPT ![a] = "INVOICED"]
                     /\ invoice' = [invoice EXCEPT ![a] = "pending"]
  <2>1. application[a] = "IN_REVIEW"
    BY <1>5, <1>T, MoveTable DEF Approve
  <2>2. invoice[a] = "none"
    BY <2>1
  <2> QED  BY <1>5, <2>1, <2>2 DEF Approve, IssueInvoice, InForce
<1>6. CASE Approve(a)
  <2>1. InvoiceFollowsApplication' /\ NothingHalfDone'
    BY <1>T, <1>5, <1>6
  <2>2. \A b \in Apps :
          /\ invoice[b] # "none" => invoice'[b] # "none"
          /\ invoice'[b] = "pending" => ~ FreeSettlement(b)
          /\ invoice[b] = "paid" => invoice'[b] = "paid"
          /\ invoice'[b] = "paid" => invoice[b] = "paid" \/ FreeSettlement(b)
    BY <1>T, <1>N, <1>5, <1>6
  <2> QED  BY <1>5, <1>6, <2>1, <2>2, RowsKept
<1>7. CASE ~ Approve(a)
  <2>1. InvoiceFollowsApplication' /\ NothingHalfDone' /\ UNCHANGED <<invoice, sourceVars>>
    BY <1>1, <1>2, <1>3, <1>4, <1>7
  <2> QED  BY <1>N, <2>1, RowsKept
<1> QED  BY <1>6, <1>7

\* The sweep moves both rows of every invoice it expires.
LEMMA SweepStep ==
  ASSUME Inductive, NEW S \in SUBSET Apps, ExpirySweep(S)
  PROVE  /\ InvoiceFollowsApplication' /\ NothingHalfDone'
         /\ LedgerMatchesProvider' /\ RowsAreBilled' /\ SettledOnce'
         /\ ManualNeedsTwo' /\ DiscrepancyRegistered'
<1>T. application \in [Apps -> APPLICATION_STATUSES] /\ invoice \in [Apps -> INVOICE_STATUSES]
  BY DEF Inductive, TypeOK
<1>1. \A b \in S : invoice[b] = "pending"
  BY DEF ExpirySweep, CanExpire
<1>2. /\ UNCHANGED sourceVars
      /\ \A b \in Apps : /\ invoice'[b] = IF b \in S THEN "expired" ELSE invoice[b]
                         /\ application'[b] = IF b \in S THEN "EXPIRED_UNPAID" ELSE application[b]
  BY DEF ExpirySweep
<1>3. InvoiceFollowsApplication' /\ NothingHalfDone'
  BY <1>T, <1>1, <1>2 DEF Inductive, InvoiceFollowsApplication, NothingHalfDone,
     UNDECIDED_STATUSES
<1>4. \A b \in Apps : invoice[b] = "pending" => ~ FreeSettlement(b)
  BY DEF Inductive, RowsAreBilled, Billed
<1> QED  BY <1>1, <1>2, <1>3, <1>4, RowsKept

\* A step that books nothing, and moves no booked row to another invoice, keeps what is
\* said of booked money.
LEMMA BookedKept ==
  ASSUME Inductive, UNCHANGED <<invoice, payments>>,
         \A s \in Sources : payments[s] > 0 => inv'[s] = inv[s]
  PROVE  SettledOnce'
<1>1. \A a \in Apps : Booked(a)' = Booked(a)
  BY DEF Booked
<1> QED  BY <1>1 DEF Inductive, SettledOnce, FreeSettlement

\* A Payme call that takes no money: the check, both forms of CreateTransaction, and a
\* PerformTransaction that comes too late.
LEMMA ProviderStep ==
  ASSUME Inductive, NEW t \in Txns,
         \/ \E a \in Apps : CheckInvoiceForPayment(t, a)
         \/ CreateTransaction(t)
         \/ CreateTransactionExisting(t)
         \/ PerformTransaction(t, TRUE)
  PROVE  /\ LedgerMatchesProvider' /\ RowsAreBilled' /\ SettledOnce'
         /\ ManualNeedsTwo' /\ DiscrepancyRegistered'
<1> USE DEF confVars, bookVars, appVars, STATE_CREATED, STATE_PERFORMED,
            STATE_CANCELLED_BEFORE, STATE_CANCELLED_AFTER
<1>T. /\ t \in Sources /\ t \notin Confs
      /\ inv \in [Sources -> Apps \cup {NoApp}] /\ amount \in [Sources -> Nat]
      /\ state \in [Sources -> STATES] /\ checked \in [Sources -> Apps \cup {NoApp}]
      /\ Confs \subseteq Sources /\ Txns \subseteq Sources
  BY SettlementAssumption DEF Inductive, TypeOK, Sources
<1>I. /\ LedgerMatchesProvider /\ RowsAreBilled /\ ManualNeedsTwo /\ DiscrepancyRegistered
      /\ \A b \in Apps : invoice[b] = "pending" => ~ FreeSettlement(b)
  BY DEF Inductive, RowsAreBilled, Billed
<1>1. CASE \E a \in Apps : CheckInvoiceForPayment(t, a)
  <2> PICK a \in Apps : CheckInvoiceForPayment(t, a)
    BY <1>1
  <2>1. /\ UNCHANGED <<invoice, inv, state, amount, payments, corrections, recon, confVars>>
        /\ checked' = [checked EXCEPT ![t] = a]
        /\ invoice[a] = "pending" /\ state[t] = "none"
    BY DEF CheckInvoiceForPayment
  <2>2. RowsAreBilled'
    BY <1>T, <1>I, <2>1 DEF RowsAreBilled, Billed, FreeSettlement
  <2>3. LedgerMatchesProvider' /\ ManualNeedsTwo' /\ DiscrepancyRegistered'
    BY <1>I, <2>1 DEF LedgerMatchesProvider, ManualNeedsTwo, DiscrepancyRegistered
  <2> QED  BY <2>1, <2>2, <2>3, BookedKept
<1>2. CASE CreateTransaction(t)
  <2>1. /\ UNCHANGED <<invoice, payments, corrections, recon, confVars>>
        /\ inv' = [inv EXCEPT ![t] = checked[t]]
        /\ state' = [state EXCEPT ![t] = "1"]
        /\ amount' = [amount EXCEPT ![t] = Price[checked[t]]]
        /\ checked' = [checked EXCEPT ![t] = NoApp]
        /\ checked[t] # NoApp /\ state[t] = "none"
    BY <1>2 DEF CreateTransaction
  <2>2. payments[t] = 0 /\ corrections[t] = 0
    BY <1>I, <1>T, <2>1 DEF LedgerMatchesProvider
  <2>3. LedgerMatchesProvider' /\ ManualNeedsTwo'
    BY <1>I, <1>T, <2>1, <2>2 DEF LedgerMatchesProvider, ManualNeedsTwo
  <2>4. DiscrepancyRegistered'
    BY <1>I, <1>T, <2>1, <2>2 DEF DiscrepancyRegistered
  <2>5. RowsAreBilled'
    <3>1. \A x : Billed(x)' <=> Billed(x)
      BY <2>1 DEF Billed, FreeSettlement
    <3>2. \A r \in Sources : checked'[r] # NoApp => Billed(checked'[r]) /\ state'[r] = "none"
      BY <1>T, <1>I, <2>1 DEF RowsAreBilled
    <3>3. \A r \in Txns :
            state'[r] # "none" => Billed(inv'[r]) /\ amount'[r] = Price[inv'[r]]
      BY <1>T, <1>I, <2>1 DEF RowsAreBilled
    <3>4. \A c \in Confs : /\ inv'[c] = inv[c] /\ amount'[c] = amount[c]
                           /\ checked'[c] = checked[c]
      BY <1>T, <2>1
    <3> QED  BY <1>I, <2>1, <3>1, <3>2, <3>3, <3>4 DEF RowsAreBilled
  <2>6. SettledOnce'
    BY <1>T, <2>1, <2>2, BookedKept
  <2> QED  BY <2>3, <2>4, <2>5, <2>6
<1>3. CASE CreateTransactionExisting(t) \/ PerformTransaction(t, TRUE)
  <2>1. /\ UNCHANGED <<invoice, inv, amount, checked, payments, corrections, recon, confVars>>
        /\ state' = [state EXCEPT ![t] = "-1"]
        /\ state[t] = "1"
    BY <1>3 DEF CreateTransactionExisting, PerformTransaction
  <2>2. LedgerMatchesProvider' /\ ManualNeedsTwo' /\ DiscrepancyRegistered'
    BY <1>I, <1>T, <2>1 DEF LedgerMatchesProvider, ManualNeedsTwo, DiscrepancyRegistered
  <2>3. RowsAreBilled'
    BY <1>T, <1>I, <2>1 DEF RowsAreBilled, Billed, FreeSettlement
  <2> QED  BY <2>1, <2>2, <2>3, BookedKept
<1> QED  BY <1>1, <1>2, <1>3

\* A cancellation, before the money or after it.
LEMMA CancelTransactionStep ==
  ASSUME Inductive, NEW t \in Txns, CancelTransaction(t)
  PROVE  /\ LedgerMatchesProvider' /\ RowsAreBilled' /\ SettledOnce'
         /\ ManualNeedsTwo' /\ DiscrepancyRegistered'
<1> USE DEF confVars, bookVars, appVars, STATE_CREATED, STATE_PERFORMED,
            STATE_CANCELLED_BEFORE, STATE_CANCELLED_AFTER
<1>T. /\ t \in Sources /\ t \notin Confs
      /\ state \in [Sources -> STATES] /\ recon \in [Sources -> RECONCILIATION_STATUSES]
      /\ corrections \in [Sources -> Nat]
      /\ Confs \subseteq Sources /\ Txns \subseteq Sources
  BY SettlementAssumption DEF Inductive, TypeOK, Sources
<1>I. /\ LedgerMatchesProvider /\ RowsAreBilled /\ ManualNeedsTwo /\ DiscrepancyRegistered
  BY DEF Inductive
<1>1. /\ UNCHANGED <<invoice, inv, amount, payments, checked, conf, maker, checker>>
      /\ \/ /\ state[t] = "1" /\ state' = [state EXCEPT ![t] = "-1"]
            /\ UNCHANGED <<corrections, recon>>
         \/ /\ state[t] = "2" /\ state' = [state EXCEPT ![t] = "-2"]
            /\ corrections' = [corrections EXCEPT ![t] = 1]
            /\ recon' = [recon EXCEPT ![t] = "open"]
  <2>1. CASE state[t] = "1"
    BY <2>1 DEF CancelTransaction
  <2>2. CASE state[t] = "2"
    <3>1. payments[t] = 1 /\ ~ (corrections[t] > 0)
      BY <1>I, <1>T, <2>2 DEF LedgerMatchesProvider
    <3> QED  BY <2>2, <3>1 DEF CancelTransaction, RecordReversal
  <2> QED  BY <2>1, <2>2 DEF CancelTransaction
<1>2. LedgerMatchesProvider'
  BY <1>I, <1>T, <1>1 DEF LedgerMatchesProvider
<1>3. ManualNeedsTwo'
  BY <1>I, <1>T, <1>1 DEF ManualNeedsTwo
<1>4. DiscrepancyRegistered'
  BY <1>I, <1>T, <1>1 DEF DiscrepancyRegistered
<1>5. RowsAreBilled'
  BY <1>I, <1>T, <1>1 DEF RowsAreBilled, Billed, FreeSettlement
<1> QED  BY <1>1, <1>2, <1>3, <1>4, <1>5, BookedKept

\* The accountants' steps that take no money: the two halves of a filing, and a rejection.
LEMMA FilingStep ==
  ASSUME Inductive, NEW c \in Confs,
         \/ \E a \in Apps : BeginFiling(c, a)
         \/ \E k \in Staff, n \in Amounts : FileManualConfirmation(c, k, n)
         \/ \E k \in Staff : CheckManualConfirmation(c, k, FALSE)
  PROVE  /\ LedgerMatchesProvider' /\ RowsAreBilled' /\ SettledOnce'
         /\ ManualNeedsTwo' /\ DiscrepancyRegistered'
<1> USE DEF confVars, bookVars, appVars, STATE_CREATED, STATE_PERFORMED,
            STATE_CANCELLED_BEFORE, STATE_CANCELLED_AFTER
<1>T. /\ c \in Sources /\ c \notin Txns
      /\ inv \in [Sources -> Apps \cup {NoApp}] /\ amount \in [Sources -> Nat]
      /\ state \in [Sources -> STATES] /\ checked \in [Sources -> Apps \cup {NoApp}]
      /\ conf \in [Confs -> MANUAL_CONFIRMATION_STATUSES]
      /\ maker \in [Confs -> Staff \cup {Nobody}] /\ checker \in [Confs -> Staff \cup {Nobody}]
      /\ recon \in [Sources -> RECONCILIATION_STATUSES]
      /\ Confs \subseteq Sources /\ Txns \subseteq Sources
  BY SettlementAssumption DEF Inductive, TypeOK, Sources
<1>I. /\ LedgerMatchesProvider /\ RowsAreBilled /\ ManualNeedsTwo /\ DiscrepancyRegistered
      /\ \A b \in Apps : invoice[b] = "pending" => ~ FreeSettlement(b)
  BY DEF Inductive, RowsAreBilled, Billed
<1>1. CASE \E a \in Apps : BeginFiling(c, a)
  <2> PICK a \in Apps : BeginFiling(c, a)
    BY <1>1
  <2>1. /\ UNCHANGED <<invoice, inv, state, amount, payments, corrections, recon,
                       conf, maker, checker>>
        /\ checked' = [checked EXCEPT ![c] = a]
        /\ invoice[a] = "pending" /\ conf[c] = "none"
    BY DEF BeginFiling
  <2>2. state[c] = "none"
    BY <1>I, <2>1 DEF ManualNeedsTwo
  <2>3. RowsAreBilled'
    BY <1>T, <1>I, <2>1, <2>2 DEF RowsAreBilled, Billed, FreeSettlement
  <2>4. LedgerMatchesProvider' /\ ManualNeedsTwo' /\ DiscrepancyRegistered'
    BY <1>I, <2>1 DEF LedgerMatchesProvider, ManualNeedsTwo, DiscrepancyRegistered
  <2> QED  BY <2>1, <2>3, <2>4, BookedKept
<1>2. CASE \E k \in Staff, n \in Amounts : FileManualConfirmation(c, k, n)
  <2> PICK k \in Staff, n \in Amounts : FileManualConfirmation(c, k, n)
    BY <1>2
  <2> DEFINE a == checked[c]
  <2>1. /\ UNCHANGED <<invoice, state, payments, corrections, checker>>
        /\ inv' = [inv EXCEPT ![c] = a]
        /\ amount' = [amount EXCEPT ![c] = n]
        /\ conf' = [conf EXCEPT ![c] = "pending_check"]
        /\ maker' = [maker EXCEPT ![c] = k]
        /\ checked' = [checked EXCEPT ![c] = NoApp]
        /\ recon' = [recon EXCEPT ![c] = IF n # Price[a] THEN "open" ELSE @]
        /\ a # NoApp
    BY DEF FileManualConfirmation
  <2>2. conf[c] = "none" /\ state[c] = "none" /\ payments[c] = 0 /\ corrections[c] = 0
    BY <1>I, <1>T, <2>1 DEF RowsAreBilled, LedgerMatchesProvider
  <2>3. LedgerMatchesProvider'
    BY <1>I, <2>1 DEF LedgerMatchesProvider
  <2>4. ManualNeedsTwo'
    BY <1>I, <1>T, <2>1, <2>2 DEF ManualNeedsTwo
  <2>5. DiscrepancyRegistered'
    <3>1. \A r \in Sources \ {c} : UNCHANGED <<inv[r], amount[r], recon[r]>>
      BY <1>T, <2>1
    <3>2. inv'[c] = a /\ amount'[c] = n /\ (n # Price[a] => recon'[c] # "none")
      BY <1>T, <2>1
    <3> QED  BY <1>I, <2>1, <2>2, <3>1, <3>2 DEF DiscrepancyRegistered
  <2>6. RowsAreBilled'
    <3>1. \A x : Billed(x)' <=> Billed(x)
      BY <2>1 DEF Billed, FreeSettlement
    <3>2. \A r \in Sources : checked'[r] # NoApp => Billed(checked'[r]) /\ state'[r] = "none"
      BY <1>T, <1>I, <2>1 DEF RowsAreBilled
    <3>3. \A t \in Txns : inv'[t] = inv[t] /\ amount'[t] = amount[t]
      BY <1>T, <2>1
    <3>4. Billed(a)
      BY <1>T, <1>I, <2>1 DEF RowsAreBilled
    <3>5. \A d \in Confs :
            /\ checked'[d] # NoApp => conf'[d] = "none"
            /\ conf'[d] # "none" => Billed(inv'[d])
            /\ conf'[d] # "none" => maker'[d] \in Staff
      BY <1>T, <1>I, <2>1, <3>4 DEF RowsAreBilled
    <3> QED  BY <1>I, <2>1, <3>1, <3>2, <3>3, <3>5 DEF RowsAreBilled
  <2>7. SettledOnce'
    BY <1>T, <2>1, <2>2, BookedKept
  <2> QED  BY <2>3, <2>4, <2>5, <2>6, <2>7
<1>3. CASE \E k \in Staff : CheckManualConfirmation(c, k, FALSE)
  <2> PICK k \in Staff : CheckManualConfirmation(c, k, FALSE)
    BY <1>3
  <2>1. /\ UNCHANGED <<invoice, inv, state, amount, payments, corrections, recon, checked,
                       maker>>
        /\ conf' = [conf EXCEPT ![c] = "rejected"]
        /\ checker' = [checker EXCEPT ![c] = k]
        /\ conf[c] = "pending_check" /\ maker[c] # k
    BY DEF CheckManualConfirmation
  <2>2. maker[c] \in Staff
    BY <1>I, <2>1 DEF RowsAreBilled
  <2>3. LedgerMatchesProvider' /\ DiscrepancyRegistered'
    BY <1>I, <2>1 DEF LedgerMatchesProvider, DiscrepancyRegistered
  <2>4. ManualNeedsTwo'
    BY <1>I, <1>T, <2>1, <2>2 DEF ManualNeedsTwo
  <2>5. RowsAreBilled'
    BY <1>T, <1>I, <2>1 DEF RowsAreBilled, Billed, FreeSettlement
  <2> QED  BY <2>1, <2>3, <2>4, <2>5, BookedKept
<1> QED  BY <1>1, <1>2, <1>3

\* A request that dies, and a discrepancy that is resolved, take nothing back.
LEMMA AbandonOrResolveStep ==
  ASSUME Inductive, NEW s \in Sources, Abandon(s) \/ ResolveReconciliation(s)
  PROVE  /\ LedgerMatchesProvider' /\ RowsAreBilled' /\ SettledOnce'
         /\ ManualNeedsTwo' /\ DiscrepancyRegistered'
<1> USE DEF confVars, bookVars, appVars
<1>T. /\ checked \in [Sources -> Apps \cup {NoApp}]
      /\ recon \in [Sources -> RECONCILIATION_STATUSES]
      /\ Confs \subseteq Sources /\ Txns \subseteq Sources
  BY DEF Inductive, TypeOK, Sources
<1>I. /\ LedgerMatchesProvider /\ RowsAreBilled /\ ManualNeedsTwo /\ DiscrepancyRegistered
  BY DEF Inductive
<1>1. /\ UNCHANGED <<invoice, inv, state, amount, payments, corrections, conf, maker, checker>>
      /\ \A r \in Sources : /\ checked'[r] \in {checked[r], NoApp}
                            /\ recon[r] # "none" => recon'[r] # "none"
  BY <1>T DEF Abandon, ResolveReconciliation
<1>2. LedgerMatchesProvider' /\ ManualNeedsTwo'
  BY <1>I, <1>1 DEF LedgerMatchesProvider, ManualNeedsTwo
<1>3. DiscrepancyRegistered'
  BY <1>I, <1>1 DEF DiscrepancyRegistered
<1>4. RowsAreBilled'
  BY <1>I, <1>T, <1>1 DEF RowsAreBilled, Billed, FreeSettlement
<1> QED  BY <1>1, <1>2, <1>3, <1>4, BookedKept

\* The heart of the matter: a source that has booked nothing is booked on an invoice that
\* is still pending, so on one nobody's money was booked on.
LEMMA MoneyIsBookedOnce ==
  ASSUME Inductive, NEW s \in Sources, NEW a \in Apps,
         invoice[a] = "pending", inv[s] = a, payments[s] = 0,
         application' = [application EXCEPT ![a] = "PAID"],
         invoice' = [invoice EXCEPT ![a] = "paid"],
         payments' = [payments EXCEPT ![s] = 1],
         inv' = inv
  PROVE  InvoiceFollowsApplication' /\ NothingHalfDone' /\ SettledOnce'
<1>T. /\ application \in [Apps -> APPLICATION_STATUSES] /\ invoice \in [Apps -> INVOICE_STATUSES]
      /\ payments \in [Sources -> Nat]
  BY DEF Inductive, TypeOK
<1>1. InvoiceFollowsApplication' /\ NothingHalfDone'
  BY <1>T DEF Inductive, InvoiceFollowsApplication, NothingHalfDone, UNDECIDED_STATUSES
<1>2. Booked(a) = {}
  BY DEF Inductive, SettledOnce
<1>3. Booked(a)' = {s}
  BY <1>T, <1>2 DEF Booked
<1>4. \A b \in Apps \ {a} : Booked(b)' = Booked(b) /\ invoice'[b] = invoice[b]
  BY <1>T DEF Booked
<1>5. invoice'[a] = "paid"
  BY <1>T
<1>6. SettledOnce'
  BY <1>3, <1>4, <1>5 DEF Inductive, SettledOnce, FreeSettlement
<1> QED  BY <1>1, <1>6

\* Payme's money: PerformTransaction in time.
LEMMA PerformStep ==
  ASSUME Inductive, NEW t \in Txns, PerformTransaction(t, FALSE)
  PROVE  /\ InvoiceFollowsApplication' /\ NothingHalfDone'
         /\ LedgerMatchesProvider' /\ RowsAreBilled' /\ SettledOnce'
         /\ ManualNeedsTwo' /\ DiscrepancyRegistered'
<1> USE DEF confVars, bookVars, STATE_CREATED, STATE_PERFORMED,
            STATE_CANCELLED_BEFORE, STATE_CANCELLED_AFTER
<1>T. /\ t \in Sources /\ t \notin Confs
      /\ state \in [Sources -> STATES] /\ payments \in [Sources -> Nat]
      /\ invoice \in [Apps -> INVOICE_STATUSES]
      /\ Confs \subseteq Sources /\ Txns \subseteq Sources
  BY SettlementAssumption DEF Inductive, TypeOK, Sources
<1>I. /\ LedgerMatchesProvider /\ RowsAreBilled /\ ManualNeedsTwo /\ DiscrepancyRegistered
  BY DEF Inductive
<1> DEFINE a == inv[t]
<1>1. /\ UNCHANGED <<inv, amount, recon, checked, conf, maker, checker, corrections>>
      /\ state[t] = "1" /\ invoice[a] = "pending"
      /\ state' = [state EXCEPT ![t] = "2"]
      /\ application' = [application EXCEPT ![a] = "PAID"]
      /\ invoice' = [invoice EXCEPT ![a] = "paid"]
      /\ payments' = [payments EXCEPT ![t] = @ + 1]
  BY DEF PerformTransaction, ConfirmPayment, SetInvoice, SetStatus
<1>2. a \in Apps /\ amount[t] = Price[a]
  BY <1>I, <1>1 DEF RowsAreBilled, Billed
<1>3. payments[t] = 0 /\ corrections[t] = 0
  BY <1>I, <1>T, <1>1 DEF LedgerMatchesProvider
<1>4. payments' = [payments EXCEPT ![t] = 1]
  BY <1>1, <1>3
<1>5. InvoiceFollowsApplication' /\ NothingHalfDone' /\ SettledOnce'
  BY <1>T, <1>1, <1>2, <1>3, <1>4, MoneyIsBookedOnce
<1>6. LedgerMatchesProvider'
  BY <1>I, <1>T, <1>1, <1>3, <1>4 DEF LedgerMatchesProvider
<1>7. ManualNeedsTwo'
  BY <1>I, <1>T, <1>1 DEF ManualNeedsTwo
<1>8. DiscrepancyRegistered'
  BY <1>I, <1>T, <1>1, <1>2, <1>3, <1>4 DEF DiscrepancyRegistered
<1>9. RowsAreBilled'
  <2>1. \A x : Billed(x) => Billed(x)'
    BY <1>T, <1>1 DEF Billed, FreeSettlement
  <2>2. \A b \in Apps : invoice'[b] = "pending" => invoice[b] = "pending"
    BY <1>T, <1>1
  <2>3. \A r \in Sources : state[r] = "none" => state'[r] = "none"
    BY <1>T, <1>1
  <2>4. \A r \in Txns : state'[r] # "none" => state[r] # "none"
    BY <1>T, <1>1
  <2> QED  BY <1>I, <1>T, <1>1, <2>1, <2>2, <2>3, <2>4 DEF RowsAreBilled
<1> QED  BY <1>5, <1>6, <1>7, <1>8, <1>9

\* The accountants' money: a confirmation that is confirmed.
LEMMA ConfirmStep ==
  ASSUME Inductive, NEW c \in Confs, NEW k \in Staff, CheckManualConfirmation(c, k, TRUE)
  PROVE  /\ InvoiceFollowsApplication' /\ NothingHalfDone'
         /\ LedgerMatchesProvider' /\ RowsAreBilled' /\ SettledOnce'
         /\ ManualNeedsTwo' /\ DiscrepancyRegistered'
<1> USE DEF confVars, bookVars, STATE_CREATED, STATE_PERFORMED,
            STATE_CANCELLED_BEFORE, STATE_CANCELLED_AFTER
<1>T. /\ c \in Sources /\ c \notin Txns
      /\ state \in [Sources -> STATES] /\ payments \in [Sources -> Nat]
      /\ invoice \in [Apps -> INVOICE_STATUSES]
      /\ conf \in [Confs -> MANUAL_CONFIRMATION_STATUSES]
      /\ checker \in [Confs -> Staff \cup {Nobody}]
      /\ Confs \subseteq Sources /\ Txns \subseteq Sources
  BY SettlementAssumption DEF Inductive, TypeOK, Sources
<1>I. /\ LedgerMatchesProvider /\ RowsAreBilled /\ ManualNeedsTwo /\ DiscrepancyRegistered
  BY DEF Inductive
<1> DEFINE a == inv[c]
<1>1. /\ UNCHANGED <<inv, amount, recon, checked, maker, corrections>>
      /\ conf[c] = "pending_check" /\ invoice[a] = "pending" /\ maker[c] # k
      /\ conf' = [conf EXCEPT ![c] = "confirmed"]
      /\ checker' = [checker EXCEPT ![c] = k]
      /\ state' = [state EXCEPT ![c] = "2"]
      /\ application' = [application EXCEPT ![a] = "PAID"]
      /\ invoice' = [invoice EXCEPT ![a] = "paid"]
      /\ payments' = [payments EXCEPT ![c] = @ + 1]
  BY DEF CheckManualConfirmation, ConfirmAndPay, ConfirmPayment, SetInvoice, SetStatus
<1>2. a \in Apps /\ maker[c] \in Staff /\ checked[c] = NoApp
  BY <1>I, <1>T, <1>1 DEF RowsAreBilled, Billed
<1>3. state[c] = "none" /\ payments[c] = 0 /\ corrections[c] = 0
  <2>1. state[c] = "none"
    BY <1>I, <1>T, <1>1 DEF ManualNeedsTwo
  <2> QED  BY <1>I, <1>T, <2>1 DEF LedgerMatchesProvider
<1>4. payments' = [payments EXCEPT ![c] = 1]
  BY <1>1, <1>3
<1>5. InvoiceFollowsApplication' /\ NothingHalfDone' /\ SettledOnce'
  BY <1>T, <1>1, <1>2, <1>3, <1>4, MoneyIsBookedOnce
<1>6. LedgerMatchesProvider'
  BY <1>I, <1>T, <1>1, <1>3, <1>4 DEF LedgerMatchesProvider
<1>7. ManualNeedsTwo'
  BY <1>I, <1>T, <1>1, <1>2 DEF ManualNeedsTwo
<1>8. DiscrepancyRegistered'
  BY <1>I, <1>T, <1>1, <1>2, <1>3, <1>4 DEF DiscrepancyRegistered
<1>9. RowsAreBilled'
  <2>1. \A x : Billed(x) => Billed(x)'
    BY <1>T, <1>1 DEF Billed, FreeSettlement
  <2>2. \A b \in Apps : invoice'[b] = "pending" => invoice[b] = "pending"
    BY <1>T, <1>1
  <2>3. \A r \in Sources \ {c} : state'[r] = state[r]
    BY <1>T, <1>1
  <2>4. \A d \in Confs : conf'[d] # "none" <=> conf[d] # "none"
    BY <1>T, <1>1
  <2> QED  BY <1>I, <1>T, <1>1, <1>2, <2>1, <2>2, <2>3, <2>4 DEF RowsAreBilled
<1> QED  BY <1>5, <1>6, <1>7, <1>8, <1>9

-----------------------------------------------------------------------------
\* Every step, or stutter, keeps the invariant. (An implication, so that a module that
\* instantiates this one can cite it.)
LEMMA InductiveStep == Inductive /\ [Next]_vars => Inductive'
<1> SUFFICES ASSUME Inductive, [Next]_vars PROVE Inductive'
  OBVIOUS
<1>T. TypeOK'
  BY TypeStep DEF Inductive
<1> SUFFICES /\ InvoiceFollowsApplication' /\ NothingHalfDone'
             /\ LedgerMatchesProvider' /\ RowsAreBilled' /\ SettledOnce'
             /\ ManualNeedsTwo' /\ DiscrepancyRegistered'
  BY <1>T DEF Inductive
<1>1. CASE \E a \in Apps :
             \/ \E to \in APPLICATION_STATUSES : Review(a, to) \/ AfterPayment(a, to)
             \/ Approve(a) \/ Cancel(a) \/ InvoiceFallsDue(a)
  BY <1>1, ApplicationStep
<1>2. CASE \E t \in Txns :
             \/ \E a \in Apps : CheckInvoiceForPayment(t, a)
             \/ CreateTransaction(t)
             \/ CreateTransactionExisting(t)
             \/ PerformTransaction(t, TRUE)
  <2>1. UNCHANGED <<application, invoice>>
    BY <1>2 DEF CheckInvoiceForPayment, CreateTransaction, CreateTransactionExisting,
                PerformTransaction, appVars
  <2> QED  BY <1>2, <2>1, ProviderStep, ApplicationsKept
<1>3. CASE \E t \in Txns : CancelTransaction(t)
  <2>1. UNCHANGED <<application, invoice>>
    BY <1>3 DEF CancelTransaction, appVars
  <2> QED  BY <1>3, <2>1, CancelTransactionStep, ApplicationsKept
<1>4. CASE \E t \in Txns : PerformTransaction(t, FALSE)
  BY <1>4, PerformStep
<1>5. CASE \E c \in Confs :
             \/ \E a \in Apps : BeginFiling(c, a)
             \/ \E k \in Staff, n \in Amounts : FileManualConfirmation(c, k, n)
             \/ \E k \in Staff : CheckManualConfirmation(c, k, FALSE)
  <2>1. UNCHANGED <<application, invoice>>
    BY <1>5 DEF BeginFiling, FileManualConfirmation, CheckManualConfirmation, appVars
  <2> QED  BY <1>5, <2>1, FilingStep, ApplicationsKept
<1>6. CASE \E c \in Confs, k \in Staff : CheckManualConfirmation(c, k, TRUE)
  BY <1>6, ConfirmStep
<1>7. CASE \E s \in Sources : Abandon(s) \/ ResolveReconciliation(s)
  <2>1. UNCHANGED <<application, invoice>>
    BY <1>7 DEF Abandon, ResolveReconciliation, appVars
  <2> QED  BY <1>7, <2>1, AbandonOrResolveStep, ApplicationsKept
<1>8. CASE \E S \in SUBSET Apps : ExpirySweep(S)
  BY <1>8, SweepStep
<1>9. CASE UNCHANGED vars
  <2>1. UNCHANGED sourceVars /\ UNCHANGED <<application, invoice>>
    BY <1>9 DEF vars, sourceVars, confVars, bookVars
  <2>2. \A b \in Apps : invoice[b] = "pending" => ~ FreeSettlement(b)
    BY DEF Inductive, RowsAreBilled, Billed
  <2> QED  BY <2>1, <2>2, RowsKept, ApplicationsKept
<1> QED
  BY <1>1, <1>2, <1>3, <1>4, <1>5, <1>6, <1>7, <1>8, <1>9 DEF Next

\* A row that was inserted keeps what it was inserted with; an invoice stays, and stays
\* overdue.
Stays ==
  /\ \A t \in Txns : state[t] # "none" =>
       state'[t] # "none" /\ inv'[t] = inv[t] /\ amount'[t] = amount[t]
  /\ \A c \in Confs : conf[c] # "none" =>
       /\ conf'[c] # "none" /\ inv'[c] = inv[c] /\ amount'[c] = amount[c]
       /\ maker'[c] = maker[c]
  /\ \A a \in Apps : invoice[a] # "none" => invoice'[a] # "none" /\ (overdue[a] => overdue'[a])

\* No step moves a row to another invoice or takes an invoice back.
LEMMA RowsStay == Inductive /\ [Next]_vars => Stays
<1> SUFFICES ASSUME Inductive, [Next]_vars PROVE Stays
  OBVIOUS
<1> USE DEF Inductive, TypeOK, Stays, Sources, SetInvoice, appVars, confVars, bookVars,
            sourceVars, STATE_CREATED, STATE_PERFORMED, STATE_CANCELLED_BEFORE,
            STATE_CANCELLED_AFTER
<1>0. Txns \cap Confs = {}
  BY SettlementAssumption
<1>1. CASE \E a \in Apps : \/ \E to \in APPLICATION_STATUSES : Review(a, to) \/ AfterPayment(a, to)
                         \/ Cancel(a) \/ InvoiceFallsDue(a)
  BY <1>1 DEF Review, AfterPayment, Cancel, InvoiceFallsDue
<1>2. ASSUME NEW a \in Apps, Approve(a)
      PROVE  Stays
  <2>1. application[a] = "IN_REVIEW"
    BY <1>2, MoveTable DEF Approve
  <2>2. invoice[a] = "none"
    BY <2>1 DEF InvoiceFollowsApplication, UNDECIDED_STATUSES
  <2> QED
    BY <1>2, <2>2 DEF Approve, IssueInvoice, InForce
<1>3. CASE \E t \in Txns : \/ \E a \in Apps : CheckInvoiceForPayment(t, a)
                         \/ CreateTransaction(t) \/ CreateTransactionExisting(t)
                         \/ CancelTransaction(t)
  BY <1>0, <1>3
  DEF CheckInvoiceForPayment, CreateTransaction, CreateTransactionExisting, CancelTransaction
<1>4. CASE \E t \in Txns, late \in BOOLEAN : PerformTransaction(t, late)
  BY <1>4 DEF PerformTransaction, ConfirmPayment
<1>5. CASE \E c \in Confs, a \in Apps : BeginFiling(c, a)
  BY <1>5 DEF BeginFiling
<1>6. ASSUME NEW c \in Confs, NEW k \in Staff, NEW n \in Amounts, FileManualConfirmation(c, k, n)
      PROVE  Stays
  <2>1. conf[c] = "none"
    BY <1>6 DEF FileManualConfirmation, RowsAreBilled
  <2> QED
    BY <1>0, <1>6, <2>1 DEF FileManualConfirmation
<1>7. CASE \E c \in Confs, k \in Staff, approve \in BOOLEAN :
             CheckManualConfirmation(c, k, approve)
  BY <1>0, <1>7 DEF CheckManualConfirmation, ConfirmAndPay, ConfirmPayment
<1>8. CASE \E s \in Sources : Abandon(s) \/ ResolveReconciliation(s)
  BY <1>8 DEF Abandon, ResolveReconciliation
<1>9. CASE \E S \in SUBSET Apps : ExpirySweep(S)
  BY <1>9 DEF ExpirySweep
<1>10. CASE UNCHANGED vars
  BY <1>10 DEF vars
<1> QED
  BY <1>1, <1>2, <1>3, <1>4, <1>5, <1>6, <1>7, <1>8, <1>9, <1>10 DEF Next

\* The inductive invariant holds in every behaviour.
THEOREM InductiveHolds == Spec => []Inductive
<1> QED
  BY InitInductive, InductiveStep, PTL DEF Spec

\* No invoice is settled twice and no unpaid one holds money, for any number of Payme
\* transactions, confirmations and accountants.
THEOREM NoDoubleSettlement == Spec => []SettledOnce
<1>1. Inductive => SettledOnce
  BY DEF Inductive
<1> QED  BY <1>1, InductiveHolds, PTL

\* An application and its invoice agree after every request and every sweep.
THEOREM StatusesAgree == Spec => []InvoiceFollowsApplication
<1>1. Inductive => InvoiceFollowsApplication
  BY DEF Inductive
<1> QED  BY <1>1, InductiveHolds, PTL

\* The ledger holds one payment per performed transaction, reversed once if it was taken
\* back.
THEOREM LedgerIsFaithful == Spec => []LedgerMatchesProvider
<1>1. Inductive => LedgerMatchesProvider
  BY DEF Inductive
<1> QED  BY <1>1, InductiveHolds, PTL

\* Two accountants stand behind every manual payment.
THEOREM FourEyes == Spec => []ManualNeedsTwo
<1>1. Inductive => ManualNeedsTwo
  BY DEF Inductive
<1> QED  BY <1>1, InductiveHolds, PTL

\* Money that differs or left again is in the accountants' register.
THEOREM NoSilentDiscrepancy == Spec => []DiscrepancyRegistered
<1>1. Inductive => DiscrepancyRegistered
  BY DEF Inductive
<1> QED  BY <1>1, InductiveHolds, PTL

\* is_settled_without_payment never mistakes a paid invoice for a free one, or the reverse.
THEOREM FreeIsToldFromPaid == Spec => []FreeSettlementReadsRight
<1>1. Inductive => FreeSettlementReadsRight
  <2> SUFFICES ASSUME Inductive, NEW a \in Apps, invoice[a] = "paid"
               PROVE  IsSettledWithoutPayment(a) <=> Booked(a) = {}
    BY DEF FreeSettlementReadsRight
  <2>1. ASSUME NEW s \in Sources, state[s] # "none", inv[s] = a
        PROVE  ~ FreeSettlement(a)
    <3>1. CASE s \in Txns
      BY <2>1, <3>1 DEF Inductive, RowsAreBilled, Billed
    <3>2. CASE s \in Confs
      BY <2>1, <3>2 DEF Inductive, RowsAreBilled, Billed, ManualNeedsTwo, STATE_PERFORMED
    <3> QED  BY <3>1, <3>2 DEF Sources
  <2>2. ASSUME NEW s \in Booked(a)
        PROVE  state[s] # "none" /\ inv[s] = a
    BY <2>2 DEF Inductive, LedgerMatchesProvider, Booked, STATE_PERFORMED,
                STATE_CANCELLED_AFTER
  <2>3. IsSettledWithoutPayment(a) => Booked(a) = {}
    BY <2>2 DEF IsSettledWithoutPayment, Booked
  <2>4. Booked(a) = {} => FreeSettlement(a)
    BY DEF Inductive, SettledOnce
  <2>5. FreeSettlement(a) => IsSettledWithoutPayment(a)
    BY <2>1 DEF IsSettledWithoutPayment, FreeSettlement
  <2> QED  BY <2>3, <2>4, <2>5
<1> QED  BY <1>1, InductiveHolds, PTL
=============================================================================
