------------------------------ MODULE Refunds ------------------------------
(***************************************************************************)
(* Money that goes back: the ledger of one invoice, from the payment that  *)
(* fills it through the refunds and the reversal that empty it.  Invoices  *)
(* share neither ledger rows nor refunds.                                  *)
(*                                                                         *)
(* A refund is decided by two people: the accountant stores the amount and *)
(* its breakdown by source, the head approves or rejects.  Approval locks  *)
(* the refund's own row and nothing else; it reads the invoice's ledger,   *)
(* and writes its own rows when it commits.  Everything that touches this  *)
(* ledger in between is another transaction's business.                    *)
(***************************************************************************)
EXTENDS Ledger

CONSTANTS
  Refunds,     \* refunds of the invoice; the code allows any number
  Recipients,  \* configured receivers (payment_recipients)
  RuleSets,    \* the splits an invoice may have frozen at issuance
  Prices,      \* what it may be issued for; 0 settles free of charge
  Amounts,     \* what may arrive for it (a bank document may differ)
  Finals,      \* the amounts an accountant may decide (gt=0)
  NoRefund

Parties == Recipients \cup {Leshoz}

\* rule_matches_kind
Rule == [kind : {"percent"}, recipient : Recipients, percent : 1 .. HUNDRED]
          \cup [kind : {"fixed"}, recipient : Recipients, fixed_amount : Nat \ {0}]

ASSUME RefundsAssumption ==
  /\ IsFiniteSet(Recipients) /\ Leshoz \notin Recipients
  /\ IsFiniteSet(Refunds) /\ NoRefund \notin Refunds
  /\ RuleSets \subseteq Seq(Rule)
  /\ Prices \subseteq Nat
  /\ Amounts \subseteq Nat \ {0}
  /\ Finals \subseteq Nat \ {0}

VARIABLES
  rules,         \* invoice_recipients: the frozen split
  price,         \* invoices.amount
  invoice,       \* invoices.status
  transaction,   \* the one that performed: none, "payme", "manual", or "reversed"
  arrived,       \* its amount
  ledger,        \* allocations of the invoice, oldest first
  status,        \* refunds.status, "none" while no row exists
  final_amount,  \* refunds.final_amount
  components,    \* refund_components: source -> amount, 0 where there is no row
  approving,     \* refunds whose approval has read the ledger and not committed yet
  seen           \* how many rows a refund's last approval read (kept for the properties)

invoiceVars == <<rules, price>>
paymentVars == <<invoice, transaction, arrived>>
decisionVars == <<final_amount, components>>
vars == <<invoiceVars, paymentVars, ledger, status, decisionVars, approving, seen>>

REFUND_STATUSES == {"none", "requested", "in_review", "returned", "rejected"}

\* Where the rows of a kind are, and those of a refund.
Rows(type) == {i \in DOMAIN ledger : ledger[i].entry_type = type}
RowsOf(f) == {i \in DOMAIN ledger : ledger[i].refund = f}
Balance == Total(ledger)

-----------------------------------------------------------------------------
\* An issued invoice: payable, or (price 0) paid at once without a row in the ledger.
Init ==
  /\ rules \in RuleSets
  /\ price \in {p \in Prices : Fits(p, rules)}
  /\ invoice = IF price = 0 THEN "paid" ELSE "pending"
  /\ transaction = "none"
  /\ arrived = 0
  /\ ledger = <<>>
  /\ status = [f \in Refunds |-> "none"]
  /\ final_amount = [f \in Refunds |-> 0]
  /\ components = [f \in Refunds |-> [p \in Parties |-> 0]]
  /\ approving = {}
  /\ seen = [f \in Refunds |-> 0]

-----------------------------------------------------------------------------
(* The payment, as one committed request (Settlement shows that it is one). *)

\* confirm_payment: Payme brings the invoice's amount, a bank document any.
ConfirmPayment(door, amount) ==
  /\ invoice = "pending"
  /\ door = "payme" => amount = price
  /\ Fits(amount, rules)
  /\ invoice' = "paid"
  /\ transaction' = door
  /\ arrived' = amount
  /\ ledger' = ledger \o EntriesForShares(SplitPayment(amount, rules), NoRefund)
  /\ UNCHANGED <<invoiceVars, status, decisionVars, approving, seen>>

ExpireInvoice ==
  /\ invoice = "pending"
  /\ invoice' = "expired"
  /\ UNCHANGED <<invoiceVars, transaction, arrived, ledger, status, decisionVars, approving,
                 seen>>

\* Mutated: the corrections drop the recipient of the rows they negate.
RecordReversalOnLeshoz ==
  /\ transaction = "payme"
  /\ transaction' = "reversed"
  /\ LET paid_rows == SetToSeq(Rows("payment")) IN
       ledger' = ledger \o [n \in DOMAIN paid_rows |->
                   Entry("correction", NoRefund, Leshoz, - ledger[paid_rows[n]].amount)]
  /\ UNCHANGED <<invoiceVars, invoice, arrived, status, decisionVars, approving, seen>>

\* Each row of the payment again, negated.
Corrections ==
  LET paid_rows == SetToSeq(Rows("payment"))
  IN [n \in DOMAIN paid_rows |->
        Entry("correction", NoRefund, ledger[paid_rows[n]].recipient,
              - ledger[paid_rows[n]].amount)]

\* record_reversal: Payme took a performed transaction back.
RecordReversal ==
  /\ transaction = "payme"
  /\ transaction' = "reversed"
  /\ ledger' = ledger \o Corrections
  /\ UNCHANGED <<invoiceVars, invoice, arrived, status, decisionVars, approving, seen>>

-----------------------------------------------------------------------------
(* A refund.                                                                *)

\* request_refund asks nothing of the invoice but that it exists.
RequestRefund(f) ==
  /\ status[f] = "none"
  /\ status' = [status EXCEPT ![f] = "requested"]
  /\ UNCHANGED <<invoiceVars, paymentVars, ledger, decisionVars, approving, seen>>

\* available_sources_for: whoever the frozen split names, and always the leshoz.
AvailableSources == {Leshoz} \cup {rules[i].recipient : i \in DOMAIN rules}

\* breakdown_is_complete
BreakdownIsComplete(amount, parts) == SumFunctionOnSet(parts, Parties) = amount

SubmitRefundDecision(f, amount, parts) ==
  /\ status[f] = "requested"
  /\ \A p \in Parties \ AvailableSources : parts[p] = 0
  /\ BreakdownIsComplete(amount, parts)
  /\ status' = [status EXCEPT ![f] = "in_review"]
  /\ final_amount' = [final_amount EXCEPT ![f] = amount]
  /\ components' = [components EXCEPT ![f] = parts]
  /\ UNCHANGED <<invoiceVars, paymentVars, ledger, approving, seen>>

\* Mutated: the amount is held against the payment, not against what is left of it.
BeginApprovalAgainstPayment(f) ==
  /\ status[f] = "in_review"
  /\ f \notin approving
  /\ BreakdownIsComplete(final_amount[f], components[f])
  /\ invoice = "paid"
  /\ final_amount[f] <= arrived
  /\ approving' = approving \cup {f}
  /\ seen' = [seen EXCEPT ![f] = Len(ledger)]
  /\ UNCHANGED <<invoiceVars, paymentVars, ledger, status, decisionVars>>

\* approve_refund, resolution "returned", up to its last read: the refund is locked, the
\* invoice is paid, and the balance covers the amount.
BeginApproval(f) ==
  /\ status[f] = "in_review"
  /\ f \notin approving
  /\ BreakdownIsComplete(final_amount[f], components[f])
  /\ invoice = "paid"
  /\ final_amount[f] <= Balance
  /\ approving' = approving \cup {f}
  /\ seen' = [seen EXCEPT ![f] = Len(ledger)]
  /\ UNCHANGED <<invoiceVars, paymentVars, ledger, status, decisionVars>>

\* One negative row per component, in no particular order.
RefundEntries(f) ==
  LET sources == SetToSeq({p \in Parties : components[f][p] > 0})
  IN [i \in DOMAIN sources |->
        Entry("refund", f, sources[i], - components[f][sources[i]])]

\* Mutated: the refund stays in review, ready to be approved again.
CommitApprovalInReview(f) ==
  /\ f \in approving
  /\ ledger' = ledger \o RefundEntries(f)
  /\ approving' = approving \ {f}
  /\ UNCHANGED <<invoiceVars, paymentVars, status, decisionVars, seen>>

\* ... and its writes.
CommitApproval(f) ==
  /\ f \in approving
  /\ ledger' = ledger \o RefundEntries(f)
  /\ status' = [status EXCEPT ![f] = "returned"]
  /\ approving' = approving \ {f}
  /\ UNCHANGED <<invoiceVars, paymentVars, decisionVars, seen>>

\* The request failed after its reads: nothing is left of it.
AbortApproval(f) ==
  /\ f \in approving
  /\ approving' = approving \ {f}
  /\ UNCHANGED <<invoiceVars, paymentVars, ledger, status, decisionVars, seen>>

\* Mutated: a status the table does not know.
RejectRefundAsCancelled(f) ==
  /\ status[f] = "in_review"
  /\ f \notin approving
  /\ status' = [status EXCEPT ![f] = "cancelled"]
  /\ UNCHANGED <<invoiceVars, paymentVars, ledger, decisionVars, approving, seen>>

\* resolution "rejected", under the same lock.
RejectRefund(f) ==
  /\ status[f] = "in_review"
  /\ f \notin approving
  /\ status' = [status EXCEPT ![f] = "rejected"]
  /\ UNCHANGED <<invoiceVars, paymentVars, ledger, decisionVars, approving, seen>>

-----------------------------------------------------------------------------
Next ==
  \/ \E door \in {"payme", "manual"}, amount \in Amounts : ConfirmPayment(door, amount)
  \/ ExpireInvoice
  \/ RecordReversal
  \/ \E f \in Refunds :
       \/ RequestRefund(f)
       \/ \E amount \in Finals : \E parts \in [Parties -> 0 .. amount] :
            SubmitRefundDecision(f, amount, parts)
       \/ BeginApproval(f)
       \/ CommitApproval(f)
       \/ AbortApproval(f)
       \/ RejectRefund(f)

Spec == Init /\ [][Next]_vars

-----------------------------------------------------------------------------
(* Properties.                                                              *)

LedgerRow == [entry_type : {"payment", "correction", "refund"},
              refund : Refunds \cup {NoRefund}, recipient : Parties, amount : Int]

TypeOK ==
  /\ rules \in RuleSets /\ price \in Prices
  /\ invoice \in {"pending", "paid", "expired"}
  /\ transaction \in {"none", "payme", "manual", "reversed"}
  /\ arrived \in Nat
  /\ ledger \in Seq(LedgerRow)
  /\ status \in [Refunds -> REFUND_STATUSES]
  /\ final_amount \in [Refunds -> Nat]
  /\ components \in [Refunds -> [Parties -> Nat]]
  /\ approving \subseteq Refunds
  /\ seen \in [Refunds -> Nat]

\* The parts sum back to the payment and nobody is booked less than nothing: the money in
\* the ledger is the money that arrived, whatever the rules floor away.
SplitLosesNothing ==
  /\ Booked(ledger, Rows("payment")) = arrived
  /\ \A i \in Rows("payment") : ledger[i].amount >= 0

\* A refund is in the ledger exactly once, in full, and only if it was returned, whatever
\* approvals, rejections and failed requests crossed.
RefundBookedOnce ==
  \A f \in Refunds :
    Booked(ledger, RowsOf(f)) = IF status[f] = "returned" THEN - final_amount[f] ELSE 0

\* "This transaction's own entries always cancel out", recipient by recipient, whatever
\* refunds were booked between the payment and its reversal.
ReversalCancelsPayment ==
  \A p \in Parties :
    LET mine == {i \in Rows("payment") \cup Rows("correction") : ledger[i].recipient = p}
    IN transaction = "reversed" => Booked(ledger, mine) = 0

\* Where a returned refund's rows end, and what the ledger added up to there.
LastRow(f) == CHOOSE i \in RowsOf(f) : \A j \in RowsOf(f) : j <= i
BalanceAfter(f) == Booked(ledger, 1 .. LastRow(f))

\* No row came between what the approval of f read and what it wrote.
SawAll(f) == seen[f] = LastRow(f) - Cardinality(RowsOf(f))

\* A refund approved while nothing else touches the ledger leaves a balance of zero or
\* more: no free, unpaid, under-paid, reversed or already refunded invoice pays twice.
FreshApprovalFits ==
  \A f \in Refunds : status[f] = "returned" /\ SawAll(f) => BalanceAfter(f) >= 0

\* approve_refund: "refuses ... when row.final_amount exceeds the invoice's CURRENT ledger
\* balance".
RefundFitsCurrentBalance ==
  \A f \in Refunds : status[f] = "returned" => BalanceAfter(f) >= 0

\* record_reversal: "the INVOICE's whole ledger sums to 0.00 too, as long as only one
\* transaction ever performed against it", even if no two requests overlapped.
ReversalEmptiesLedger ==
  (transaction = "reversed" /\ \A f \in Refunds : status[f] = "returned" => SawAll(f))
    => Balance = 0
=============================================================================
