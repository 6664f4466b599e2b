\* Two refunds and a reversal of an invoice, with every split.
CONSTANTS
  f1 = f1
  f2 = f2
  p1 = p1
  p2 = p2
  Leshoz = Leshoz
  NoRefund = NoRefund
  Refunds = {f1, f2}
  Recipients = {p1, p2}
  RuleSets <- MCRuleSets
  Prices = {0, 3}
  Amounts = {1, 2, 3}
  Finals = {1, 3}
SPECIFICATION Spec
INVARIANTS
  TypeOK
  SplitLosesNothing
  RefundBookedOnce
  ReversalCancelsPayment
  FreshApprovalFits
\* Every refund may be decided, and then nothing is left to do.
CHECK_DEADLOCK FALSE
