\* Two heads approve two refunds of one invoice at the same time.  What
\* arrived is not the invoice's amount, so it came over the accountants' door and nobody
\* can reverse it.
CONSTANTS
  f1 = f1
  f2 = f2
  p1 = p1
  p2 = p2
  Leshoz = Leshoz
  NoRefund = NoRefund
  Refunds = {f1, f2}
  Recipients = {p1, p2}
  RuleSets <- MCRuleSets
  Prices = {3}
  Amounts = {2}
  Finals = {2}
SPECIFICATION Spec
INVARIANTS
  RefundFitsCurrentBalance
\* Every refund may be decided, and then nothing is left to do.
CHECK_DEADLOCK FALSE
