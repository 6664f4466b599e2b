\* Two Payme transactions and two manual confirmations compete for the money of a
\* billed application, beside one that settles free of charge.
CONSTANTS
  billed = billed
  free = free
  t1 = t1
  t2 = t2
  c1 = c1
  c2 = c2
  k1 = k1
  k2 = k2
  Apps = {billed, free}
  Txns = {t1, t2}
  Confs = {c1, c2}
  Staff = {k1, k2}
  Amounts = {2, 3}
  Price <- MCPrice
  Exempt = {free}
  SplitFloor <- MCSplitFloor
  NoApp = NoApp
  Nobody = Nobody
SPECIFICATION Spec
INVARIANTS
  TypeOK
  Inductive
  InvoiceFollowsApplication
  SettledOnce
  LedgerMatchesProvider
  ManualNeedsTwo
  DiscrepancyRegistered
  FreeSettlementReadsRight
PROPERTY
  OverdueIsSettled
\* Every application may reach its end, and then nothing is left to do.
CHECK_DEADLOCK FALSE
