\* Two invoices, so that a session that holds one can wait for the other.
CONSTANTS
  a1 = a1
  a2 = a2
  t1 = t1
  t2 = t2
  c1 = c1
  c2 = c2
  k1 = k1
  k2 = k2
  r1 = r1
  r2 = r2
  r3 = r3
  Apps = {a1, a2}
  Txns = {t1}
  Confs = {}
  Staff = {k1, k2}
  Amounts = {2, 3}
  Price <- MCPrice
  Exempt = {}
  SplitFloor <- MCSplitFloor
  NoApp = NoApp
  Nobody = Nobody
  Sessions = {r1, r2}
  MaxSweeps = 2
SPECIFICATION Spec
INVARIANT
  OnlySweepsDeadlock
PROPERTY
  EveryRequestEnds
CHECK_DEADLOCK FALSE
