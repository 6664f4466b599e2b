\* One invoice: two Payme transactions, an accountant, the owner and two overlapping
\* sweeps race for it, three sessions at a time.
CONSTANTS
  a1 = a1
  a2 = a2
  t1 = t1
  t2 = t2
  c1 = c1
  c2 = c2
  k1 = k1
  k2 = k2
  r1 = r1
  r2 = r2
  r3 = r3
  Apps = {a1}
  Txns = {t1, t2}
  Confs = {c1}
  Staff = {k1, k2}
  Amounts = {2, 3}
  Price <- MCPrice
  Exempt = {}
  SplitFloor <- MCSplitFloor
  NoApp = NoApp
  Nobody = Nobody
  Sessions = {r1, r2, r3}
  MaxSweeps = 2
SPECIFICATION Spec
SYMMETRY Perms
INVARIANT
  TypeOK
PROPERTY
  AtomicRequests
CHECK_DEADLOCK FALSE
