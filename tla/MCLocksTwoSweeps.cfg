\* Two sweeps overlap: a leader learns up to a minute late that its lock is gone.
CONSTANTS
  a1 = a1
  a2 = a2
  t1 = t1
  t2 = t2
  c1 = c1
  c2 = c2
  k1 = k1
  k2 = k2
  r1 = r1
  r2 = r2
  r3 = r3
  Apps = {a1, a2}
  Txns = {}
  Confs = {}
  Staff = {k1, k2}
  Amounts = {2, 3}
  Price <- MCPrice
  Exempt = {}
  SplitFloor <- MCSplitFloor
  NoApp = NoApp
  Nobody = Nobody
  Sessions = {r1, r2}
  MaxSweeps = 2
SPECIFICATION Spec
SYMMETRY Perms
INVARIANTS
  NoLockCycle
CHECK_DEADLOCK FALSE
