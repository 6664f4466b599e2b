\* One message, which two sweeps may ask for: two worker processes meet over its
\* row, and two administrators over its death.
CONSTANTS
  Sweeps = {s1, s2}
  Messages = {n1}
  Workers = {w1, w2}
  Employees = {e1, e2}
  MaxAttempts = 2
  Threshold = 2
  MaxCrashes = 1
  MaxRequeues = 2
  None = None
SPECIFICATION Spec
INVARIANTS
  TypeOK
  SentOnce
PROPERTIES
  ReportKept
  EveryMessageEnds
