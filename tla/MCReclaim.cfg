\* The same calls: two of them reclaim one stale marker.
CONSTANTS
  x = x
  y = y
  r1 = r1
  r2 = r2
  r3 = r3
  Requests = {r1, r2, r3}
  Bodies = {x, y}
  Body <- MCBody
  NoBody = NoBody
  NoResponse = NoResponse
SPECIFICATION Spec
PROPERTY
  ReclaimsStaleOnly
\* Every call may be answered and the row purged, and then nothing is left to do.
CHECK_DEADLOCK FALSE
