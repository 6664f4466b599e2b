\* A call, its duplicate, and a call that misuses the key for another body.
CONSTANTS
  x = x
  y = y
  r1 = r1
  r2 = r2
  r3 = r3
  Requests = {r1, r2, r3}
  Bodies = {x, y}
  Body <- MCBody
  NoBody = NoBody
  NoResponse = NoResponse
SPECIFICATION Spec
INVARIANTS
  TypeOK
  ClaimIsExclusive
  OnceUnlessLapsed
  AnswersOwnBody
  SuccessMeansDone
PROPERTY
  EveryCallIsAnswered
\* Every call may be answered and the row purged, and then nothing is left to do.
CHECK_DEADLOCK FALSE
