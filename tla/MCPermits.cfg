\* Two competitors for a plot and an extension of one of them.
CONSTANTS
  Permits = {1, 2, 3}
  Parent <- MCParent
  NoPermit = NoPermit
  First <- MCFirst
  Last <- MCLast
  Load <- MCLoad
  Total <- MCTotal
  Capacities = {3, NoNorm}
  NoNorm = NoNorm
  Purposes = {head, recipient}
  RequiredSets = {{head, recipient}, {recipient}}
  BatchSize = 1
  TicketLast <- MCTicketLast
  Broken = {2}
  MaxRequests = 2
  MaxUnusual = 1
  Horizon = 2
SPECIFICATION FairSpec
INVARIANTS
  TypeOK
  SignedIsInForce
  ExtensionReplacesParent
  TicketsFollowPermit
PROPERTIES
  ImplementsPlot
  EndedIsClosed
\* A plot comes to rest when its permits are closed and the calendar has ended.
CHECK_DEADLOCK FALSE
