\* One application between a forestry, its region and the agency above them.
CONSTANTS
  north = north
  region = region
  agency = agency
  meadow = meadow
  grove = grove
  clerk = clerk
  head = head
  director = director
  low = low
  high = high
  member = member
  disabled = disabled
  Reviewers = {clerk, director}
  Deciders = {head, director}
  Organizations = {north, region, agency}
  ParentOrg <- MCParentOrg
  Contours = {meadow, grove}
  OrgOf <- MCOrgOf
  Zone <- MCZone
  AreaOf <- MCAreaOf
  Limit <- MCLimit
  MaxArea <- MCMaxArea
  Tariffs = {low, high}
  Price <- MCPrice
  Claims = {member, disabled, None}
  Registered = {member}
  None = None
SPECIFICATION Spec
INVARIANTS
  TypeOK
  AssignmentIsOne
  PausePaired
  PriceIsDecided
  PermitPricedAsInvoiced
  ClaimVerifiedAsFiled
\* An application ends: rejected, withdrawn, unpaid or with its permit printed.
CHECK_DEADLOCK FALSE
