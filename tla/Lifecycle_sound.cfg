SPECIFICATION Spec
CONSTANTS
  Gifts = {g1}
  Absent = absent
  Hooks = {h1}
  FundingStep = TRUE
  Events <- OneEvent
  Requests = {r1}
  Nonces = {n1}
  Invited = {}
  MaxAttempts = 2
  MaxRestarts = 1
INVARIANT
  PaidOutWasPaidIn
PROPERTY
  RemovalPrecedesClaim
\* The story of a gift ends.
CHECK_DEADLOCK FALSE
