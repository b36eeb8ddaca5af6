SPECIFICATION Spec
CONSTANTS
  Gifts = {g1}
  Absent = absent
  Hooks = {h1, h2}
  FundingStep = FALSE
  Events <- OneEvent
  MaxRestarts = 0
PROPERTY
  PaidGiftResolves
\* The story of a gift ends.
CHECK_DEADLOCK FALSE
