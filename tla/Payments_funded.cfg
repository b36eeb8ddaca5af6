SPECIFICATION Spec
CONSTANTS
  Gifts = {g1}
  Absent = absent
  Hooks = {h1, h2}
  FundingStep = TRUE
  Events <- TwoEvents
  MaxRestarts = 1
INVARIANTS
  AckMeansApplied
  MoneyMatchesStatus
PROPERTIES
  CancelledIsFinal
  PaidGiftResolves
\* The story of a gift ends: paid for and cancelled or locked.
CHECK_DEADLOCK FALSE
