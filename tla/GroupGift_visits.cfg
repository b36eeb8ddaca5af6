SPECIFICATION Spec
CONSTANTS
  c1 = c1
  c2 = c2
  c3 = c3
  Contributions = {c1, c2, c3}
  Amount <- Amounts
  Target = 2
  Visits = {v1, v2, v3}
INVARIANTS
  GroupTypeOK
  CollectedIsPaid
PROPERTIES
  FundedStaysFunded
  SeenPaymentCounts
\* The visits run out.
CHECK_DEADLOCK FALSE
