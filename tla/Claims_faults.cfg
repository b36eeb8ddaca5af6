SPECIFICATION Spec
CONSTANTS
  Gifts = {g1}
  Absent = absent
  Requests = {r1, r2}
  Nonces = {n1, n2}
  Invited = {g1}
  MaxAttempts = 2
  MaxRestarts = 1
INVARIANTS
  PaidAtMostOnce
  ClaimedMeansPaid
  PaymentsBounded
PROPERTIES
  OnlyUnlockedPaid
  SpentNonceStaysSpent
  JobSettles
\* Requests, nonces and attempts run out.
CHECK_DEADLOCK FALSE
