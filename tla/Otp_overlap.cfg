SPECIFICATION Spec
CONSTANTS
  Senders = {s1, s2}
  Verifiers = {v1, v2}
  MAX_ATTEMPTS = 2
  MAX_SESSION_FAILURES = 2
  SendLimit = 2
  MaxCodes = 2
  MaxCrashes = 1
SYMMETRY Alike
INVARIANTS
  TypeOK
  GuessBudget
  LockTakesGuesses
  AcceptedByOverlap
  BlockedByCrash
\* The codes are used up.
CHECK_DEADLOCK FALSE
