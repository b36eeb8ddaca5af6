SPECIFICATION Spec
CONSTANTS
  b1 = b1
  r1 = r1
  r2 = r2
  Browsers <- MCBrowsers
  Requests <- MCRequests
  MaxTokens = 3
  MaxFaults = 1
INVARIANTS
  OneLivePerSignIn
  SignedOutStaysOut
PROPERTIES
  EveryoneAnswered
CHECK_DEADLOCK FALSE
