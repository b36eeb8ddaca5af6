SPECIFICATION Spec
CONSTANTS
  Senders = {ann, ben}
  Requests = {r1, r2, r3}
  MinAmount = 1
  MaxAmount = 2
  DailyLimit = 4
INVARIANT
  OvershootBounded
