SPECIFICATION Spec
CONSTANTS
  g1 = g1
  ada = ada
  bola = bola
  r1 = r1
  r2 = r2
  c1 = c1
  c2 = c2
  Phones <- MCPhones
  Gifts <- MCGifts
  Requests <- MCRequests
  Claimers <- MCClaimers
  Sender <- MCSender
  Recipient <- MCRecipient
  MaxErasures = 2
  MaxFaults = 1
INVARIANTS
  AccountsTypeOK
  TokenUsedOnce
  PaidThroughInvitation
PROPERTIES
  NeverBack
  GiftGetsClaimed
