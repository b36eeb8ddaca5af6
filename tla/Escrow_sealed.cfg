SPECIFICATION Spec
CONSTANTS
  alice = alice
  bob = bob
  Contract = contract
  NoAccount = none
  Accounts <- MCAccounts
  Mint <- MCMint
  MinAmount = 1
  MaxAmount = 2
  MinLock = 1
  ExpiryDelay = 2
  MaxU64 = 6
INVARIANTS
  TypeOK
  AtMostOneSettlement
  Solvent
PROPERTIES
  SettledIsFinal
  ImplementsVault
\* The clock stops at MaxU64; a settled gift accepts no call.
CHECK_DEADLOCK FALSE
