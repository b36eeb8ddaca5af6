------------------------------- MODULE Escrow -------------------------------
(***************************************************************************)
(* The Soroban escrow contract (src/contracts/escrow/src/lib.rs): one      *)
(* instance, which holds one gift.  A call either succeeds or traps; a     *)
(* trapped call, or one that returns Err, is rolled back by the host and   *)
(* leaves no trace, so an action of this module is a call that succeeds    *)
(* and a failed call is a stuttering step.  Calls of one contract are      *)
(* serialised by the ledger.                                               *)
(*                                                                         *)
(* The contract keeps two cells for "claimed": claim writes the persistent *)
(* one, while cancel, expire and extend_unlock read the instance one, that *)
(* nothing but initialize writes.  Both are kept here.                     *)
(*                                                                         *)
(* The multisig operations (pause, signers, amount limits) are left out:   *)
(* initialize stores no signer, so require_signer refuses every caller and *)
(* none of them can succeed; Paused stays false and the limits stay at     *)
(* their defaults, the constants MinAmount and MaxAmount.                  *)
(***************************************************************************)
EXTENDS Integers

CONSTANTS Accounts,       \* addresses that hold the token, the contract's excluded
          Contract,       \* the contract's own address
          NoAccount,      \* what an unset address key reads as
          MinAmount,      \* DEFAULT_MIN_AMOUNT
          MaxAmount,      \* DEFAULT_MAX_AMOUNT
          MinLock,        \* MIN_LOCK_DURATION, in ticks
          ExpiryDelay,    \* 365 * 24 * 3600 s, in ticks
          MaxU64,         \* u64::MAX, scaled down to the ticks of a run
          Mint            \* what each account holds at first

ASSUME AccountsAssumption ==
  /\ Contract \notin Accounts /\ NoAccount \notin Accounts /\ Contract # NoAccount
ASSUME LimitsAssumption ==
  /\ MinAmount \in Nat \ {0} /\ MaxAmount \in Nat
  /\ MinLock \in Nat /\ ExpiryDelay \in Nat /\ MaxU64 \in Nat
  /\ Mint \in [Accounts -> Nat]

VARIABLES now,            \* ledger timestamp
          sender, recipient, amount, unlockTime,  \* instance keys
          instClaimed,    \* instance key Claimed
          cancelled,      \* instance key Cancelled
          expired,        \* instance key Expired
          persClaimed,    \* persistent key Claimed
          tokens          \* token balances

parties == <<sender, recipient, amount>>
vars == <<now, sender, recipient, amount, unlockTime, instClaimed, cancelled,
          expired, persClaimed, tokens>>

Holders == Accounts \cup {Contract}
U64 == 0..MaxU64

\* u64::saturating_add
SatAdd(a, b) == IF a + b > MaxU64 THEN MaxU64 ELSE a + b

\* Mutant: a payment nobody checks against the payer's balance.
Transfer_Overdraft(from, to, n) == tokens' = [tokens EXCEPT ![from] = @ - n, ![to] = @ + n]

\* token::Client::transfer: traps, and the whole call with it, when the payer
\* cannot pay.
Transfer(from, to, n) ==
  /\ tokens[from] >= n
  /\ tokens' = [tokens EXCEPT ![from] = @ - n, ![to] = @ + n]

\* instance().has(&DataKey::Sender), and the NotInitialized guards.
Initialized == sender # NoAccount

Init ==
  /\ now \in U64
  /\ sender = NoAccount /\ recipient = NoAccount /\ amount = 0 /\ unlockTime = 0
  /\ instClaimed = FALSE /\ cancelled = FALSE /\ expired = FALSE /\ persClaimed = FALSE
  /\ tokens = [h \in Holders |-> IF h = Contract THEN 0 ELSE Mint[h]]

-----------------------------------------------------------------------------
\* Mutant: a contract that can be initialized again, AlreadyInitialized forgotten.
Initialize_Again(s, r, n, u) ==
  /\ n >= MinAmount /\ n <= MaxAmount
  /\ u > SatAdd(now, MinLock) /\ u > now
  /\ sender' = s /\ recipient' = r /\ amount' = n /\ unlockTime' = u
  /\ instClaimed' = FALSE /\ cancelled' = FALSE /\ expired' = FALSE
  /\ Transfer(s, Contract, n)
  /\ UNCHANGED <<now, persClaimed>>

\* The guards of initialize, its writes and the transfer that funds the gift.
Initialize(s, r, n, u) ==
  /\ ~Initialized
  /\ n >= MinAmount /\ n <= MaxAmount
  /\ u > SatAdd(now, MinLock) /\ u > now
  /\ sender' = s /\ recipient' = r /\ amount' = n /\ unlockTime' = u
  /\ instClaimed' = FALSE /\ cancelled' = FALSE /\ expired' = FALSE
  /\ Transfer(s, Contract, n)
  /\ UNCHANGED <<now, persClaimed>>

\* Mutant: claim without the StillLocked check.
Claim_AnyTime ==
  /\ Initialized
  /\ ~cancelled /\ ~persClaimed
  /\ persClaimed' = TRUE
  /\ Transfer(Contract, recipient, amount)
  /\ UNCHANGED <<now, parties, unlockTime, instClaimed, cancelled, expired>>

\* Called by the recipient.  Expired is not read.
Claim ==
  /\ Initialized
  /\ ~cancelled /\ ~persClaimed
  /\ now >= unlockTime
  /\ persClaimed' = TRUE
  /\ Transfer(Contract, recipient, amount)
  /\ UNCHANGED <<now, parties, unlockTime, instClaimed, cancelled, expired>>

\* Mutant: cancel pays back and forgets to note it.
Cancel_NoFlag ==
  /\ Initialized
  /\ ~instClaimed /\ ~cancelled
  /\ Transfer(Contract, sender, amount)
  /\ UNCHANGED <<now, parties, unlockTime, instClaimed, cancelled, expired, persClaimed>>

\* Called by the sender, at any time.  Expired is not read, nor is the
\* persistent Claimed.
Cancel ==
  /\ Initialized
  /\ ~instClaimed /\ ~cancelled
  /\ cancelled' = TRUE
  /\ Transfer(Contract, sender, amount)
  /\ UNCHANGED <<now, parties, unlockTime, instClaimed, expired, persClaimed>>

\* Called by anybody: expire requires no authorisation.
Expire ==
  /\ Initialized
  /\ ~instClaimed /\ ~cancelled /\ ~expired
  /\ now >= SatAdd(unlockTime, ExpiryDelay)
  /\ expired' = TRUE
  /\ Transfer(Contract, sender, amount)
  /\ UNCHANGED <<now, parties, unlockTime, instClaimed, cancelled, persClaimed>>

\* Called by the sender, also once the gift is settled.
ExtendUnlock(u) ==
  /\ Initialized
  /\ ~instClaimed
  /\ u > unlockTime
  /\ unlockTime' = u
  /\ UNCHANGED <<now, parties, instClaimed, cancelled, expired, persClaimed, tokens>>

\* A ledger closes.
Tick ==
  /\ now' \in U64 /\ now' > now
  /\ UNCHANGED <<parties, unlockTime, instClaimed, cancelled, expired, persClaimed, tokens>>

\* A payment to the contract's address through the token contract alone.
Stray(a, n) ==
  /\ Transfer(a, Contract, n)
  /\ UNCHANGED <<now, parties, unlockTime, instClaimed, cancelled, expired, persClaimed>>

Next ==
  \/ \E s, r \in Accounts, n \in MinAmount..MaxAmount, u \in U64 : Initialize(s, r, n, u)
  \/ Claim
  \/ Cancel
  \/ Expire
  \/ \E u \in U64 : ExtendUnlock(u)
  \/ Tick

OpenNext == Next \/ \E a \in Accounts, n \in MinAmount..MaxAmount : Stray(a, n)

\* The contract paid by its own calls only, and the contract anybody may pay.
Spec == Init /\ [][Next]_vars
OpenSpec == Init /\ [][OpenNext]_vars

-----------------------------------------------------------------------------
\* get_state: the recipient, the amount, the unlock time and the two flags the
\* contract reports; Expired is not among them.
get_state == [recipient |-> recipient, amount |-> amount, unlockTime |-> unlockTime,
              claimed |-> persClaimed, cancelled |-> cancelled]

Settled == persClaimed \/ cancelled \/ expired
Locked == Initialized /\ ~Settled

\* Every variable has its type; a balance never goes negative.
TypeOK ==
  /\ now \in U64
  /\ sender \in Accounts \cup {NoAccount} /\ recipient \in Accounts \cup {NoAccount}
  /\ amount \in Nat /\ unlockTime \in U64
  /\ instClaimed \in BOOLEAN /\ cancelled \in BOOLEAN /\ expired \in BOOLEAN
  /\ persClaimed \in BOOLEAN
  /\ tokens \in [Holders -> Nat]

\* A gift is settled in one way only: claimed, cancelled or expired.  The flags
\* of claim, cancel and expire do not exclude one another (each reads a
\* different selection of them), so this rests on the contract's balance.
AtMostOneSettlement ==
  /\ ~(persClaimed /\ cancelled)
  /\ ~(persClaimed /\ expired)
  /\ ~(cancelled /\ expired)

\* A gift that is not settled is fully funded: whichever of claim, cancel and
\* expire comes first will be able to pay.
Solvent == Locked => tokens[Contract] >= amount /\ amount > 0

\* Once a gift is settled no call moves a token again.
SettledIsFinal == [][Settled => UNCHANGED <<tokens, instClaimed, cancelled, expired, persClaimed>>]_vars

\* Why the above hold: the contract's balance tells what the flags do not.  A
\* locked gift is funded, whoever else pays the contract; one that nobody pays
\* on the side holds the amount exactly while the gift is locked, and so can
\* settle it only once.
GiftBacked ==
  /\ ~instClaimed
  /\ ~Initialized => ~Settled /\ recipient = NoAccount /\ amount = 0 /\ unlockTime = 0
  /\ Initialized => sender \in Accounts /\ recipient \in Accounts /\ amount > 0
  /\ Locked => tokens[Contract] >= amount

BalanceTells ==
  /\ tokens[Contract] = (IF Locked THEN amount ELSE 0)
  /\ AtMostOneSettlement

FundsFollowState == GiftBacked /\ BalanceTells

-----------------------------------------------------------------------------
\* The vault this contract implements.
Phase ==
  IF ~Initialized THEN "empty"
  ELSE IF persClaimed THEN "released"
  ELSE IF cancelled \/ expired THEN "returned"
  ELSE "locked"

Purse == [a \in Accounts |-> tokens[a]]

Vault == INSTANCE GiftVault
           WITH phase <- Phase, giver <- sender, receiver <- recipient, value <- amount,
                opensAt <- unlockTime, clock <- now, purse <- Purse

\* The contract, paid by its own operations only, keeps the vault's promise:
\* one lock, one way out, nothing to the recipient before the unlock time.
ImplementsVault == Vault!Spec
=============================================================================
