---------------------------- MODULE EscrowProofs ----------------------------
(***************************************************************************)
(* Theorems about the escrow contract, for every set of accounts, every    *)
(* amount limit, lock duration, expiry delay and width of u64.             *)
(*                                                                         *)
(* The argument: TypeOK and GiftBacked are inductive together, also when   *)
(* accounts pay the contract on the side.  While none does, BalanceTells   *)
(* is preserved too, and it is what makes a settlement the only one: the   *)
(* flags of claim, cancel and expire do not exclude one another, but a     *)
(* settled contract that nobody pays on the side holds nothing, the amount *)
(* is positive, and a transfer the contract cannot cover traps.            *)
(***************************************************************************)
EXTENDS Escrow, TLAPS

IInv == TypeOK /\ GiftBacked

\* What a transfer between two distinct holders does to the balances.
LEMMA TransferEffect ==
  ASSUME NEW from \in Holders, NEW to \in Holders, from # to, NEW n \in Nat,
         tokens \in [Holders -> Nat], Transfer(from, to, n)
  PROVE  /\ tokens' \in [Holders -> Nat]
         /\ tokens[from] >= n
         /\ tokens'[from] = tokens[from] - n
         /\ tokens'[to] = tokens[to] + n
         /\ \A h \in Holders \ {from, to} : tokens'[h] = tokens[h]
  BY DEF Transfer

LEMMA InitIInv == Init => IInv /\ BalanceTells
<1> SUFFICES ASSUME Init PROVE IInv /\ BalanceTells
  OBVIOUS
<1>1. tokens \in [Holders -> Nat] /\ tokens[Contract] = 0
  BY AccountsAssumption, LimitsAssumption DEF Init, Holders
<1>2. TypeOK
  <2>1. now \in U64 /\ amount \in Nat /\ unlockTime \in U64
    BY LimitsAssumption, SMT DEF Init, U64
  <2> QED
    BY <1>1, <2>1, Zenon DEF Init, TypeOK
<1>3. GiftBacked
  BY <1>1 DEF Init, GiftBacked, Initialized, Settled, Locked
<1>4. BalanceTells
  BY <1>1 DEF Init, BalanceTells, Initialized, Settled, Locked, AtMostOneSettlement
<1> QED
  BY <1>2, <1>3, <1>4 DEF IInv

\* Each operation preserves the invariant.
LEMMA InitializeIInv ==
  ASSUME IInv, NEW s \in Accounts, NEW r \in Accounts,
         NEW n \in MinAmount..MaxAmount, NEW u \in U64, Initialize(s, r, n, u)
  PROVE  IInv' /\ (BalanceTells => BalanceTells')
<1>1. s \in Holders /\ Contract \in Holders /\ s # Contract /\ n \in Nat /\ n > 0
  BY AccountsAssumption, LimitsAssumption DEF Holders
<1>2. Transfer(s, Contract, n) /\ tokens \in [Holders -> Nat]
  BY DEF Initialize, IInv, TypeOK
<1>3. tokens' \in [Holders -> Nat] /\ tokens'[Contract] = tokens[Contract] + n
  BY <1>1, <1>2, TransferEffect
<1>4. s # NoAccount
  BY AccountsAssumption
<1>5. TypeOK'
  BY <1>1, <1>3 DEF Initialize, IInv, TypeOK
<1>6. GiftBacked' /\ (BalanceTells => BalanceTells')
  <2>1. ~Initialized /\ ~persClaimed /\ tokens[Contract] \in Nat
    BY <1>1, <1>2 DEF Initialize, IInv, GiftBacked, Settled
  <2>2. BalanceTells => tokens[Contract] = 0
    BY <2>1 DEF BalanceTells, Locked
  <2>3. /\ sender' = s /\ recipient' = r /\ amount' = n
        /\ ~instClaimed' /\ ~cancelled' /\ ~expired' /\ ~persClaimed'
    BY <2>1 DEF Initialize
  <2> QED
    BY <1>1, <1>3, <1>4, <2>1, <2>2, <2>3
       DEF GiftBacked, BalanceTells, Initialized, Settled, Locked, AtMostOneSettlement
<1> QED
  BY <1>5, <1>6 DEF IInv

\* What claim, cancel and expire have in common: the contract pays the amount
\* to one account, which needs the gift to be locked unless somebody else has
\* paid the contract.
LEMMA PayoutEffect ==
  ASSUME IInv, Initialized, NEW to \in Accounts, Transfer(Contract, to, amount)
  PROVE  /\ tokens' \in [Holders -> Nat]
         /\ tokens'[Contract] = tokens[Contract] - amount
         /\ tokens'[to] = tokens[to] + amount
         /\ \A h \in Accounts \ {to} : tokens'[h] = tokens[h]
         /\ BalanceTells => Locked /\ tokens'[Contract] = 0
<1>1. to \in Holders /\ Contract \in Holders /\ to # Contract /\ Contract \notin Accounts
  BY AccountsAssumption DEF Holders
<1>2. amount \in Nat /\ amount > 0 /\ tokens \in [Holders -> Nat]
  BY DEF IInv, TypeOK, GiftBacked
<1>3. /\ tokens' \in [Holders -> Nat]
      /\ tokens[Contract] >= amount
      /\ tokens'[Contract] = tokens[Contract] - amount
      /\ tokens'[to] = tokens[to] + amount
      /\ \A h \in Holders \ {Contract, to} : tokens'[h] = tokens[h]
  BY <1>1, <1>2, TransferEffect
<1>4. BalanceTells => tokens[Contract] = (IF Locked THEN amount ELSE 0)
  BY DEF BalanceTells
<1>5. BalanceTells => Locked /\ tokens'[Contract] = 0
  BY <1>2, <1>3, <1>4
<1> QED
  BY <1>1, <1>3, <1>5 DEF Holders

LEMMA ClaimIInv == ASSUME IInv, Claim PROVE IInv' /\ (BalanceTells => BalanceTells')
<1>1. Initialized /\ recipient \in Accounts /\ Transfer(Contract, recipient, amount)
  BY DEF Claim, IInv, GiftBacked
<1>2. tokens' \in [Holders -> Nat] /\ (BalanceTells => Locked /\ tokens'[Contract] = 0)
  BY <1>1, PayoutEffect
<1> QED
  BY <1>1, <1>2 DEF Claim, IInv, TypeOK, GiftBacked, BalanceTells, parties,
                    Initialized, Settled, Locked, AtMostOneSettlement

LEMMA CancelIInv == ASSUME IInv, Cancel PROVE IInv' /\ (BalanceTells => BalanceTells')
<1>1. Initialized /\ sender \in Accounts /\ Transfer(Contract, sender, amount)
  BY DEF Cancel, IInv, GiftBacked
<1>2. tokens' \in [Holders -> Nat] /\ (BalanceTells => Locked /\ tokens'[Contract] = 0)
  BY <1>1, PayoutEffect
<1> QED
  BY <1>1, <1>2 DEF Cancel, IInv, TypeOK, GiftBacked, BalanceTells, parties,
                    Initialized, Settled, Locked, AtMostOneSettlement

LEMMA ExpireIInv == ASSUME IInv, Expire PROVE IInv' /\ (BalanceTells => BalanceTells')
<1>1. Initialized /\ sender \in Accounts /\ Transfer(Contract, sender, amount)
  BY DEF Expire, IInv, GiftBacked
<1>2. tokens' \in [Holders -> Nat] /\ (BalanceTells => Locked /\ tokens'[Contract] = 0)
  BY <1>1, PayoutEffect
<1> QED
  BY <1>1, <1>2 DEF Expire, IInv, TypeOK, GiftBacked, BalanceTells, parties,
                    Initialized, Settled, Locked, AtMostOneSettlement

LEMMA ExtendUnlockIInv ==
  ASSUME IInv, NEW u \in U64, ExtendUnlock(u)
  PROVE  IInv' /\ (BalanceTells => BalanceTells')
  BY DEF ExtendUnlock, IInv, TypeOK, GiftBacked, BalanceTells, parties,
         Initialized, Settled, Locked, AtMostOneSettlement

\* A payment on the side leaves the gift backed, though the balance tells no more.
LEMMA StrayIInv ==
  ASSUME IInv, NEW a \in Accounts, NEW n \in MinAmount..MaxAmount, Stray(a, n)
  PROVE  IInv'
<1>1. a \in Holders /\ Contract \in Holders /\ a # Contract /\ n \in Nat
  BY AccountsAssumption, LimitsAssumption DEF Holders
<1>2. Transfer(a, Contract, n) /\ tokens \in [Holders -> Nat]
  BY DEF Stray, IInv, TypeOK
<1>3. tokens' \in [Holders -> Nat] /\ tokens'[Contract] = tokens[Contract] + n
  BY <1>1, <1>2, TransferEffect
<1>4. tokens[Contract] \in Nat
  BY <1>1, <1>2
<1>5. amount \in Nat
  BY DEF IInv, TypeOK
<1> QED
  BY <1>1, <1>2, <1>3, <1>4, <1>5
     DEF Stray, IInv, TypeOK, GiftBacked, parties, Initialized, Settled, Locked

LEMMA TickIInv == ASSUME IInv, Tick PROVE IInv' /\ (BalanceTells => BalanceTells')
  BY DEF Tick, IInv, TypeOK, GiftBacked, BalanceTells, parties, Initialized, Settled,
         Locked, AtMostOneSettlement

LEMMA NextIInv == IInv /\ [Next]_vars => IInv' /\ (BalanceTells => BalanceTells')
<1> SUFFICES ASSUME IInv, [Next]_vars PROVE IInv' /\ (BalanceTells => BalanceTells')
  OBVIOUS
<1>1. CASE \E s, r \in Accounts, n \in MinAmount..MaxAmount, u \in U64 : Initialize(s, r, n, u)
  BY <1>1, InitializeIInv
<1>2. CASE Claim
  BY <1>2, ClaimIInv
<1>3. CASE Cancel
  BY <1>3, CancelIInv
<1>4. CASE Expire
  BY <1>4, ExpireIInv
<1>5. CASE \E u \in U64 : ExtendUnlock(u)
  BY <1>5, ExtendUnlockIInv
<1>6. CASE Tick
  BY <1>6, TickIInv
<1>7. CASE UNCHANGED vars
  BY <1>7 DEF vars, IInv, TypeOK, GiftBacked, BalanceTells, Initialized, Settled, Locked,
              AtMostOneSettlement
<1> QED
  BY <1>1, <1>2, <1>3, <1>4, <1>5, <1>6, <1>7 DEF Next

\* The contract anybody may pay keeps its types and its gift backed.
LEMMA OpenIInv == OpenSpec => []IInv
<1>1. IInv /\ [OpenNext]_vars => IInv'
  BY NextIInv, StrayIInv DEF OpenNext
<1> QED
  BY <1>1, InitIInv, PTL DEF OpenSpec

\* The inductive invariant holds in every reachable state of the contract that
\* only its own calls pay.
THEOREM Inductive == Spec => [](TypeOK /\ FundsFollowState)
<1>1. Spec => [](IInv /\ BalanceTells)
  BY InitIInv, NextIInv, PTL DEF Spec
<1>2. IInv /\ BalanceTells => TypeOK /\ FundsFollowState
  BY DEF IInv, FundsFollowState
<1> QED
  BY <1>1, <1>2, PTL

\* Every variable keeps its type, and no balance is ever negative, also when
\* others pay the contract.
THEOREM TypeCorrect == OpenSpec => []TypeOK
  BY OpenIInv, PTL DEF IInv

\* A gift that is not settled is fully funded, whatever others pay the contract:
\* the first of claim, cancel and expire to be called finds the money there.
THEOREM AlwaysSolvent == OpenSpec => []Solvent
<1>1. IInv => Solvent
  BY DEF IInv, GiftBacked, Solvent, Locked
<1> QED
  BY <1>1, OpenIInv, PTL

\* A gift that nobody pays on the side is settled in one way only.
THEOREM SingleSettlement == Spec => []AtMostOneSettlement
<1>1. FundsFollowState => AtMostOneSettlement
  BY DEF FundsFollowState, BalanceTells
<1> QED
  BY <1>1, Inductive, PTL

-----------------------------------------------------------------------------
\* While nobody pays the contract on the side, only a locked gift can be paid
\* out.
LEMMA PayoutNeedsLocked ==
  ASSUME BalanceTells, IInv, Claim \/ Cancel \/ Expire
  PROVE  Locked
<1>1. Initialized /\ (Transfer(Contract, recipient, amount) \/ Transfer(Contract, sender, amount))
  BY DEF Claim, Cancel, Expire
<1>2. sender \in Accounts /\ recipient \in Accounts
  BY <1>1 DEF IInv, GiftBacked
<1> QED
  BY <1>1, <1>2, PayoutEffect

\* Once settled, a gift that nobody pays on the side never moves a token again.
THEOREM Finality == Spec => SettledIsFinal
<1>1. IInv /\ BalanceTells /\ [Next]_vars =>
        [Settled => UNCHANGED <<tokens, instClaimed, cancelled, expired, persClaimed>>]_vars
  <2> SUFFICES ASSUME IInv, BalanceTells, Next, Settled
               PROVE  UNCHANGED <<tokens, instClaimed, cancelled, expired, persClaimed>>
    OBVIOUS
  <2>1. ~(Claim \/ Cancel \/ Expire)
    BY PayoutNeedsLocked DEF Locked
  <2>2. Initialized
    BY DEF IInv, GiftBacked
  <2>3. CASE \E u \in U64 : ExtendUnlock(u)
    BY <2>3 DEF ExtendUnlock
  <2>4. CASE Tick
    BY <2>4 DEF Tick
  <2> QED
    BY <2>1, <2>2, <2>3, <2>4 DEF Next, Initialize
<1>2. Spec => [](IInv /\ BalanceTells)
  BY Inductive, PTL DEF IInv, FundsFollowState
<1> QED
  BY <1>1, <1>2, PTL DEF Spec, SettledIsFinal

-----------------------------------------------------------------------------
\* Each step of the contract is a step of the vault, or leaves it as it was.
LEMMA InitializeLocks ==
  ASSUME BalanceTells, IInv, NEW s \in Accounts, NEW r \in Accounts,
         NEW n \in MinAmount..MaxAmount, NEW u \in U64, Initialize(s, r, n, u)
  PROVE  Vault!Lock
<1>1. /\ s \in Holders /\ Contract \in Holders /\ s # Contract /\ s # NoAccount
      /\ n \in Nat /\ n > 0 /\ u \in Nat
  BY AccountsAssumption, LimitsAssumption DEF Holders, U64
<1>2. /\ ~Initialized /\ ~persClaimed /\ Transfer(s, Contract, n)
      /\ tokens \in [Holders -> Nat] /\ now \in Nat
  BY LimitsAssumption DEF Initialize, IInv, TypeOK, GiftBacked, Settled, U64
<1>3. /\ sender' = s /\ recipient' = r /\ amount' = n /\ unlockTime' = u /\ now' = now
      /\ ~cancelled' /\ ~expired' /\ ~persClaimed'
  BY <1>2 DEF Initialize
<1>4. Phase = "empty" /\ Phase' = "locked"
  BY <1>1, <1>2, <1>3 DEF Phase, Initialized
<1>5. tokens[s] >= n /\ tokens'[s] = tokens[s] - n
      /\ \A h \in Holders \ {s, Contract} : tokens'[h] = tokens[h]
  BY <1>1, <1>2, TransferEffect
<1>6. Purse' = [Purse EXCEPT ![s] = @ - n]
  BY <1>5, AccountsAssumption DEF Purse, Holders
<1>7. n <= Purse[s] /\ u > now
  BY <1>5 DEF Purse, Initialize
<1> QED
  BY <1>1, <1>3, <1>4, <1>6, <1>7 DEF Vault!Lock

LEMMA PurseAfterPayout ==
  ASSUME IInv, Initialized, NEW to \in Accounts, Transfer(Contract, to, amount)
  PROVE  Purse' = [Purse EXCEPT ![to] = @ + amount]
<1>1. tokens'[to] = tokens[to] + amount /\ \A h \in Accounts \ {to} : tokens'[h] = tokens[h]
  BY PayoutEffect
<1> QED
  BY <1>1 DEF Purse

LEMMA ClaimReleases == ASSUME BalanceTells, IInv, Claim PROVE Vault!Release
<1>1. Locked /\ recipient \in Accounts /\ now >= unlockTime
  BY PayoutNeedsLocked DEF Claim, IInv, GiftBacked
<1>2. Phase = "locked" /\ Phase' = "released"
  BY <1>1 DEF Claim, Phase, Locked, Settled, Initialized, parties
<1>3. Purse' = [Purse EXCEPT ![recipient] = @ + amount]
  BY <1>1, PurseAfterPayout DEF Claim
<1> QED
  BY <1>1, <1>2, <1>3 DEF Claim, parties, Vault!Release

LEMMA CancelOrExpireReturns ==
  ASSUME BalanceTells, IInv, Cancel \/ Expire
  PROVE  Vault!Return
<1>1. Locked /\ sender \in Accounts
  BY PayoutNeedsLocked DEF Cancel, Expire, IInv, GiftBacked
<1>2. Phase = "locked" /\ Phase' = "returned"
  BY <1>1 DEF Cancel, Expire, Phase, Locked, Settled, Initialized, parties
<1>3. Purse' = [Purse EXCEPT ![sender] = @ + amount]
  BY <1>1, PurseAfterPayout DEF Cancel, Expire
<1> QED
  BY <1>1, <1>2, <1>3 DEF Cancel, Expire, parties, Vault!Return

LEMMA ExtendUnlockPostpones ==
  ASSUME IInv, NEW u \in U64, ExtendUnlock(u)
  PROVE  Vault!Postpone
<1>1. u \in Nat /\ u > unlockTime /\ unlockTime' = u
  BY LimitsAssumption DEF U64, ExtendUnlock
<1>2. Phase # "empty" /\ Phase' = Phase /\ Purse' = Purse
  BY DEF ExtendUnlock, Phase, Purse, Initialized, parties
<1> QED
  BY <1>1, <1>2 DEF ExtendUnlock, parties, Vault!Postpone

LEMMA TickTicks == ASSUME Tick PROVE Vault!Tick
<1>1. now' \in Nat /\ now' > now
  BY LimitsAssumption DEF Tick, U64
<1>2. Phase' = Phase /\ Purse' = Purse
  BY DEF Tick, Phase, Purse, Initialized, parties
<1> QED
  BY <1>1, <1>2 DEF Tick, parties, Vault!Tick

\* The contract implements the vault: for every set of accounts and every value
\* of the limits, the value leaves once, to the recipient after the unlock time
\* or back to the sender.
THEOREM Refinement == Spec => ImplementsVault
<1>1. Init => Vault!Init
  <2> SUFFICES ASSUME Init PROVE Vault!Init
    OBVIOUS
  <2>1. Phase = "empty"
    BY DEF Init, Phase, Initialized
  <2>2. now \in Nat
    BY LimitsAssumption DEF Init, U64
  <2>3. Purse \in [Accounts -> Nat]
    BY AccountsAssumption, LimitsAssumption DEF Init, Purse, Holders
  <2> QED
    BY <2>1, <2>2, <2>3 DEF Init, Vault!Init
<1>2. IInv /\ BalanceTells /\ [Next]_vars => [Vault!Next]_(Vault!vaultVars)
  <2> SUFFICES ASSUME IInv, BalanceTells, [Next]_vars
               PROVE  Vault!Next \/ UNCHANGED Vault!vaultVars
    OBVIOUS
  <2>1. CASE \E s, r \in Accounts, n \in MinAmount..MaxAmount, u \in U64 : Initialize(s, r, n, u)
    BY <2>1, InitializeLocks DEF Vault!Next
  <2>2. CASE Claim
    BY <2>2, ClaimReleases DEF Vault!Next
  <2>3. CASE Cancel \/ Expire
    BY <2>3, CancelOrExpireReturns DEF Vault!Next
  <2>4. CASE \E u \in U64 : ExtendUnlock(u)
    BY <2>4, ExtendUnlockPostpones DEF Vault!Next
  <2>5. CASE Tick
    BY <2>5, TickTicks DEF Vault!Next
  <2>6. CASE UNCHANGED vars
    BY <2>6 DEF vars, Vault!vaultVars, Phase, Purse, Initialized
  <2> QED
    BY <2>1, <2>2, <2>3, <2>4, <2>5, <2>6 DEF Next
<1>3. Spec => [](IInv /\ BalanceTells)
  BY Inductive, PTL DEF IInv, FundsFollowState
<1> QED
  BY <1>1, <1>2, <1>3, PTL DEF Spec, ImplementsVault, Vault!Spec
=============================================================================
