------------------------------ MODULE GiftVault ------------------------------
(***************************************************************************)
(* What the escrow contract promises, with nothing of how it keeps the     *)
(* promise: one giver locks a value for one receiver until a release time, *)
(* and the value leaves the vault exactly once, either to the receiver at  *)
(* or after the release time, or back to the giver.  "The recipient can    *)
(* claim after the unlock time; the sender may cancel at any time before   *)
(* the recipient claims" (contracts/escrow/src/lib.rs, crate comment).     *)
(***************************************************************************)
EXTENDS Integers

CONSTANTS Accounts,   \* holders of the token
          NoAccount   \* the giver and the receiver of an empty vault

VARIABLES phase,      \* "empty", "locked", "released" or "returned"
          giver, receiver,
          value,      \* what the vault was filled with
          opensAt,    \* release time
          clock,
          purse       \* what each account holds outside the vault

vaultVars == <<phase, giver, receiver, value, opensAt, clock, purse>>

Init ==
  /\ phase = "empty" /\ giver = NoAccount /\ receiver = NoAccount
  /\ value = 0 /\ opensAt = 0
  /\ clock \in Nat
  /\ purse \in [Accounts -> Nat]

Tick ==
  /\ clock' \in Nat /\ clock' > clock
  /\ UNCHANGED <<phase, giver, receiver, value, opensAt, purse>>

\* The giver fills the vault, once, for a release time still to come.
Lock ==
  /\ phase = "empty" /\ phase' = "locked"
  /\ giver' \in Accounts /\ receiver' \in Accounts
  /\ value' \in Nat \ {0} /\ value' <= purse[giver']
  /\ opensAt' \in Nat /\ opensAt' > clock
  /\ purse' = [purse EXCEPT ![giver'] = @ - value']
  /\ UNCHANGED clock

\* The giver may put the release time off, never bring it forward.
Postpone ==
  /\ phase # "empty"
  /\ opensAt' \in Nat /\ opensAt' > opensAt
  /\ UNCHANGED <<phase, giver, receiver, value, clock, purse>>

Release ==
  /\ phase = "locked" /\ phase' = "released"
  /\ clock >= opensAt
  /\ purse' = [purse EXCEPT ![receiver] = @ + value]
  /\ UNCHANGED <<giver, receiver, value, opensAt, clock>>

Return ==
  /\ phase = "locked" /\ phase' = "returned"
  /\ purse' = [purse EXCEPT ![giver] = @ + value]
  /\ UNCHANGED <<giver, receiver, value, opensAt, clock>>

Next == Tick \/ Lock \/ Postpone \/ Release \/ Return

Spec == Init /\ [][Next]_vaultVars
=============================================================================
