------------------------------ MODULE Lifecycle -----------------------------
(***************************************************************************)
(* A gift from its creation to its end: Payments and Claims on one gift    *)
(* store.  Neither reads what the other keeps outside the store; they meet *)
(* in the status of the gift, in its unlock time, and in a restart, which  *)
(* takes the memory of both.                                               *)
(***************************************************************************)
EXTENDS GiftStore, Integers

CONSTANTS Hooks, FundingStep, Events,                \* of Payments
          Requests, Nonces, Invited, MaxAttempts,   \* of Claims
          MaxRestarts                               \* of both

VARIABLES creating, charge, inbox, acked, processed, hook, callback, removal, unheard,
          challenges, issued, request, accepted, invitation, job, attempts, paid, claimTxHash,
          disturbed, restarts

Payment == INSTANCE Payments
Payout == INSTANCE Claims

payOnly == <<creating, charge, inbox, acked, processed, hook, callback, removal, unheard>>
claimOnly == <<challenges, issued, request, accepted, invitation, job, attempts, paid,
               claimTxHash, disturbed>>
vars == <<storeVars, payOnly, claimOnly, restarts>>

Init == Payment!Init /\ Payout!ClaimInit

Next ==
  \/ Payment!PaymentStep /\ UNCHANGED claimOnly
  \/ Payout!ClaimStep /\ UNCHANGED payOnly
  \/ Payment!Restart /\ Payout!Restart
  \/ \E g \in Gifts : /\ UnlockTimePasses(g) \/ restoreGift(g) \/ hardDeleteGift(g)
                      /\ UNCHANGED <<payOnly, claimOnly, restarts>>

Spec == Init /\ [][Next]_vars

-----------------------------------------------------------------------------
\* Money is paid out only for a gift whose charge was paid in.
PaidOutWasPaidIn ==
  \A g \in Gifts : paid[g] > 0 => charge[g] \in {"paid", "refunded"}

\* The sender can start to take a gift back only while nobody has begun to pay
\* it out.  What can still undo a claim is a removal started earlier.
RemovalPrecedesClaim ==
  [][\A g \in Gifts : removal[g] = "idle" /\ removal'[g] # "idle" =>
       job[g] = "none" /\ paid[g] = 0]_vars
=============================================================================
