----------------------------- MODULE GiftStatus -----------------------------
(***************************************************************************)
(* The gift state machine, src/server/services/gift-state-machine.ts: the  *)
(* statuses of a gift and the table of transitions that every status       *)
(* update, but cancelGift's, is checked against.                           *)
(***************************************************************************)

Status == {"draft", "pending_payment", "funded", "locked", "unlocked",
           "claimed", "cancelled", "expired"}

\* Mutant: a payment that comes in late revives a cancelled gift.
TRANSITIONS_Revive ==
  [draft           |-> {"pending_payment", "cancelled"},
   pending_payment |-> {"funded", "cancelled"},
   funded          |-> {"locked", "cancelled"},
   locked          |-> {"unlocked", "cancelled"},
   unlocked        |-> {"claimed", "cancelled"},
   claimed         |-> {},
   cancelled       |-> {"locked"},
   expired         |-> {}]

TRANSITIONS ==
  [draft           |-> {"pending_payment", "cancelled"},
   pending_payment |-> {"funded", "cancelled"},
   funded          |-> {"locked", "cancelled"},
   locked          |-> {"unlocked", "cancelled"},
   unlocked        |-> {"claimed", "cancelled"},
   claimed         |-> {},
   cancelled       |-> {},
   expired         |-> {}]

isValidTransition(current, next) == next \in TRANSITIONS[current]
=============================================================================
