------------------------------ MODULE Payments ------------------------------
(***************************************************************************)
(* How a gift is paid for: createGift opens a Paystack charge, Paystack    *)
(* reports it twice, by a webhook (POST /api/v1/payments, delivered until  *)
(* it is answered 200) and by sending the payer's browser to the callback  *)
(* (GET /api/v1/payments/callback), and the sender may take the gift back  *)
(* (DELETE /api/v1/gifts/[id]), which refunds the charge.  Each handler is *)
(* split at its awaits of Redis and of Paystack, where the others run.     *)
(*                                                                         *)
(* Paystack, the payer and the operator are the environment.  No code of   *)
(* the repository takes a gift from "pending_payment" to "funded", the     *)
(* only status "locked" is reached from; FundingStep says whether a        *)
(* deployment adds that step, as docs/architecture/gift-lifecycle.md has   *)
(* it.  With FundingStep = FALSE the module is the code as it stands.      *)
(***************************************************************************)
EXTENDS GiftStore, Integers

CONSTANTS Hooks,        \* webhook requests the server can work on at a time
          FundingStep,  \* does something move paid gifts to "funded"?
          Events,       \* events sent on a reference; "charge.success" is one
          MaxRestarts   \* bound on the restarts of the server

ASSUME PaymentsAssumption ==
  /\ "charge.success" \in Events
  /\ FundingStep \in BOOLEAN /\ MaxRestarts \in Nat

VARIABLES creating,   \* createGift: "new", "inserted" (being screened for fraud),
                      \* "screened" (awaiting Paystack) or "done"
          charge,     \* at Paystack: "none", "open", "paid" or "refunded"
          inbox,      \* events Paystack has still to deliver, or to deliver again
          acked,      \* events it got a 200 for
          processed,  \* references with a key paystack:ref:<reference> in Redis
          hook,       \* webhook requests in flight
          callback,   \* callback request: "idle" or "verified"
          removal,    \* DELETE request: "idle", "asking" or "answered"
          unheard,    \* gifts with a refund that was made and whose answer was lost
          restarts

payVars == <<creating, charge, inbox, acked, processed, hook, callback, removal, unheard, restarts>>
vars == <<storeVars, payVars>>

Idle == [pc |-> "idle"]
InFlight == {Idle} \cup [pc : {"apply", "mark"}, gift : Gifts, event : Events]

PaymentTypeOK ==
  /\ creating \in [Gifts -> {"new", "inserted", "screened", "done"}]
  /\ charge \in [Gifts -> {"none", "open", "paid", "refunded"}]
  /\ inbox \in [Gifts -> SUBSET Events] /\ acked \in [Gifts -> SUBSET Events]
  /\ processed \subseteq Gifts
  /\ hook \in [Hooks -> InFlight]
  /\ callback \in [Gifts -> {"idle", "verified"}]
  /\ removal \in [Gifts -> {"idle", "asking", "answered"}] /\ unheard \subseteq Gifts
  /\ restarts \in 0..MaxRestarts

PaymentInit ==
  /\ creating = [g \in Gifts |-> "new"] /\ charge = [g \in Gifts |-> "none"]
  /\ inbox = [g \in Gifts |-> {}] /\ acked = [g \in Gifts |-> {}] /\ processed = {}
  /\ hook = [h \in Hooks |-> Idle]
  /\ callback = [g \in Gifts |-> "idle"] /\ removal = [g \in Gifts |-> "idle"]
  /\ unheard = {} /\ restarts = 0

Init ==
  /\ status = [g \in Gifts |-> Absent]
  /\ deleted = [g \in Gifts |-> FALSE] /\ due = [g \in Gifts |-> FALSE]
  /\ PaymentInit

-----------------------------------------------------------------------------
\* createGift: the gift enters the Map before the fraud check, the rate lock,
\* the audit log and Paystack are awaited; when one of them throws it stays.
CreateInsert(g) ==
  /\ creating[g] = "new" /\ creating' = [creating EXCEPT ![g] = "inserted"]
  /\ status' = [status EXCEPT ![g] = "pending_payment"]
  /\ UNCHANGED <<deleted, due, charge, inbox, acked, processed, hook, callback, removal, unheard, restarts>>

\* A gift the fraud check flags is held: its status is set again, whatever has
\* become of it meanwhile.
CreateScreen(g) ==
  /\ creating[g] = "inserted" /\ creating' = [creating EXCEPT ![g] = "screened"]
  /\ status' \in {status, [status EXCEPT ![g] = "pending_payment"]}
  /\ UNCHANGED <<deleted, due, charge, inbox, acked, processed, hook, callback, removal, unheard, restarts>>

CreateCharge(g) ==
  /\ creating[g] = "screened" /\ creating' = [creating EXCEPT ![g] = "done"]
  /\ charge' \in {charge, [charge EXCEPT ![g] = "open"]}
  /\ UNCHANGED <<storeVars, inbox, acked, processed, hook, callback, removal, unheard, restarts>>

\* Paystack: the payer pays, and events are sent on the reference.
Pay(g) ==
  /\ charge[g] = "open" /\ charge' = [charge EXCEPT ![g] = "paid"]
  /\ inbox' = [inbox EXCEPT ![g] = @ \cup {"charge.success"}]
  /\ UNCHANGED <<storeVars, creating, acked, processed, hook, callback, removal, unheard, restarts>>

OtherEvent(g, e) ==
  /\ charge[g] # "none" /\ e # "charge.success" /\ e \notin acked[g]
  /\ inbox' = [inbox EXCEPT ![g] = @ \cup {e}] /\ inbox' # inbox
  /\ UNCHANGED <<storeVars, creating, charge, acked, processed, hook, callback, removal, unheard, restarts>>

Fund(g) ==
  /\ FundingStep /\ charge[g] = "paid"
  /\ Changes(g, "funded") /\ updateGiftStatus(g, "funded")
  /\ UNCHANGED <<deleted, due, payVars>>

-----------------------------------------------------------------------------
\* The webhook.  Its first read of Redis decides: a reference that is already
\* processed is answered 200 at once.
Ack(g, e) ==
  /\ acked' = [acked EXCEPT ![g] = @ \cup {e}]
  /\ inbox' = [inbox EXCEPT ![g] = @ \ {e}]

HookKnown(g, e) ==
  /\ e \in inbox[g] /\ g \in processed
  /\ Ack(g, e)
  /\ UNCHANGED <<storeVars, creating, charge, processed, hook, callback, removal, unheard, restarts>>

\* Mutant: the reference is marked processed before its event is applied.
HookRead_MarksFirst(h, g, e) ==
  /\ hook[h] = Idle /\ e \in inbox[g] /\ g \notin processed
  /\ hook' = [hook EXCEPT ![h] = [pc |-> "apply", gift |-> g, event |-> e]]
  /\ processed' = processed \cup {g}
  /\ UNCHANGED <<storeVars, creating, charge, inbox, acked, callback, removal, unheard, restarts>>

HookRead(h, g, e) ==
  /\ hook[h] = Idle /\ e \in inbox[g] /\ g \notin processed
  /\ hook' = [hook EXCEPT ![h] = [pc |-> "apply", gift |-> g, event |-> e]]
  /\ UNCHANGED <<storeVars, creating, charge, inbox, acked, processed, callback, removal, unheard, restarts>>

\* Mutant: a refused transition is swallowed and the event marked processed.
HookApply_Swallows(h) ==
  /\ hook[h].pc = "apply"
  /\ IF hook[h].event = "charge.success" THEN updateGiftStatus(hook[h].gift, "locked")
                                         ELSE UNCHANGED status
  /\ hook' = [hook EXCEPT ![h].pc = "mark"]
  /\ UNCHANGED <<deleted, due, creating, charge, inbox, acked, processed, callback, removal, unheard, restarts>>

\* A charge.success locks the gift.  A refused transition throws, which the
\* route answers with 500; that the gift is not there goes unnoticed.
HookApply(h) ==
  LET g == hook[h].gift
      refused == hook[h].event = "charge.success" /\ "throw" \in Outcomes(g, "locked")
  IN  /\ hook[h].pc = "apply"
      /\ IF hook[h].event = "charge.success" THEN updateGiftStatus(g, "locked")
                                             ELSE UNCHANGED status
      /\ hook' = [hook EXCEPT ![h] = IF refused THEN Idle ELSE [@ EXCEPT !.pc = "mark"]]
      /\ UNCHANGED <<deleted, due, creating, charge, inbox, acked, processed, callback, removal, unheard, restarts>>

\* redis.set of the key, then the 200; or Redis fails, and the answer is 500.
HookMark(h) ==
  /\ hook[h].pc = "mark" /\ hook' = [hook EXCEPT ![h] = Idle]
  /\ processed' = processed \cup {hook[h].gift}
  /\ Ack(hook[h].gift, hook[h].event)
  /\ UNCHANGED <<storeVars, creating, charge, callback, removal, unheard, restarts>>

HookMarkFails(h) ==
  /\ hook[h].pc = "mark" /\ hook' = [hook EXCEPT ![h] = Idle]
  /\ UNCHANGED <<storeVars, creating, charge, inbox, acked, processed, callback, removal, unheard, restarts>>

\* The key lives 24 hours.
KeyExpires(g) ==
  /\ g \in processed /\ processed' = processed \ {g}
  /\ UNCHANGED <<storeVars, creating, charge, inbox, acked, hook, callback, removal, unheard, restarts>>

-----------------------------------------------------------------------------
\* The callback names a gift and a reference, and what is verified is that the
\* reference was paid, not that it is the gift's: a payment of any gift will do.
\* In its other branches it sets "pending_payment", a transition refused from
\* every status a gift has had since its creation: those change nothing.
CallbackVerify(g) ==
  /\ callback[g] = "idle"
  /\ callback' = [callback EXCEPT ![g] = "verified"]
  /\ UNCHANGED <<storeVars, creating, charge, inbox, acked, processed, hook, removal, unheard, restarts>>

\* validateSlippage answered: the gift is locked, or the rate has moved or its
\* lock is gone.
CallbackApply(g, slippageValid) ==
  /\ callback[g] = "verified" /\ callback' = [callback EXCEPT ![g] = "idle"]
  /\ updateGiftStatus(g, IF slippageValid THEN "locked" ELSE "pending_payment")
  /\ UNCHANGED <<deleted, due, creating, charge, inbox, acked, processed, hook, removal, unheard, restarts>>

-----------------------------------------------------------------------------
\* Mutant: whatever is not claimed yet can be taken back, also once it is unlocked.
RemoveStart_Late(g) ==
  /\ removal[g] = "idle"
  /\ Found(g) /\ status[g] # "claimed"
  /\ removal' = [removal EXCEPT ![g] = "asking"]
  /\ UNCHANGED <<storeVars, creating, charge, inbox, acked, processed, hook, callback, unheard, restarts>>

\* DELETE: the checks, then the refund, during which everything else runs.
RemoveStart(g) ==
  /\ removal[g] = "idle"
  /\ Found(g) /\ status[g] \in {"locked", "pending_payment"} /\ ~due[g]
  /\ removal' = [removal EXCEPT ![g] = "asking"]
  /\ UNCHANGED <<storeVars, creating, charge, inbox, acked, processed, hook, callback, unheard, restarts>>

Refund(g) ==
  /\ removal[g] = "asking" /\ charge[g] = "paid"
  /\ charge' = [charge EXCEPT ![g] = "refunded"]
  /\ removal' = [removal EXCEPT ![g] = "answered"]
  /\ UNCHANGED <<storeVars, creating, inbox, acked, processed, hook, callback, unheard, restarts>>

\* refundPayment throws: the refund was refused ...
RefundThrows(g) ==
  /\ removal[g] = "asking" /\ removal' = [removal EXCEPT ![g] = "idle"]
  /\ UNCHANGED <<storeVars, creating, charge, inbox, acked, processed, hook, callback, unheard, restarts>>

\* ... or it was made and its answer lost: the handler leaves the gift as it is.
RefundUnheard(g) ==
  /\ removal[g] = "answered" /\ removal' = [removal EXCEPT ![g] = "idle"]
  /\ unheard' = unheard \cup {g}
  /\ UNCHANGED <<storeVars, creating, charge, inbox, acked, processed, hook, callback, restarts>>

\* Mutant: the gift is deleted, and its status left as it was.
RemoveFinish_DeletesOnly(g) ==
  /\ removal[g] = "answered" /\ removal' = [removal EXCEPT ![g] = "idle"]
  /\ softDeleteGift(g)
  /\ UNCHANGED <<status, due, creating, charge, inbox, acked, processed, hook, callback, unheard, restarts>>

\* cancelGift and softDeleteGift, whatever has become of the gift since.
RemoveFinish(g) ==
  /\ removal[g] = "answered" /\ removal' = [removal EXCEPT ![g] = "idle"]
  /\ cancelGift(g) /\ softDeleteGift(g)
  /\ UNCHANGED <<due, creating, charge, inbox, acked, processed, hook, callback, unheard, restarts>>

\* Administrators cancel through updateGiftStatus, also a gift still screened.
AdminRefund(g) ==
  /\ Found(g) /\ Changes(g, "cancelled") /\ updateGiftStatus(g, "cancelled")
  /\ UNCHANGED <<deleted, due, payVars>>

-----------------------------------------------------------------------------
\* The server restarts: its memory, the gift store included, is lost; Redis
\* and Paystack keep what they have.
Restart ==
  /\ restarts < MaxRestarts /\ restarts' = restarts + 1
  /\ status' = [g \in Gifts |-> Absent] /\ deleted' = [g \in Gifts |-> FALSE]
  /\ creating' = [g \in Gifts |-> IF creating[g] = "new" THEN "new" ELSE "done"]
  /\ hook' = [h \in Hooks |-> Idle]
  /\ callback' = [g \in Gifts |-> "idle"] /\ removal' = [g \in Gifts |-> "idle"]
  /\ UNCHANGED <<due, charge, inbox, acked, processed, unheard>>

Deliver(g, e) == HookKnown(g, e) \/ \E h \in Hooks : HookRead(h, g, e)
Hook(h) == HookApply(h) \/ HookMark(h) \/ HookMarkFails(h)
Callback(g) == CallbackVerify(g) \/ \E valid \in BOOLEAN : CallbackApply(g, valid)
Remove(g) ==
  RemoveStart(g) \/ Refund(g) \/ RefundThrows(g) \/ RefundUnheard(g) \/ RemoveFinish(g)

PaymentStep ==
  \/ \E g \in Gifts : \/ CreateInsert(g) \/ CreateScreen(g) \/ CreateCharge(g) \/ Pay(g) \/ Fund(g)
                      \/ KeyExpires(g) \/ Callback(g) \/ Remove(g)
                      \/ \E e \in Events : OtherEvent(g, e) \/ Deliver(g, e)
  \/ \E h \in Hooks : Hook(h)

Next ==
  \/ PaymentStep
  \/ Restart
  \/ \E g \in Gifts : AdminRefund(g) \/ (UnlockTimePasses(g) /\ UNCHANGED payVars)

\* Paystack delivers an event until it is answered 200; a request that has
\* started goes on, and Redis does not fail it every time; paid gifts get
\* funded, where a deployment does that.
Fairness ==
  /\ \A g \in Gifts : /\ WF_vars(Fund(g)) /\ WF_vars(RemoveFinish(g))
                      /\ \A e \in Events : WF_vars(Deliver(g, e))
  /\ \A h \in Hooks : WF_vars(HookApply(h)) /\ SF_vars(HookMark(h))

Spec == Init /\ [][Next]_vars /\ Fairness

-----------------------------------------------------------------------------
TypeOK == StoreTypeOK /\ PaymentTypeOK

\* What keeps a payment from being lost on the way: the gift store has not been
\* lost in a restart, and no other event on the gift's reference has been
\* processed, whose Redis key makes the webhook answer 200 to the payment unread.
Undisturbed(g) == restarts = 0 /\ acked[g] \subseteq {"charge.success"}

\* A charge.success that was answered 200 has been applied: the gift has left
\* the statuses of a gift that waits for its money.  Paystack will not report
\* the payment again, so a gift that slips through here stays unpaid for good.
AckMeansApplied ==
  \A g \in Gifts : "charge.success" \in acked[g] /\ Undisturbed(g) =>
    status[g] \notin {Absent, "pending_payment", "funded"}

\* Status and money agree, whatever webhooks, callbacks and removals overlap: a
\* gift that counts as funded or locked has its money at Paystack, and a
\* refunded one is cancelled.  Two moments are exempt: between the refund and
\* the DELETE handler hearing of it, and, for good, after a refund that was made
\* and whose answer was lost, which leaves the gift as it was without its money.
MoneyMatchesStatus ==
  \A g \in Gifts : removal[g] # "answered" /\ g \notin unheard =>
    /\ status[g] \in {"funded", "locked"} => charge[g] = "paid"
    /\ charge[g] = "refunded" => status[g] \in {"cancelled", Absent}

\* Nothing late brings a cancelled gift back, webhook, callback or restart, but
\* one thing: createGift's own fraud check, when an administrator was faster.
CancelledIsFinal ==
  [][\A g \in Gifts : status[g] = "cancelled" =>
       \/ status'[g] \in {"cancelled", Absent}
       \/ status'[g] = "pending_payment" /\ creating[g] = "inserted"]_vars

\* A gift that was paid for gets locked, or it is taken back.
PaidGiftResolves ==
  \A g \in Gifts : charge[g] = "paid" ~>
    status[g] \in {"locked", "cancelled"} \/ ~Undisturbed(g) \/ g \in unheard
=============================================================================
