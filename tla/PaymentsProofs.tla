--------------------------- MODULE PaymentsProofs ----------------------------
(***************************************************************************)
(* Theorems about payments, for any number of gifts, webhooks, events and  *)
(* restarts, with or without the funding step: an acknowledged payment has *)
(* been applied, only its own fraud check brings a cancelled gift back,    *)
(* and status and money agree, but for refunds whose answer was lost.      *)
(*                                                                         *)
(* The argument: a gift's status tells how far its charge has come, as     *)
(* nothing is funded before it is paid or refunded before it was created,  *)
(* and a charge never goes back.  What the webhook remembers of a gift,    *)
(* in flight or in Redis, was written after the gift was locked.           *)
(***************************************************************************)
EXTENDS Payments, TLAPS

Reached == {Absent, "pending_payment", "funded", "locked", "cancelled"}
Applied(g) == creating[g] = "done" /\ status[g] \in {"locked", "cancelled"}

ChargeFollowsCreation ==
  \A g \in Gifts : /\ creating[g] # "done" => charge[g] = "none"
                   /\ creating[g] = "new" => status[g] = Absent
                   /\ creating[g] # "new" /\ restarts = 0 => status[g] # Absent
StatusFollowsCharge ==
  \A g \in Gifts : /\ status[g] \in Reached
                   /\ status[g] \in {"funded", "locked"} => charge[g] \in {"paid", "refunded"}
                   /\ removal[g] = "answered" => charge[g] = "refunded"
EventsFollowCharge ==
  /\ \A g \in Gifts : inbox[g] # {} => charge[g] # "none"
  /\ \A h \in Hooks : hook[h].pc = "apply" => charge[hook[h].gift] # "none"
MarksFollowLock ==
  /\ \A g \in Gifts :
       (g \in processed \/ "charge.success" \in acked[g]) /\ Undisturbed(g) => Applied(g)
  /\ \A h \in Hooks :
       hook[h].pc = "mark" /\ hook[h].event = "charge.success" /\ restarts = 0 =>
         Applied(hook[h].gift)

IInv == TypeOK /\ ChargeFollowsCreation /\ StatusFollowsCharge /\ EventsFollowCharge /\ MarksFollowLock

-----------------------------------------------------------------------------
LEMMA InitIInv == Init => IInv
<1> SUFFICES ASSUME Init PROVE IInv
  OBVIOUS
<1>1. TypeOK
  BY PaymentsAssumption DEF Init, PaymentInit, TypeOK, StoreTypeOK, PaymentTypeOK, InFlight
<1>2. ChargeFollowsCreation /\ StatusFollowsCharge
  BY AbsentAssumption
     DEF Init, PaymentInit, ChargeFollowsCreation, StatusFollowsCharge, Reached, Status
<1>3. EventsFollowCharge /\ MarksFollowLock
  BY DEF Init, PaymentInit, EventsFollowCharge, MarksFollowLock, Undisturbed, Idle
<1> QED
  BY <1>1, <1>2, <1>3 DEF IInv

\* A request in flight is about a gift and an event.
LEMMA HookType ==
  ASSUME TypeOK, NEW h \in Hooks, hook[h].pc \in {"apply", "mark"}
  PROVE  /\ hook[h].gift \in Gifts /\ hook[h].event \in Events
         /\ [hook[h] EXCEPT !.pc = "mark"] \in InFlight
         /\ [hook[h] EXCEPT !.pc = "mark"].gift = hook[h].gift
         /\ [hook[h] EXCEPT !.pc = "mark"].event = hook[h].event
<1>1. hook[h] \in [pc : {"apply", "mark"}, gift : Gifts, event : Events]
  BY DEF TypeOK, PaymentTypeOK, InFlight, Idle
<1> QED
  BY <1>1 DEF InFlight

\* What a status update does to a gift that was created here.
LEMMA UpdateFacts ==
  ASSUME TypeOK, StatusFollowsCharge, NEW g \in Gifts, NEW s \in Status, updateGiftStatus(g, s)
  PROVE  /\ status' \in [Gifts -> Status \cup {Absent}]
         /\ \A h \in Gifts : h # g => status'[h] = status[h]
         /\ \/ status'[g] = status[g]
            \/ /\ status'[g] = s
               /\ s = "funded" => status[g] = "pending_payment"
               /\ s = "locked" => status[g] = "funded"
               /\ s # "pending_payment"
BY AbsentAssumption
   DEF TypeOK, StoreTypeOK, StatusFollowsCharge, Reached, Status, updateGiftStatus, Changes,
       isValidTransition, TRANSITIONS

-----------------------------------------------------------------------------
\* A charge only goes forward.
Charges == {"none", "open", "paid", "refunded"}
LEMMA ChargeMoves ==
  ASSUME IInv, PaymentStep
  PROVE  /\ charge' \in [Gifts -> Charges]
         /\ \A g \in Gifts :
              \/ charge'[g] = charge[g] /\ (creating'[g] = "done" \/ creating[g] # "done")
              \/ charge[g] = "none" /\ charge'[g] = "open" /\ creating'[g] = "done"
              \/ charge[g] = "open" /\ charge'[g] = "paid" /\ creating'[g] = creating[g]
              \/ charge[g] = "paid" /\ charge'[g] = "refunded" /\ creating'[g] = creating[g]
                 /\ removal'[g] = "answered"
<1> USE DEF IInv, TypeOK, PaymentTypeOK, Charges
<1>1. ASSUME NEW g \in Gifts, CreateCharge(g) PROVE
         /\ charge' \in [Gifts -> Charges]
         /\ \A f \in Gifts : f # g => charge'[f] = charge[f] /\ creating'[f] = creating[f]
         /\ charge'[g] = charge[g] \/ (charge[g] = "none" /\ charge'[g] = "open")
         /\ creating'[g] = "done"
  <2>1. charge[g] = "none"
    BY <1>1 DEF CreateCharge, ChargeFollowsCreation
  <2>2. CASE charge' = charge
    BY <1>1, <2>2 DEF CreateCharge
  <2>3. CASE charge' = [charge EXCEPT ![g] = "open"]
    BY <1>1, <2>1, <2>3 DEF CreateCharge
  <2> QED
    BY <1>1, <2>2, <2>3 DEF CreateCharge
<1>2. ASSUME NEW g \in Gifts, Pay(g) \/ Refund(g) PROVE
         /\ charge' \in [Gifts -> Charges] /\ UNCHANGED creating
         /\ \A f \in Gifts : f # g => charge'[f] = charge[f]
         /\ \/ charge[g] = "open" /\ charge'[g] = "paid"
            \/ charge[g] = "paid" /\ charge'[g] = "refunded" /\ removal'[g] = "answered"
  BY <1>2 DEF Pay, Refund
<1>3. ASSUME NEW g \in Gifts, CreateInsert(g) \/ CreateScreen(g)
      PROVE  /\ UNCHANGED charge
             /\ \A f \in Gifts : creating'[f] # creating[f] => creating[f] # "done"
  BY <1>3 DEF CreateInsert, CreateScreen
<1>4. ASSUME \/ \E g \in Gifts : \/ Fund(g) \/ KeyExpires(g) \/ Callback(g) \/ RemoveStart(g)
                                 \/ RefundThrows(g) \/ RefundUnheard(g) \/ RemoveFinish(g)
                                 \/ \E e \in Events : OtherEvent(g, e) \/ Deliver(g, e)
             \/ \E h \in Hooks : Hook(h)
      PROVE  UNCHANGED <<charge, creating>>
  BY <1>4 DEF Fund, KeyExpires, Callback, CallbackVerify, CallbackApply, RemoveStart, RefundThrows,
     RefundUnheard, RemoveFinish, OtherEvent, Deliver, HookKnown, HookRead, Hook, HookApply, HookMark,
     HookMarkFails, payVars
<1> QED
  BY <1>1, <1>2, <1>3, <1>4 DEF PaymentStep, Remove

\* And so does the status, behind it.
LEMMA StatusMoves ==
  ASSUME IInv, PaymentStep
  PROVE  /\ status' \in [Gifts -> Status \cup {Absent}]
         /\ \A g \in Gifts :
              \/ status'[g] = status[g]
              \/ status'[g] = "pending_payment"
                 /\ creating[g] \in {"new", "inserted"} /\ creating'[g] # "new"
              \/ status'[g] = "funded" /\ status[g] = "pending_payment" /\ charge[g] = "paid"
              \/ status'[g] = "locked" /\ status[g] = "funded"
              \/ status'[g] = "cancelled" /\ removal[g] = "answered" /\ UNCHANGED charge
<1> USE DEF IInv, TypeOK, StoreTypeOK
<1> DEFINE Moved(g) == \/ status'[g] = status[g]
                       \/ status'[g] = "pending_payment"
                          /\ creating[g] \in {"new", "inserted"} /\ creating'[g] # "new"
                       \/ status'[g] = "funded" /\ status[g] = "pending_payment" /\ charge[g] = "paid"
                       \/ status'[g] = "locked" /\ status[g] = "funded"
                       \/ status'[g] = "cancelled" /\ removal[g] = "answered" /\ UNCHANGED charge
<1> DEFINE Good == status' \in [Gifts -> Status \cup {Absent}] /\ \A g \in Gifts : Moved(g)
<1>1. ASSUME NEW g \in Gifts, CreateInsert(g) \/ CreateScreen(g) PROVE Good
  BY <1>1 DEF CreateInsert, CreateScreen, Status, PaymentTypeOK
<1>2. ASSUME NEW g \in Gifts, Fund(g) PROVE Good
  BY <1>2, UpdateFacts DEF Fund, Status
<1>3. ASSUME NEW g \in Gifts, CallbackApply(g, TRUE) \/ CallbackApply(g, FALSE) PROVE Good
  BY <1>3, UpdateFacts DEF CallbackApply, Status
<1>4. ASSUME NEW h \in Hooks, HookApply(h) PROVE Good
  BY <1>4, UpdateFacts, HookType DEF HookApply, Status
<1>5. ASSUME NEW g \in Gifts, RemoveFinish(g) PROVE Good
  BY <1>5 DEF RemoveFinish, cancelGift, Status
<1>6. ASSUME \/ \E g \in Gifts : \/ CreateCharge(g) \/ Pay(g) \/ KeyExpires(g) \/ CallbackVerify(g)
                                 \/ RemoveStart(g) \/ Refund(g) \/ RefundThrows(g) \/ RefundUnheard(g)
                                 \/ \E e \in Events : OtherEvent(g, e) \/ Deliver(g, e)
             \/ \E h \in Hooks : HookMark(h) \/ HookMarkFails(h)
      PROVE  UNCHANGED status
  BY <1>6 DEF CreateCharge, Pay, KeyExpires, CallbackVerify, RemoveStart, Refund, RefundThrows,
     RefundUnheard, OtherEvent, Deliver, HookKnown, HookRead, HookMark, HookMarkFails, storeVars
<1>7. CASE UNCHANGED status
  BY <1>7
<1>8. CASE ~UNCHANGED status
  BY <1>1, <1>2, <1>3, <1>4, <1>5, <1>6, <1>8 DEF PaymentStep, Callback, Remove, Hook
<1> QED
  BY <1>7, <1>8

\* What is in memory, in Redis and at Paystack keeps its shape.
LEMMA StepTypeOK ==
  ASSUME IInv, PaymentStep
  PROVE  TypeOK'
<1> DEFINE Rest == /\ deleted' \in [Gifts -> BOOLEAN] /\ due' \in [Gifts -> BOOLEAN]
                   /\ creating' \in [Gifts -> {"new", "inserted", "screened", "done"}]
                   /\ inbox' \in [Gifts -> SUBSET Events] /\ acked' \in [Gifts -> SUBSET Events]
                   /\ processed' \subseteq Gifts
                   /\ hook' \in [Hooks -> InFlight]
                   /\ callback' \in [Gifts -> {"idle", "verified"}]
                   /\ removal' \in [Gifts -> {"idle", "asking", "answered"}] /\ unheard' \subseteq Gifts
                   /\ restarts' \in 0..MaxRestarts
<1> USE DEF IInv, TypeOK, StoreTypeOK, PaymentTypeOK
<1>1. ASSUME NEW g \in Gifts,
             \/ CreateInsert(g) \/ CreateScreen(g) \/ CreateCharge(g) \/ Fund(g) \/ KeyExpires(g)
             \/ Callback(g) \/ Remove(g)
      PROVE  Rest
  BY <1>1 DEF CreateInsert, CreateScreen, CreateCharge, Fund, KeyExpires, Callback, CallbackVerify,
     CallbackApply, Remove, RemoveStart, Refund, RefundThrows, RefundUnheard,
     RemoveFinish, softDeleteGift,     storeVars, payVars
<1>2. ASSUME NEW g \in Gifts, Pay(g) \/ \E e \in Events : OtherEvent(g, e) \/ HookKnown(g, e)
      PROVE  Rest
  BY <1>2, PaymentsAssumption DEF Pay, OtherEvent, HookKnown, Ack, storeVars
<1>3. ASSUME NEW g \in Gifts, NEW e \in Events, NEW h \in Hooks, HookRead(h, g, e)
      PROVE  Rest
  BY <1>3 DEF HookRead, InFlight, storeVars
<1>4. ASSUME NEW h \in Hooks, Hook(h)
      PROVE  Rest
  <2>1. CASE HookApply(h)
    <3>1. [hook[h] EXCEPT !.pc = "mark"] \in InFlight /\ Idle \in InFlight
      BY <2>1, HookType DEF HookApply, InFlight
    <3>2. hook' \in [Hooks -> InFlight]
      BY <2>1, <3>1 DEF HookApply
    <3> QED
      BY <2>1, <3>2 DEF HookApply
  <2>2. CASE HookMark(h) \/ HookMarkFails(h)
    <3>1. hook[h].gift \in Gifts /\ hook[h].event \in Events
      BY <2>2, HookType DEF HookMark, HookMarkFails
    <3> QED
      BY <2>2, <3>1 DEF HookMark, HookMarkFails, Ack, InFlight, storeVars
  <2> QED
    BY <1>4, <2>1, <2>2 DEF Hook
<1>5. Rest
  BY <1>1, <1>2, <1>3, <1>4 DEF PaymentStep, Deliver
<1> QED
  BY <1>5, ChargeMoves, StatusMoves DEF Charges

LEMMA StepStatus ==
  ASSUME IInv, PaymentStep
  PROVE  ChargeFollowsCreation' /\ StatusFollowsCharge'
<1>1. \A g \in Gifts : removal'[g] = "answered" => removal[g] = "answered" \/ charge'[g] = "refunded"
  <2>1. ASSUME NEW g \in Gifts, Refund(g) PROVE charge'[g] = "refunded"
    BY <2>1 DEF Refund, IInv, TypeOK, PaymentTypeOK
  <2> QED
    BY <2>1 DEF PaymentStep, CreateInsert, CreateScreen, CreateCharge, Pay, Fund, KeyExpires,
       Callback, CallbackVerify, CallbackApply, Remove, RemoveStart, Refund, RefundThrows,
     RefundUnheard, RemoveFinish, OtherEvent, Deliver, HookKnown, HookRead, Hook, HookApply, HookMark,
       HookMarkFails, payVars, IInv, TypeOK, PaymentTypeOK
<1>2. restarts' = restarts
  BY DEF PaymentStep, CreateInsert, CreateScreen, CreateCharge, Pay, Fund, KeyExpires,
     Callback, CallbackVerify, CallbackApply, Remove, RemoveStart, Refund, RefundThrows,
     RefundUnheard, RemoveFinish, OtherEvent, Deliver, HookKnown, HookRead, Hook, HookApply, HookMark,
     HookMarkFails, payVars
<1>3. \A g \in Gifts : creating[g] = "new" /\ creating'[g] # "new" => status'[g] = "pending_payment"
  BY DEF PaymentStep, CreateInsert, CreateScreen, CreateCharge, Pay, Fund, KeyExpires,
     Callback, CallbackVerify, CallbackApply, Remove, RemoveStart, Refund, RefundThrows,
     RefundUnheard, RemoveFinish, OtherEvent, Deliver, HookKnown, HookRead, Hook, HookApply, HookMark,
     HookMarkFails, payVars, IInv, TypeOK, StoreTypeOK, PaymentTypeOK
<1>4. ChargeFollowsCreation'
  <2> SUFFICES ASSUME NEW g \in Gifts
               PROVE  /\ creating'[g] # "done" => charge'[g] = "none"
                      /\ creating'[g] = "new" => status'[g] = Absent
                      /\ creating'[g] # "new" /\ restarts' = 0 => status'[g] # Absent
    BY DEF ChargeFollowsCreation
  <2>1. creating'[g] = "new" => creating[g] = "new"
    BY DEF PaymentStep, CreateInsert, CreateScreen, CreateCharge, Pay, Fund, KeyExpires,
       Callback, CallbackVerify, CallbackApply, Remove, RemoveStart, Refund, RefundThrows,
     RefundUnheard, RemoveFinish, OtherEvent, Deliver, HookKnown, HookRead, Hook, HookApply, HookMark,
       HookMarkFails, payVars, IInv, TypeOK, StoreTypeOK, PaymentTypeOK
  <2> QED
    BY <1>2, <1>3, <2>1, ChargeMoves, StatusMoves, AbsentAssumption
       DEF IInv, ChargeFollowsCreation, StatusFollowsCharge, Status
<1>5. StatusFollowsCharge'
  <2> SUFFICES ASSUME NEW g \in Gifts
               PROVE  /\ status'[g] \in Reached
                      /\ status'[g] \in {"funded", "locked"} => charge'[g] \in {"paid", "refunded"}
                      /\ removal'[g] = "answered" => charge'[g] = "refunded"
    BY DEF StatusFollowsCharge
  <2>1. /\ status[g] \in Reached
        /\ status[g] \in {"funded", "locked"} => charge[g] \in {"paid", "refunded"}
        /\ removal[g] = "answered" => charge[g] = "refunded"
    BY DEF IInv, StatusFollowsCharge
  <2>2. /\ charge[g] \in {"paid", "refunded"} => charge'[g] \in {"paid", "refunded"}
        /\ charge[g] = "refunded" => charge'[g] = "refunded"
    BY ChargeMoves
  <2> QED
    BY <1>1, <2>1, <2>2, StatusMoves, AbsentAssumption DEF Reached, Status
<1> QED
  BY <1>4, <1>5

-----------------------------------------------------------------------------
\* What has been locked or cancelled for a payment stays so.
LEMMA AppliedForGood ==
  ASSUME IInv, PaymentStep, NEW g \in Gifts, Applied(g)
  PROVE  Applied(g)'
<1>1. creating'[g] = "done"
  BY ChargeMoves DEF Applied
<1> QED
  BY <1>1, StatusMoves DEF Applied

LEMMA StepEvents ==
  ASSUME IInv, PaymentStep
  PROVE  EventsFollowCharge'
<1>1. \A g \in Gifts : charge[g] # "none" => charge'[g] # "none"
  BY ChargeMoves
<1>2. ASSUME NEW g \in Gifts, inbox'[g] # {} PROVE inbox[g] # {} \/ charge[g] # "none"
  <2>1. ASSUME NEW f \in Gifts, Pay(f) PROVE inbox[g] # {} \/ charge[g] # "none"
    BY <1>2, <2>1 DEF Pay, IInv, TypeOK, PaymentTypeOK
  <2>2. ASSUME NEW f \in Gifts, NEW e \in Events, OtherEvent(f, e)
        PROVE  inbox[g] # {} \/ charge[g] # "none"
    BY <1>2, <2>2 DEF OtherEvent, IInv, TypeOK, PaymentTypeOK
  <2>3. ASSUME NEW f, NEW e, Ack(f, e) PROVE inbox[g] # {}
    BY <1>2, <2>3 DEF Ack, IInv, TypeOK, PaymentTypeOK
  <2>4. CASE UNCHANGED inbox
    BY <1>2, <2>4
  <2>5. CASE ~UNCHANGED inbox
    BY <2>1, <2>2, <2>3, <2>5 DEF PaymentStep, CreateInsert, CreateScreen, CreateCharge, Fund,
       KeyExpires, Callback, CallbackVerify, CallbackApply, Remove, RemoveStart, Refund,
       RefundThrows, RefundUnheard, RemoveFinish, Deliver, HookKnown, HookRead, Hook, HookApply, HookMark,
       HookMarkFails, payVars
  <2> QED
    BY <2>4, <2>5
<1>3. ASSUME NEW h \in Hooks, hook'[h].pc = "apply"
      PROVE  hook'[h].gift \in Gifts /\ charge[hook'[h].gift] # "none"
  <2>1. CASE hook'[h] = hook[h]
    BY <1>3, <2>1, HookType DEF IInv, EventsFollowCharge
  <2>2. CASE hook'[h] # hook[h]
    <3>1. ASSUME NEW k \in Hooks, Hook(k) PROVE FALSE
      <4>1. hook'[k] = Idle \/ hook'[k] = [hook[k] EXCEPT !.pc = "mark"]
        BY <3>1 DEF Hook, HookApply, HookMark, HookMarkFails, IInv, TypeOK, PaymentTypeOK
      <4>2. k = h
        BY <2>2, <3>1 DEF Hook, HookApply, HookMark, HookMarkFails, IInv, TypeOK, PaymentTypeOK
      <4>3. hook[k].pc \in {"apply", "mark"}
        BY <3>1 DEF Hook, HookApply, HookMark, HookMarkFails
      <4>4. [hook[k] EXCEPT !.pc = "mark"].pc = "mark"
        <5>1. hook[k] \in [pc : {"apply", "mark"}, gift : Gifts, event : Events]
          BY <4>3 DEF IInv, TypeOK, PaymentTypeOK, InFlight, Idle
        <5> QED
          BY <5>1
      <4>5. CASE hook'[k] = Idle
        BY <1>3, <4>2, <4>5 DEF Idle
      <4>6. CASE hook'[k] = [hook[k] EXCEPT !.pc = "mark"]
        <5>1. hook'[h].pc = "mark"
          BY <4>2, <4>4, <4>6
        <5> QED
          BY <1>3, <5>1
      <4> QED
        BY <4>1, <4>5, <4>6
    <3>2. PICK g \in Gifts, e \in Events, k \in Hooks : HookRead(k, g, e)
      BY <2>2, <3>1 DEF PaymentStep, CreateInsert, CreateScreen, CreateCharge, Pay, Fund,
         KeyExpires, Callback, CallbackVerify, CallbackApply, Remove, RemoveStart, Refund,
         RefundThrows, RefundUnheard, RemoveFinish, OtherEvent, Deliver, HookKnown, payVars
    <3>3. hook'[h].gift = g
      BY <2>2, <3>2 DEF HookRead, IInv, TypeOK, PaymentTypeOK
    <3> QED
      BY <3>2, <3>3 DEF HookRead, IInv, EventsFollowCharge
  <2> QED
    BY <2>1, <2>2
<1> QED
  BY <1>1, <1>2, <1>3 DEF IInv, EventsFollowCharge

LEMMA StepMarks ==
  ASSUME IInv, PaymentStep
  PROVE  MarksFollowLock'
<1>1. restarts' = restarts
  BY DEF PaymentStep, CreateInsert, CreateScreen, CreateCharge, Pay, Fund, KeyExpires,
     Callback, CallbackVerify, CallbackApply, Remove, RemoveStart, Refund, RefundThrows,
     RefundUnheard, RemoveFinish, OtherEvent, Deliver, HookKnown, HookRead, Hook, HookApply, HookMark,
     HookMarkFails, payVars
<1>2. ASSUME NEW g \in Gifts, g \in processed' \/ "charge.success" \in acked'[g], Undisturbed(g)'
      PROVE  Applied(g)
  <2>1. ASSUME NEW f \in Gifts, NEW e \in Events, Ack(f, e)
        PROVE  /\ Undisturbed(g)
               /\ f = g => e = "charge.success"
               /\ f # g => acked'[g] = acked[g]
    BY <1>1, <1>2, <2>1 DEF Ack, Undisturbed, IInv, TypeOK, PaymentTypeOK
  <2>2. ASSUME NEW f \in Gifts, NEW e \in Events, HookKnown(f, e)
        PROVE  Applied(g)
    BY <1>2, <2>1, <2>2 DEF HookKnown, IInv, MarksFollowLock
  <2>3. ASSUME NEW h \in Hooks, HookMark(h)
        PROVE  Applied(g)
    <3>1. hook[h].gift \in Gifts /\ hook[h].event \in Events
      BY <2>3, HookType DEF HookMark, IInv
    <3> QED
      BY <1>1, <1>2, <2>1, <2>3, <3>1 DEF HookMark, IInv, MarksFollowLock, Undisturbed
  <2>4. CASE acked' = acked /\ processed' \subseteq processed
    BY <1>1, <1>2, <2>4 DEF IInv, MarksFollowLock, Undisturbed
  <2>5. CASE ~(acked' = acked /\ processed' \subseteq processed)
    BY <2>2, <2>3, <2>5 DEF PaymentStep, CreateInsert, CreateScreen, CreateCharge, Pay, Fund,
       KeyExpires, Callback, CallbackVerify, CallbackApply, Remove, RemoveStart, Refund,
       RefundThrows, RefundUnheard, RemoveFinish, OtherEvent, Deliver, HookRead, Hook, HookApply,
       HookMarkFails, payVars
  <2> QED
    BY <2>4, <2>5
<1>3. ASSUME NEW h \in Hooks, hook'[h].pc = "mark", hook'[h].event = "charge.success", restarts' = 0
      PROVE  creating'[hook'[h].gift] = "done" /\ status'[hook'[h].gift] \in {"locked", "cancelled"}
  <2>1. CASE hook'[h] = hook[h]
    <3>1. hook[h].gift \in Gifts /\ Applied(hook[h].gift)
      BY <1>1, <1>3, <2>1, HookType DEF IInv, MarksFollowLock
    <3> QED
      BY <2>1, <3>1, AppliedForGood DEF Applied
  <2>2. CASE hook'[h] # hook[h]
    <3>1. PICK k \in Hooks : HookApply(k)
      <4>1. ASSUME NEW k \in Hooks, HookMark(k) \/ HookMarkFails(k) PROVE FALSE
        BY <1>3, <2>2, <4>1 DEF HookMark, HookMarkFails, Idle, IInv, TypeOK, PaymentTypeOK
      <4>2. ASSUME NEW g \in Gifts, NEW e \in Events, NEW k \in Hooks, HookRead(k, g, e) PROVE FALSE
        BY <1>3, <2>2, <4>2 DEF HookRead, IInv, TypeOK, PaymentTypeOK
      <4> QED
        BY <2>2, <4>1, <4>2 DEF PaymentStep, CreateInsert, CreateScreen, CreateCharge, Pay, Fund,
           KeyExpires, Callback, CallbackVerify, CallbackApply, Remove, RemoveStart, Refund,
           RefundThrows, RefundUnheard, RemoveFinish, OtherEvent, Deliver, HookKnown, Hook, payVars
    <3>2. k = h /\ hook[h].pc = "apply"
      BY <2>2, <3>1 DEF HookApply, IInv, TypeOK, PaymentTypeOK
    <3>3. /\ hook'[h] = [hook[h] EXCEPT !.pc = "mark"]
          /\ ~(hook[h].event = "charge.success" /\ "throw" \in Outcomes(hook[h].gift, "locked"))
      BY <1>3, <3>1, <3>2 DEF HookApply, Idle, IInv, TypeOK, PaymentTypeOK
    <3>4. /\ hook[h].gift \in Gifts /\ hook'[h].gift = hook[h].gift
          /\ hook[h].event = "charge.success"
      BY <1>3, <3>2, <3>3, HookType DEF IInv
    <3>5. status[hook[h].gift] # Absent /\ creating[hook[h].gift] = "done"
      BY <1>1, <1>3, <3>2, <3>4 DEF IInv, EventsFollowCharge, ChargeFollowsCreation
    <3>6. Changes(hook[h].gift, "locked")
      BY <3>3, <3>4, <3>5 DEF Outcomes, Changes
    <3>7. status'[hook[h].gift] = "locked"
      BY <3>1, <3>2, <3>4, <3>6 DEF HookApply, updateGiftStatus, IInv, TypeOK, StoreTypeOK
    <3> QED
      BY <3>1, <3>4, <3>5, <3>7 DEF Applied, HookApply
  <2> QED
    BY <2>1, <2>2
<1> QED
  BY <1>2, <1>3, AppliedForGood DEF MarksFollowLock, Applied

LEMMA RestartIInv ==
  ASSUME IInv, Restart
  PROVE  IInv'
<1>1. TypeOK'
  BY PaymentsAssumption DEF Restart, IInv, TypeOK, StoreTypeOK, PaymentTypeOK, InFlight
<1>2. restarts' # 0
  BY DEF Restart, IInv, TypeOK, PaymentTypeOK
<1>3. ChargeFollowsCreation'
  BY <1>2 DEF Restart, IInv, ChargeFollowsCreation
<1>4. StatusFollowsCharge'
  BY AbsentAssumption DEF Restart, StatusFollowsCharge, Reached, Status
<1>5. EventsFollowCharge' /\ MarksFollowLock'
  BY <1>2 DEF Restart, IInv, EventsFollowCharge, MarksFollowLock, Undisturbed, Idle
<1> QED
  BY <1>1, <1>3, <1>4, <1>5 DEF IInv

LEMMA UntouchedIInv ==
  ASSUME IInv, UNCHANGED <<status, deleted, payVars>>, due' \in [Gifts -> BOOLEAN]
  PROVE  IInv'
BY DEF IInv, TypeOK, StoreTypeOK, PaymentTypeOK, ChargeFollowsCreation, StatusFollowsCharge,
       EventsFollowCharge, MarksFollowLock, Undisturbed, Applied, payVars

\* An administrator cancels: no money moves, and what was applied stays so.
LEMMA AdminIInv ==
  ASSUME IInv, NEW g \in Gifts, AdminRefund(g)
  PROVE  /\ IInv' /\ UNCHANGED <<charge, creating, removal, unheard>>
         /\ \A h \in Gifts : status'[h] = status[h] \/ status'[h] = "cancelled"
<1>1. UNCHANGED payVars /\ UNCHANGED <<deleted, due>>
  BY DEF AdminRefund
<1>2. /\ status' \in [Gifts -> Status \cup {Absent}]
      /\ \A h \in Gifts : status'[h] = status[h] \/ (status[h] # Absent /\ status'[h] = "cancelled")
  BY DEF AdminRefund, Found, Changes, updateGiftStatus, IInv, TypeOK, StoreTypeOK, Status
<1>3. TypeOK'
  BY <1>1, <1>2 DEF IInv, TypeOK, StoreTypeOK, PaymentTypeOK, payVars
<1>4. ChargeFollowsCreation'
  BY <1>1, <1>2, AbsentAssumption DEF IInv, ChargeFollowsCreation, payVars, Status
<1>5. StatusFollowsCharge'
  BY <1>1, <1>2 DEF IInv, StatusFollowsCharge, Reached, payVars
<1>6. \A h \in Gifts : Applied(h) => Applied(h)'
  BY <1>1, <1>2 DEF Applied, payVars
<1>7. EventsFollowCharge'
  BY <1>1 DEF IInv, EventsFollowCharge, payVars
<1>8. MarksFollowLock'
  <2>1. \A h \in Hooks : hook[h].pc = "mark" => hook[h].gift \in Gifts
    BY HookType DEF IInv
  <2> QED
    BY <1>1, <1>6, <2>1 DEF IInv, MarksFollowLock, Undisturbed, payVars
<1> QED
  BY <1>1, <1>2, <1>3, <1>4, <1>5, <1>7, <1>8 DEF IInv, payVars

LEMMA NextIInv == IInv /\ [Next]_vars => IInv'
<1> SUFFICES ASSUME IInv, [Next]_vars PROVE IInv'
  OBVIOUS
<1>1. CASE PaymentStep
  BY <1>1, StepTypeOK, StepStatus, StepEvents, StepMarks DEF IInv
<1>2. ASSUME NEW g \in Gifts, UnlockTimePasses(g), UNCHANGED payVars PROVE IInv'
  BY <1>2, UntouchedIInv DEF UnlockTimePasses, IInv, TypeOK, StoreTypeOK
<1>3. CASE UNCHANGED vars
  BY <1>3, UntouchedIInv DEF vars, storeVars, IInv, TypeOK, StoreTypeOK
<1> QED
  BY <1>1, <1>2, <1>3, RestartIInv, AdminIInv DEF Next

-----------------------------------------------------------------------------
\* The invariant the other results follow from, types included.
THEOREM Inductive == Spec => []IInv
<1> QED
  BY InitIInv, NextIInv, PTL DEF Spec

\* A payment the webhook answered with 200 has been applied, while nothing of
\* what is known to break this (Undisturbed) has happened to the gift.
THEOREM AcknowledgedIsApplied == Spec => []AckMeansApplied
<1>1. IInv => AckMeansApplied
  BY AbsentAssumption
     DEF IInv, MarksFollowLock, Applied, AckMeansApplied, Status
<1> QED
  BY <1>1, Inductive, PTL

\* A cancelled gift comes back only while it is being screened, by the hold of
\* its own fraud check.
THEOREM CancelledForGood == Spec => CancelledIsFinal
<1> DEFINE Final(g) == \/ status'[g] \in {"cancelled", Absent}
                       \/ status'[g] = "pending_payment" /\ creating[g] = "inserted"
<1>1. ASSUME IInv, Next, NEW g \in Gifts, status[g] = "cancelled"
      PROVE  Final(g)
  <2>1. CASE PaymentStep
    <3>1. creating[g] # "new"
      BY <1>1, AbsentAssumption DEF IInv, ChargeFollowsCreation, Status
    <3> QED
      BY <1>1, <2>1, <3>1, StatusMoves
  <2> QED
    BY <1>1, <2>1, AdminIInv DEF Next, Restart, UnlockTimePasses
<1>2. IInv /\ [Next]_vars => [\A g \in Gifts : status[g] = "cancelled" => Final(g)]_vars
  BY <1>1
<1> QED
  BY <1>2, Inductive, PTL DEF Spec, CancelledIsFinal

-----------------------------------------------------------------------------
\* A removal under way ends with its gift cancelled, if its refund is heard of.
LEMMA MoneyStep ==
  ASSUME IInv, IInv', MoneyMatchesStatus, [Next]_vars
  PROVE  MoneyMatchesStatus'
<1> SUFFICES ASSUME NEW g \in Gifts, charge'[g] = "refunded", removal'[g] # "answered", g \notin unheard'
             PROVE  status'[g] \in {"cancelled", Absent}
  BY AbsentAssumption DEF IInv, StatusFollowsCharge, MoneyMatchesStatus, Status
<1>1. CASE PaymentStep
  <2>1. CASE charge[g] # "refunded"
    BY <1>1, <2>1, ChargeMoves
  <2>2. CASE charge[g] = "refunded" /\ removal[g] # "answered" /\ g \notin unheard
    <3>1. status[g] \in {"cancelled", Absent} /\ creating[g] = "done"
      BY <2>2 DEF IInv, ChargeFollowsCreation, MoneyMatchesStatus
    <3> QED
      BY <1>1, <2>2, <3>1, StatusMoves, AbsentAssumption DEF Status
  <2>3. CASE removal[g] = "answered" \/ g \in unheard
    <3>1. CASE RemoveFinish(g)
      BY <3>1 DEF RemoveFinish, cancelGift, IInv, TypeOK, StoreTypeOK
    <3>2. CASE RefundUnheard(g)
      BY <3>2 DEF RefundUnheard
    <3>3. CASE ~RemoveFinish(g) /\ ~RefundUnheard(g)
      <4>1. (removal[g] = "answered" => removal'[g] = removal[g]) /\ unheard \subseteq unheard'
        BY <1>1, <3>3 DEF PaymentStep, CreateInsert, CreateScreen, CreateCharge, Pay, Fund,
           KeyExpires, Callback, CallbackVerify, CallbackApply, Remove, RemoveStart, Refund,
           RefundThrows, RefundUnheard, RemoveFinish, OtherEvent, Deliver, HookKnown, HookRead,
           Hook, HookApply, HookMark, HookMarkFails, payVars, IInv, TypeOK, PaymentTypeOK
      <4> QED
        BY <2>3, <4>1
    <3> QED
      BY <3>1, <3>2, <3>3
  <2> QED
    BY <2>1, <2>2, <2>3
<1>2. CASE Restart
  BY <1>2 DEF Restart
<1>3. ASSUME NEW h \in Gifts, AdminRefund(h) PROVE status'[g] \in {"cancelled", Absent}
  BY <1>3, AdminIInv DEF MoneyMatchesStatus
<1>4. CASE UNCHANGED <<status, charge, removal, unheard>>
  BY <1>4 DEF MoneyMatchesStatus
<1> QED
  BY <1>1, <1>2, <1>3, <1>4 DEF Next, UnlockTimePasses, vars, storeVars, payVars

\* Status and money agree, but for the gifts a refund of which went unheard.
THEOREM MoneyAgrees == Spec => []MoneyMatchesStatus
<1>1. Init => MoneyMatchesStatus
  BY AbsentAssumption DEF Init, PaymentInit, MoneyMatchesStatus, Status
<1>2. IInv /\ IInv' /\ MoneyMatchesStatus /\ [Next]_vars => MoneyMatchesStatus'
  BY MoneyStep
<1> QED
  BY <1>1, <1>2, Inductive, PTL DEF Spec
=============================================================================
