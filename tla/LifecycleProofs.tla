--------------------------- MODULE LifecycleProofs ---------------------------
(***************************************************************************)
(* Theorems about the life of gifts, for any number of gifts, requests,    *)
(* webhooks, attempts and restarts, with lost answers and administrators:  *)
(* what is paid out was paid in, and the sender can begin to take a gift   *)
(* back only while nobody has begun to pay it out.                         *)
(*                                                                         *)
(* The argument follows a payment backwards: to a job, to the request that *)
(* enqueued it, to the unlocked gift it saw, and from there through the    *)
(* table of transitions to a charge that was paid.  A status can be lost   *)
(* in a restart; a charge that was paid stays paid or is refunded, and an  *)
(* unlock time that has passed stays passed.                               *)
(***************************************************************************)
EXTENDS Lifecycle, TLAPS

PaidIn(g) == charge[g] \in {"paid", "refunded"}
Earned(g) == PaidIn(g) /\ due[g]

Staged == [pc : Payout!Stages, gift : Gifts, nonce : Nonces]
RequestStates == {Payout!Ready, [pc |-> "done"]} \cup Staged

Types ==
  /\ status \in [Gifts -> Status \cup {Absent}] /\ due \in [Gifts -> BOOLEAN]
  /\ creating \in [Gifts -> {"new", "inserted", "screened", "done"}]
  /\ charge \in [Gifts -> {"none", "open", "paid", "refunded"}]
  /\ removal \in [Gifts -> {"idle", "asking", "answered"}]
  /\ request \in [Requests -> RequestStates]
  /\ job \in [Gifts -> Payout!JobStates] /\ paid \in [Gifts -> Nat]

\* A charge is opened once; the statuses after pending_payment tell that it was
\* paid; and all that leads to a payout, that the unlock time has passed as well.
ChargedOnce == \A g \in Gifts : creating[g] # "done" => charge[g] = "none"
StatusEarned ==
  \A g \in Gifts : /\ status[g] \in {"funded", "locked", "unlocked", "claimed"} => PaidIn(g)
                   /\ status[g] \in {"unlocked", "claimed"} => due[g]
PayoutEarned == \A g \in Gifts : job[g] # "none" \/ paid[g] > 0 => Earned(g)
RequestEarned == \A r \in Requests : request[r].pc = "enqueue" => Earned(request[r].gift)

IInv == Types /\ ChargedOnce /\ StatusEarned /\ PayoutEarned /\ RequestEarned

-----------------------------------------------------------------------------
\* What a status update does, by the table of transitions.
LEMMA UpdateFacts ==
  ASSUME Types, NEW g, NEW s \in Status,
         \/ Payment!updateGiftStatus(g, s)
         \/ Payout!updateGiftStatus(g, s)
  PROVE  /\ status' \in [Gifts -> Status \cup {Absent}]
         /\ \A h \in Gifts : h # g => status'[h] = status[h]
         /\ g \in Gifts =>
              \/ status'[g] = status[g]
              \/ /\ status'[g] = s
                 /\ s = "locked" => status[g] = "funded"
                 /\ s = "unlocked" => status[g] = "locked"
                 /\ s = "claimed" => status[g] = "unlocked"
BY AbsentAssumption
   DEF Types, Status, Payment!updateGiftStatus, Payment!Changes,
       Payment!isValidTransition, Payment!TRANSITIONS, Payout!updateGiftStatus, Payout!Changes,
       Payout!isValidTransition, Payout!TRANSITIONS

LEMMA InitIInv == Init => IInv
<1> SUFFICES ASSUME Init PROVE IInv
  OBVIOUS
<1>1. Types
  BY DEF Init, Payment!Init, Payment!PaymentInit, Payout!ClaimInit, Types,
         RequestStates, Payout!Ready, Payout!JobStates
<1>2. ChargedOnce /\ StatusEarned /\ PayoutEarned /\ RequestEarned
  BY AbsentAssumption
     DEF Init, Payment!Init, Payment!PaymentInit, Payout!ClaimInit, Payout!Ready, Status,
         ChargedOnce, StatusEarned, PayoutEarned, RequestEarned
<1> QED
  BY <1>1, <1>2 DEF IInv

-----------------------------------------------------------------------------
\* The steps that leave claims alone.
\* A paid charge stays paid or is refunded.
LEMMA PaidInForGood ==
  ASSUME IInv, Payment!PaymentStep
  PROVE  /\ charge' \in [Gifts -> {"none", "open", "paid", "refunded"}]
         /\ creating' \in [Gifts -> {"new", "inserted", "screened", "done"}]
         /\ removal' \in [Gifts -> {"idle", "asking", "answered"}]
         /\ ChargedOnce'
         /\ \A g \in Gifts : PaidIn(g) => PaidIn(g)'
         /\ UNCHANGED due
<1> USE DEF IInv, Types, ChargedOnce, PaidIn
<1>1. ASSUME NEW g \in Gifts,
             \/ Payment!CreateInsert(g) \/ Payment!CreateScreen(g) \/ Payment!CreateCharge(g)
             \/ Payment!Pay(g) \/ Payment!Fund(g) \/ Payment!KeyExpires(g)
      PROVE  /\ charge' \in [Gifts -> {"none", "open", "paid", "refunded"}]
             /\ creating' \in [Gifts -> {"new", "inserted", "screened", "done"}]
             /\ removal' = removal
             /\ ChargedOnce'
             /\ \A h \in Gifts : PaidIn(h) => PaidIn(h)'
             /\ UNCHANGED due
  BY <1>1 DEF Payment!CreateInsert, Payment!CreateScreen, Payment!CreateCharge, Payment!Pay,
     Payment!Fund, Payment!KeyExpires, Payment!storeVars, Payment!payVars
<1>2. ASSUME NEW g \in Gifts, Payment!Callback(g) \/ Payment!Remove(g)
      PROVE  /\ charge' \in [Gifts -> {"none", "open", "paid", "refunded"}]
             /\ creating' = creating
             /\ removal' \in [Gifts -> {"idle", "asking", "answered"}]
             /\ \A h \in Gifts : charge'[h] # charge[h] => charge[h] = "paid" /\ charge'[h] = "refunded"
             /\ UNCHANGED due
  BY <1>2 DEF Payment!Callback, Payment!CallbackVerify, Payment!CallbackApply, Payment!Remove,
     Payment!RemoveStart, Payment!Refund, Payment!RefundThrows, Payment!RefundUnheard, Payment!RemoveFinish,
     Payment!storeVars
<1>3. ASSUME \/ \E g \in Gifts, e \in Events : Payment!OtherEvent(g, e) \/ Payment!Deliver(g, e)
             \/ \E h \in Hooks : Payment!Hook(h)
      PROVE  UNCHANGED <<charge, creating, removal, due>>
  BY <1>3 DEF Payment!OtherEvent, Payment!Deliver, Payment!HookKnown, Payment!HookRead,
     Payment!Hook, Payment!HookApply, Payment!HookMark, Payment!HookMarkFails, Payment!storeVars
<1> QED
  BY <1>1, <1>2, <1>3 DEF Payment!PaymentStep

LEMMA PaymentStatus ==
  ASSUME IInv, Payment!PaymentStep
  PROVE  status' \in [Gifts -> Status \cup {Absent}] /\ StatusEarned'
<1>1. \A h \in Gifts : PaidIn(h) => PaidIn(h)'
  BY PaidInForGood
<1>2. UNCHANGED due
  BY PaidInForGood
<1>3. ASSUME NEW g \in Gifts, Payment!CreateInsert(g) \/ Payment!CreateScreen(g)
      PROVE  /\ status' \in [Gifts -> Status \cup {Absent}]
             /\ \A h \in Gifts : status'[h] \in {status[h], "pending_payment"}
  BY <1>3 DEF Payment!CreateInsert, Payment!CreateScreen, IInv, Types, Status
<1>4. ASSUME NEW g \in Gifts, Payment!Fund(g)
      PROVE  /\ status' \in [Gifts -> Status \cup {Absent}]
             /\ \A h \in Gifts : status'[h] = status[h] \/ (status'[h] = "funded" /\ PaidIn(h))
  BY <1>4, UpdateFacts DEF Payment!Fund, IInv, Status, PaidIn
<1>5. ASSUME NEW g \in Gifts, Payment!CallbackApply(g, TRUE) \/ Payment!CallbackApply(g, FALSE)
      PROVE  /\ status' \in [Gifts -> Status \cup {Absent}]
             /\ \A h \in Gifts : \/ status'[h] \in {status[h], "pending_payment"}
                                 \/ status'[h] = "locked" /\ status[h] = "funded"
  BY <1>5, UpdateFacts DEF Payment!CallbackApply, IInv, Status
<1>6. ASSUME NEW h \in Hooks, Payment!HookApply(h)
      PROVE  /\ status' \in [Gifts -> Status \cup {Absent}]
             /\ \A g \in Gifts : \/ status'[g] = status[g]
                                 \/ status'[g] = "locked" /\ status[g] = "funded"
  BY <1>6, UpdateFacts DEF Payment!HookApply, IInv, Types, Status
<1>7. ASSUME NEW g \in Gifts, Payment!RemoveFinish(g)
      PROVE  /\ status' \in [Gifts -> Status \cup {Absent}]
             /\ \A h \in Gifts : status'[h] \in {status[h], "cancelled"}
  BY <1>7 DEF Payment!RemoveFinish, Payment!cancelGift, IInv, Types, Status
<1>8. ASSUME \/ \E g \in Gifts : \/ Payment!CreateCharge(g) \/ Payment!Pay(g) \/ Payment!KeyExpires(g)
                                 \/ Payment!CallbackVerify(g) \/ Payment!RemoveStart(g)
                                 \/ Payment!Refund(g) \/ Payment!RefundThrows(g)
                                 \/ Payment!RefundUnheard(g)
                                 \/ \E e \in Events : Payment!OtherEvent(g, e) \/ Payment!Deliver(g, e)
             \/ \E h \in Hooks : Payment!HookMark(h) \/ Payment!HookMarkFails(h)
      PROVE  UNCHANGED status
  BY <1>8 DEF Payment!CreateCharge, Payment!Pay, Payment!KeyExpires, Payment!CallbackVerify,
     Payment!RemoveStart, Payment!Refund, Payment!RefundThrows, Payment!RefundUnheard, Payment!OtherEvent,
     Payment!Deliver, Payment!HookKnown, Payment!HookRead, Payment!HookMark,
     Payment!HookMarkFails, Payment!storeVars
<1>9. /\ status' \in [Gifts -> Status \cup {Absent}]
      /\ \A h \in Gifts : \/ status'[h] \in {status[h], "pending_payment", "cancelled"}
                          \/ status'[h] = "funded" /\ PaidIn(h)
                          \/ status'[h] = "locked" /\ status[h] = "funded"
  <2>1. CASE UNCHANGED status
    BY <2>1 DEF IInv, Types
  <2>2. CASE ~UNCHANGED status
    BY <2>2, <1>3, <1>4, <1>5, <1>6, <1>7, <1>8
       DEF Payment!PaymentStep, Payment!Callback, Payment!Remove, Payment!Hook
  <2> QED
    BY <2>1, <2>2
<1> QED
  BY <1>1, <1>2, <1>9 DEF IInv, StatusEarned

LEMMA PaymentIInv ==
  ASSUME IInv, Payment!PaymentStep, UNCHANGED claimOnly
  PROVE  IInv'
<1>1. Types'
  BY PaidInForGood, PaymentStatus DEF IInv, Types, claimOnly
<1>2. PayoutEarned' /\ RequestEarned'
  <2>1. \A r \in Requests : request[r].pc = "enqueue" => request[r].gift \in Gifts
    BY DEF IInv, Types, RequestStates, Staged, Payout!Ready
  <2> QED
    BY <2>1, PaidInForGood DEF IInv, PayoutEarned, RequestEarned, Earned, claimOnly
<1> QED
  BY <1>1, <1>2, PaidInForGood, PaymentStatus DEF IInv

-----------------------------------------------------------------------------
\* The steps of claims.
LEMMA ClaimStatus ==
  ASSUME IInv, Payout!ClaimStep
  PROVE  /\ status' \in [Gifts -> Status \cup {Absent}]
         /\ \A h \in Gifts : \/ status'[h] \in {status[h], "cancelled"}
                             \/ status'[h] = "unlocked" /\ status[h] = "locked" /\ due[h]
                             \/ status'[h] = "claimed" /\ status[h] = "unlocked"
         /\ UNCHANGED due
<1>1. ASSUME NEW g \in Gifts, Payout!Unlock(g)
      PROVE  /\ status' \in [Gifts -> Status \cup {Absent}]
             /\ \A h \in Gifts : \/ status'[h] = status[h]
                                 \/ status'[h] = "unlocked" /\ status[h] = "locked" /\ due[h]
             /\ UNCHANGED due
  BY <1>1, UpdateFacts DEF Payout!Unlock, IInv, Status
<1>2. ASSUME NEW g \in Gifts, Payout!AdminRefund(g)
      PROVE  /\ status' \in [Gifts -> Status \cup {Absent}]
             /\ \A h \in Gifts : status'[h] \in {status[h], "cancelled"}
             /\ UNCHANGED due
  BY <1>2, UpdateFacts DEF Payout!AdminRefund, IInv, Status
<1>3. ASSUME NEW g \in Gifts, Payout!WorkerRecord(g)
      PROVE  /\ status' \in [Gifts -> Status \cup {Absent}]
             /\ \A h \in Gifts : \/ status'[h] = status[h]
                                 \/ status'[h] = "claimed" /\ status[h] = "unlocked"
             /\ UNCHANGED due
  BY <1>3, UpdateFacts DEF Payout!WorkerRecord, IInv, Status
<1>4. ASSUME \/ \E g \in Gifts : \/ Payout!Register(g) \/ Payout!InvitationExpires(g)
                                 \/ Payout!JobRemoved(g) \/ Payout!WorkerStart(g)
                                 \/ Payout!WorkerValidate(g) \/ Payout!WorkerSend(g)
                                 \/ Payout!WorkerLosesAnswer(g)
                                 \/ \E n \in Nonces : Payout!Challenge(g, n)
             \/ \E c \in challenges : Payout!ChallengeExpires(c)
             \/ \E r \in Requests : Payout!Recipient(r)
      PROVE  UNCHANGED <<status, due>>
  BY <1>4 DEF Payout!Register, Payout!InvitationExpires, Payout!JobRemoved, Payout!WorkerStart,
     Payout!WorkerValidate, Payout!WorkerSend, Payout!WorkerLosesAnswer, Payout!Challenge,
     Payout!ChallengeExpires, Payout!Recipient, Payout!ClaimCheck, Payout!ClaimConsume,
     Payout!ClaimInvitation, Payout!ClaimMark, Payout!ClaimGift, Payout!EnqueueClaim, Payout!storeVars
<1>5. CASE UNCHANGED <<status, due>>
  BY <1>5 DEF IInv, Types
<1>6. CASE ~UNCHANGED <<status, due>>
  BY <1>1, <1>2, <1>3, <1>4, <1>6 DEF Payout!ClaimStep, Payout!Worker
<1> QED
  BY <1>5, <1>6

LEMMA Moves ==
  ASSUME Types, NEW r \in Requests, request[r].pc \in Payout!Stages,
         NEW stage \in Payout!Stages, Payout!Goto(r, stage) \/ Payout!Answer(r)
  PROVE  /\ request' \in [Requests -> RequestStates]
         /\ \A q \in Requests : q # r => request'[q] = request[q]
         /\ request[r].gift \in Gifts
         /\ \/ request'[r].pc = stage /\ request'[r].gift = request[r].gift
            \/ request'[r].pc = "done"
<1>1. request[r] \in Staged
  BY DEF Types, RequestStates, Payout!Ready, Payout!Stages
<1>2. CASE Payout!Goto(r, stage)
  <2>1. request' = [request EXCEPT ![r] = [request[r] EXCEPT !.pc = stage]]
    BY <1>2 DEF Payout!Goto
  <2>2. [request[r] EXCEPT !.pc = stage] \in Staged
    BY <1>1 DEF Staged
  <2> QED
    BY <1>1, <2>1, <2>2 DEF Types, RequestStates, Staged
<1>3. CASE Payout!Answer(r)
  BY <1>1, <1>3 DEF Payout!Answer, Types, RequestStates, Staged
<1> QED
  BY <1>2, <1>3

\* A request is at its last stage because it saw its gift unlocked.
LEMMA ClaimRequest ==
  ASSUME IInv, Payout!ClaimStep
  PROVE  /\ request' \in [Requests -> RequestStates]
         /\ \A r \in Requests : request'[r].pc = "enqueue" =>
              /\ request'[r].gift = request[r].gift /\ request[r].gift \in Gifts
              /\ request[r].pc = "enqueue" \/ status[request[r].gift] = "unlocked"
<1> DEFINE Kept(q) == request'[q].pc = "enqueue" =>
              /\ request'[q].gift = request[q].gift /\ request[q].gift \in Gifts
              /\ request[q].pc = "enqueue" \/ status[request[q].gift] = "unlocked"
<1> USE DEF IInv
<1>1. CASE UNCHANGED request
  BY <1>1 DEF Types, RequestStates, Staged, Payout!Ready
<1>2. CASE ~UNCHANGED request
  <2>1. PICK r \in Requests : Payout!Recipient(r)
    BY <1>2 DEF Payout!ClaimStep, Payout!Unlock, Payout!AdminRefund, Payout!Register,
       Payout!InvitationExpires, Payout!Worker, Payout!WorkerStart, Payout!WorkerValidate,
       Payout!WorkerSend, Payout!WorkerLosesAnswer, Payout!WorkerRecord, Payout!JobRemoved,
       Payout!Challenge, Payout!ChallengeExpires, Payout!claimVars
  <2>2. ASSUME NEW q \in Requests, request'[q] = request[q] PROVE Kept(q)
    BY <2>2 DEF Types, RequestStates, Staged, Payout!Ready
  <2>3. ASSUME NEW g \in Gifts, NEW n \in Nonces, Payout!ClaimCheck(r, g, n)
        PROVE  /\ request' \in [Requests -> RequestStates]
               /\ \A q \in Requests : q # r => request'[q] = request[q]
               /\ request'[r].pc # "enqueue"
    BY <2>3 DEF Payout!ClaimCheck, Types, RequestStates, Staged, Payout!Stages
  <2>4. ASSUME Payout!ClaimConsume(r) \/ Payout!ClaimInvitation(r) \/ Payout!ClaimMark(r)
        PROVE  /\ request' \in [Requests -> RequestStates]
               /\ \A q \in Requests : q # r => request'[q] = request[q]
               /\ request'[r].pc # "enqueue"
    <3>1. request[r].pc \in Payout!Stages
      BY <2>4 DEF Payout!ClaimConsume, Payout!ClaimInvitation, Payout!ClaimMark, Payout!At,
         Payout!Stages
    <3>2. {"invitation", "mark", "claim"} \subseteq Payout!Stages
      BY DEF Payout!Stages
    <3>3. \/ Payout!Goto(r, "invitation") \/ Payout!Goto(r, "mark") \/ Payout!Goto(r, "claim")
          \/ Payout!Answer(r)
      BY <2>4 DEF Payout!ClaimConsume, Payout!ClaimInvitation, Payout!ClaimMark
    <3> QED
      BY <3>1, <3>2, <3>3, Moves
  <2>5. ASSUME Payout!ClaimGift(r) \/ Payout!EnqueueClaim(r)
        PROVE  /\ request' \in [Requests -> RequestStates]
               /\ \A q \in Requests : q # r => request'[q] = request[q]
               /\ Kept(r)
    <3>1. request[r].pc \in Payout!Stages /\ "enqueue" \in Payout!Stages
      BY <2>5 DEF Payout!ClaimGift, Payout!EnqueueClaim, Payout!At, Payout!Stages
    <3>2. \/ Payout!Goto(r, "enqueue") /\ status[request[r].gift] = "unlocked"
          \/ Payout!Answer(r)
      BY <2>5 DEF Payout!ClaimGift, Payout!EnqueueClaim
    <3>3. /\ request' \in [Requests -> RequestStates]
          /\ \A q \in Requests : q # r => request'[q] = request[q]
          /\ request[r].gift \in Gifts
          /\ \/ request'[r].pc = "enqueue" /\ request'[r].gift = request[r].gift
             \/ request'[r].pc = "done"
      BY <3>1, <3>2, Moves
    <3>4. Payout!Answer(r) => request'[r].pc = "done"
      BY DEF Payout!Answer, Types
    <3> QED
      BY <3>2, <3>3, <3>4
  <2> QED
    BY <2>1, <2>2, <2>3, <2>4, <2>5 DEF Payout!Recipient
<1> QED
  BY <1>1, <1>2

\* Money is sent for a job, and a job comes from a request at its last stage.
LEMMA ClaimPayout ==
  ASSUME IInv, Payout!ClaimStep
  PROVE  /\ job' \in [Gifts -> Payout!JobStates] /\ paid' \in [Gifts -> Nat]
         /\ \A g \in Gifts : paid'[g] > 0 => paid[g] > 0 \/ job[g] # "none"
         /\ \A g \in Gifts : job'[g] # "none" =>
              \/ job[g] # "none"
              \/ \E r \in Requests : request[r].pc = "enqueue" /\ request[r].gift = g
<1> USE DEF IInv, Types
<1>1. ASSUME NEW g \in Gifts, Payout!Worker(g)
      PROVE  /\ job' \in [Gifts -> Payout!JobStates] /\ paid' \in [Gifts -> Nat]
             /\ \A h \in Gifts : h # g => job'[h] = job[h] /\ paid'[h] = paid[h]
             /\ job[g] # "none"
  BY <1>1 DEF Payout!Worker, Payout!WorkerStart, Payout!WorkerValidate, Payout!WorkerSend,
     Payout!WorkerLosesAnswer, Payout!WorkerRecord, Payout!Throw, Payout!JobStates
<1>2. ASSUME NEW g \in Gifts, Payout!JobRemoved(g)
      PROVE  /\ job' \in [Gifts -> Payout!JobStates] /\ paid' = paid
             /\ \A h \in Gifts : job'[h] # "none" => job[h] # "none"
  BY <1>2 DEF Payout!JobRemoved, Payout!JobStates
<1>3. ASSUME NEW r \in Requests, Payout!EnqueueClaim(r)
      PROVE  /\ job' \in [Gifts -> Payout!JobStates] /\ paid' = paid
             /\ request[r].pc = "enqueue"
             /\ \A h \in Gifts : job'[h] = job[h] \/ h = request[r].gift
  BY <1>3 DEF Payout!EnqueueClaim, Payout!At, Payout!JobStates
<1>4. ASSUME \/ \E g \in Gifts : \/ Payout!Unlock(g) \/ Payout!AdminRefund(g) \/ Payout!Register(g)
                                 \/ Payout!InvitationExpires(g)
                                 \/ \E n \in Nonces : Payout!Challenge(g, n)
             \/ \E c \in challenges : Payout!ChallengeExpires(c)
             \/ \E r \in Requests : \/ \E g \in Gifts, n \in Nonces : Payout!ClaimCheck(r, g, n)
                                    \/ Payout!ClaimConsume(r) \/ Payout!ClaimInvitation(r)
                                    \/ Payout!ClaimMark(r) \/ Payout!ClaimGift(r)
      PROVE  UNCHANGED <<job, paid>>
  BY <1>4 DEF Payout!Unlock, Payout!AdminRefund, Payout!Register, Payout!InvitationExpires,
     Payout!Challenge, Payout!ChallengeExpires, Payout!ClaimCheck, Payout!ClaimConsume,
     Payout!ClaimInvitation, Payout!ClaimMark, Payout!ClaimGift, Payout!claimVars
<1>5. CASE UNCHANGED <<job, paid>>
  BY <1>5
<1>6. CASE ~UNCHANGED <<job, paid>>
  BY <1>1, <1>2, <1>3, <1>4, <1>6 DEF Payout!ClaimStep, Payout!Recipient
<1> QED
  BY <1>5, <1>6

LEMMA ClaimIInv ==
  ASSUME IInv, Payout!ClaimStep, UNCHANGED payOnly
  PROVE  IInv'
<1>1. UNCHANGED <<charge, creating, removal, due>>
  BY ClaimStatus DEF payOnly
<1>2. Types' /\ ChargedOnce'
  BY <1>1, ClaimStatus, ClaimRequest, ClaimPayout DEF IInv, Types, ChargedOnce
<1>3. StatusEarned'
  BY <1>1, ClaimStatus DEF IInv, StatusEarned, PaidIn
<1>4. PayoutEarned'
  BY <1>1, ClaimPayout DEF IInv, Types, PayoutEarned, RequestEarned, Earned, PaidIn
<1>5. RequestEarned'
  BY <1>1, ClaimRequest DEF IInv, RequestEarned, StatusEarned, Earned, PaidIn
<1> QED
  BY <1>2, <1>3, <1>4, <1>5 DEF IInv

-----------------------------------------------------------------------------
LEMMA RestartIInv ==
  ASSUME IInv, Payment!Restart, Payout!Restart
  PROVE  IInv'
<1>1. UNCHANGED <<charge, due, paid>>
  BY DEF Payment!Restart, Payout!Restart
<1>2. request' \in [Requests -> RequestStates] /\ \A r \in Requests : request'[r].pc # "enqueue"
  BY DEF Payout!Restart, Payout!At, IInv, Types, RequestStates, Payout!Ready
<1>3. job' \in [Gifts -> Payout!JobStates] /\ \A g \in Gifts : job'[g] # "none" => job[g] # "none"
  BY DEF Payout!Restart, IInv, Types, Payout!JobStates
<1>4. Types' /\ ChargedOnce'
  BY <1>1, <1>2, <1>3 DEF Payment!Restart, IInv, Types, ChargedOnce
<1>5. StatusEarned'
  BY AbsentAssumption DEF Payment!Restart, StatusEarned, Status
<1> QED
  BY <1>1, <1>2, <1>3, <1>4, <1>5 DEF IInv, PayoutEarned, RequestEarned, Earned, PaidIn

LEMMA StoreIInv ==
  ASSUME IInv, NEW g \in Gifts, UnlockTimePasses(g) \/ restoreGift(g) \/ hardDeleteGift(g),
         UNCHANGED <<payOnly, claimOnly>>
  PROVE  IInv'
<1>1. /\ status' \in [Gifts -> Status \cup {Absent}] /\ due' \in [Gifts -> BOOLEAN]
      /\ \A h \in Gifts : (due[h] => due'[h]) /\ status'[h] \in {status[h], Absent}
  BY DEF UnlockTimePasses, restoreGift, hardDeleteGift, IInv, Types
<1>2. Types' /\ ChargedOnce'
  BY <1>1 DEF payOnly, claimOnly, IInv, Types, ChargedOnce
<1>3. StatusEarned'
  BY <1>1, AbsentAssumption DEF payOnly, IInv, StatusEarned, PaidIn, Status
<1>4. \A r \in Requests : request[r].pc = "enqueue" => request[r].gift \in Gifts
  BY DEF IInv, Types, RequestStates, Staged, Payout!Ready
<1>5. PayoutEarned' /\ RequestEarned'
  BY <1>1, <1>4 DEF payOnly, claimOnly, IInv, PayoutEarned, RequestEarned, Earned, PaidIn
<1> QED
  BY <1>2, <1>3, <1>5 DEF IInv

LEMMA NextIInv == IInv /\ [Next]_vars => IInv'
<1> SUFFICES ASSUME IInv, [Next]_vars PROVE IInv'
  OBVIOUS
<1>1. CASE UNCHANGED vars
  BY <1>1 DEF vars, storeVars, payOnly, claimOnly, IInv, Types, ChargedOnce, StatusEarned,
     PayoutEarned, RequestEarned, Earned, PaidIn
<1> QED
  BY <1>1, PaymentIInv, ClaimIInv, RestartIInv, StoreIInv DEF Next

-----------------------------------------------------------------------------
\* The invariant the other results follow from.
THEOREM Inductive == Spec => []IInv
<1> QED
  BY InitIInv, NextIInv, PTL DEF Spec

\* No webhook, callback, claim, retry or restart, in whatever order, pays out a
\* gift that was not paid for.
THEOREM NothingForNothing == Spec => []PaidOutWasPaidIn
<1>1. IInv => PaidOutWasPaidIn
  BY DEF IInv, PayoutEarned, Earned, PaidIn, PaidOutWasPaidIn
<1> QED
  BY <1>1, Inductive, PTL

\* The DELETE of a gift begins only while no payout has.
THEOREM NoLateRemoval == Spec => RemovalPrecedesClaim
<1>1. IInv /\ [Next]_vars =>
        [\A g \in Gifts : removal[g] = "idle" /\ removal'[g] # "idle" =>
           job[g] = "none" /\ paid[g] = 0]_vars
  <2> SUFFICES ASSUME IInv, Next, NEW g \in Gifts, removal[g] = "idle", removal'[g] # "idle"
               PROVE  job[g] = "none" /\ paid[g] = 0
    OBVIOUS
  <2>1. Payment!PaymentStep
    BY DEF Next, payOnly, Payment!Restart
  <2>2. PICK h \in Gifts : Payment!Remove(h)
    BY <2>1 DEF Payment!PaymentStep, Payment!CreateInsert, Payment!CreateScreen,
       Payment!CreateCharge, Payment!Pay, Payment!Fund, Payment!KeyExpires, Payment!Callback,
       Payment!CallbackVerify, Payment!CallbackApply, Payment!OtherEvent, Payment!Deliver,
       Payment!HookKnown, Payment!HookRead, Payment!Hook, Payment!HookApply, Payment!HookMark,
       Payment!HookMarkFails, Payment!payVars
  <2>3. Payment!RemoveStart(g)
    BY <2>2 DEF Payment!Remove, Payment!RemoveStart, Payment!Refund, Payment!RefundThrows, Payment!RefundUnheard,
       Payment!RemoveFinish, IInv, Types
  <2> QED
    BY <2>3 DEF Payment!RemoveStart, IInv, Types, PayoutEarned, Earned
<1> QED
  BY <1>1, Inductive, PTL DEF Spec, RemovalPrecedesClaim
=============================================================================
