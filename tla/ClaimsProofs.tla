---------------------------- MODULE ClaimsProofs ----------------------------
(***************************************************************************)
(* Theorems about claims, for any number of gifts, requests, nonces,       *)
(* attempts and restarts, with answers lost and administrators refunding:  *)
(* nothing is paid before the unlock time, and a gift that was spared both *)
(* is paid out once, and only while it is unlocked.                        *)
(*                                                                         *)
(* The argument: while the worker is between its look at the status and    *)
(* its record of the payment nobody else moves an undisturbed gift, so the *)
(* record succeeds; from then on the status, or its loss in a restart,     *)
(* ends every later attempt.                                               *)
(*                                                                         *)
(* What loss and refunds can cost is bounded by attempts: payments made    *)
(* and payments a job has left stay within MaxAttempts for each request    *)
(* that has put a gift into the queue.  And a challenge nonce that was     *)
(* accepted is gone, and is not issued again.                              *)
(***************************************************************************)
EXTENDS Claims, TLAPS, FiniteSetTheorems

\* A job that is not finished has an attempt left.
LiveJobs == {"waiting", "started", "sending", "sent"}
AttemptsRemain == \A g \in Gifts : job[g] \in LiveJobs => attempts[g] < MaxAttempts

\* Why an undisturbed gift is paid out once: while a job is past the worker's look
\* at the status the gift stays unlocked, and the status tells whether it was paid.
PayoutFollowsStatus ==
  \A g \in Gifts \ disturbed :
    /\ paid[g] <= 1
    /\ job[g] \in {"started", "sending"} => status[g] = "unlocked" /\ paid[g] = 0
    /\ job[g] = "sent" => status[g] = "unlocked" /\ paid[g] = 1
    /\ status[g] \notin {"claimed", Absent} /\ job[g] # "sent" => paid[g] = 0

\* The same for what leads to a payment: there is a job, or a request about to
\* enqueue one, only for a gift that has been unlocked.
OnceUnlocked == {"unlocked", "claimed", Absent}
ClaimsFollowUnlock ==
  /\ \A g \in Gifts \ disturbed : job[g] # "none" => status[g] \in OnceUnlocked
  /\ \A r \in Requests :
       request[r].pc = "enqueue" /\ request[r].gift \notin disturbed =>
         status[request[r].gift] \in OnceUnlocked

\* And for the unlock time, of every gift.
ClaimsFollowTime ==
  /\ \A g \in Gifts : status[g] \in {"unlocked", "claimed"} \/ job[g] # "none" => due[g]
  /\ \A r \in Requests : request[r].pc = "enqueue" => due[request[r].gift]

PayoutInv == AttemptsRemain /\ ClaimedMeansPaid /\ PayoutFollowsStatus
PInv == TypeOK /\ PayoutInv
IInv == PInv /\ ClaimsFollowUnlock /\ ClaimsFollowTime

\* What the status table lets a gift do from and to the statuses of a claim.
LEMMA TransitionFacts ==
  /\ \A s \in Status \cup {Absent} : s # Absent => s \in Status
  /\ \A s \in Status : isValidTransition(s, "unlocked") <=> s = "locked"
  /\ \A s \in Status : isValidTransition(s, "claimed") <=> s = "unlocked"
  /\ \A s \in Status : isValidTransition(s, "cancelled") => s # "claimed"
  BY DEF Status, isValidTransition, TRANSITIONS

\* A request that moves on to a stage, or is answered, is still a request.
LEMMA GotoType ==
  ASSUME TypeOK, NEW r \in Requests, request[r].pc \in Stages, NEW stage \in Stages,
         Goto(r, stage) \/ Answer(r)
  PROVE  request' \in [Requests -> {Ready, [pc |-> "done"]}
                              \cup [pc : Stages, gift : Gifts, nonce : Nonces]]
<1> DEFINE Staged == [pc : Stages, gift : Gifts, nonce : Nonces]
<1>1. request[r] \in Staged
  BY DEF TypeOK, Stages, Ready
<1>2. CASE Goto(r, stage)
  <2>1. [request[r] EXCEPT !.pc = stage] \in Staged
    BY <1>1
  <2> QED
    BY <1>2, <2>1 DEF Goto, TypeOK
<1>3. CASE Answer(r)
  BY <1>3 DEF Answer, TypeOK
<1> QED
  BY <1>2, <1>3

LEMMA StagedRequest ==
  ASSUME TypeOK, NEW r \in Requests, request[r].pc \in Stages
  PROVE  request[r].gift \in Gifts /\ request[r].nonce \in Nonces
  BY DEF TypeOK, Stages, Ready

\* The steps that touch neither the status, the job nor the money.
LEMMA UntouchedPayout ==
  ASSUME PayoutInv, UNCHANGED <<status, job, attempts, paid, claimTxHash, disturbed>>
  PROVE  PayoutInv'
  BY DEF PayoutInv, AttemptsRemain, ClaimedMeansPaid, PayoutFollowsStatus, LiveJobs

LEMMA InitPInv == Init => PInv
<1> SUFFICES ASSUME Init PROVE PInv
  OBVIOUS
<1>1. TypeOK
  BY ClaimsAssumption DEF Init, ClaimInit, TypeOK, StoreTypeOK, Status, JobStates, Ready
<1>2. PayoutInv
  BY ClaimsAssumption DEF Init, ClaimInit, PayoutInv, AttemptsRemain, ClaimedMeansPaid, PayoutFollowsStatus, LiveJobs
<1> QED
  BY <1>1, <1>2 DEF PInv

-----------------------------------------------------------------------------
\* Requests, challenges and invitations.
LEMMA RecipientPInv ==
  ASSUME IInv, NEW r \in Requests, Recipient(r)
  PROVE  PInv'
<1> USE DEF IInv, PInv
<1>1. ASSUME NEW g \in Gifts, NEW n \in Nonces, ClaimCheck(r, g, n) PROVE PInv'
  <2>1. TypeOK'
    BY <1>1 DEF ClaimCheck, TypeOK, StoreTypeOK, storeVars, Stages, Ready
  <2>2. PayoutInv'
    BY <1>1, UntouchedPayout DEF ClaimCheck, storeVars
  <2> QED
    BY <2>1, <2>2
<1>2. CASE ClaimConsume(r)
  <2>1. request[r].pc \in Stages /\ "invitation" \in Stages
    BY <1>2 DEF ClaimConsume, At, Stages
  <2>2. Goto(r, "invitation") \/ Answer(r)
    BY <1>2 DEF ClaimConsume
  <2>3. TypeOK'
    BY <1>2, <2>1, <2>2, GotoType, StagedRequest DEF ClaimConsume, TypeOK, StoreTypeOK, storeVars
  <2>4. PayoutInv'
    BY <1>2, UntouchedPayout DEF ClaimConsume, storeVars
  <2> QED
    BY <2>3, <2>4
<1>3. CASE ClaimInvitation(r) \/ ClaimMark(r)
  <2>1. request[r].pc \in Stages /\ "mark" \in Stages /\ "claim" \in Stages
    BY <1>3 DEF ClaimInvitation, ClaimMark, At, Stages
  <2>2. Goto(r, "mark") \/ Goto(r, "claim") \/ Answer(r)
    BY <1>3 DEF ClaimInvitation, ClaimMark
  <2>3. TypeOK'
    <3>1. request' \in [Requests -> {Ready, [pc |-> "done"]}
                              \cup [pc : Stages, gift : Gifts, nonce : Nonces]]
      BY <2>1, <2>2, GotoType
    <3>2. invitation' \in [Gifts -> {"none", "pending", "accepted", "claimed"}]
      BY <1>3, <2>1, StagedRequest DEF ClaimInvitation, ClaimMark, TypeOK
    <3> QED
      BY <1>3, <3>1, <3>2 DEF ClaimInvitation, ClaimMark, TypeOK, StoreTypeOK, storeVars
  <2>4. PayoutInv'
    BY <1>3, UntouchedPayout DEF ClaimInvitation, ClaimMark, storeVars
  <2> QED
    BY <2>3, <2>4
<1>4. CASE ClaimGift(r)
  <2>1. request[r].pc \in Stages /\ "enqueue" \in Stages
    BY <1>4 DEF ClaimGift, At, Stages
  <2>2. Goto(r, "enqueue") \/ Answer(r)
    BY <1>4 DEF ClaimGift
  <2>3. TypeOK'
    BY <1>4, <2>1, <2>2, GotoType DEF ClaimGift, TypeOK, StoreTypeOK, storeVars
  <2>4. PayoutInv'
    BY <1>4, UntouchedPayout DEF ClaimGift, storeVars
  <2> QED
    BY <2>3, <2>4
<1>5. CASE EnqueueClaim(r)
  <2>1. request[r].pc \in Stages /\ "enqueue" \in Stages
    BY <1>5 DEF EnqueueClaim, At, Stages
  <2>2. request[r].gift \in Gifts
    BY <2>1, StagedRequest
  <2>3. Answer(r)
    BY <1>5 DEF EnqueueClaim
  <2>4. TypeOK'
    BY <1>5, <2>1, <2>2, <2>3, GotoType, ClaimsAssumption
       DEF EnqueueClaim, TypeOK, StoreTypeOK, storeVars, JobStates
  <2>5. PayoutInv'
    BY <1>5, <2>2, ClaimsAssumption DEF EnqueueClaim, PayoutInv, AttemptsRemain, ClaimedMeansPaid, PayoutFollowsStatus, LiveJobs, TypeOK, storeVars
  <2> QED
    BY <2>4, <2>5
<1> QED
  BY <1>1, <1>2, <1>3, <1>4, <1>5 DEF Recipient

LEMMA ChallengePInv ==
  ASSUME IInv, NEW g \in Gifts,
         \/ Register(g) \/ InvitationExpires(g)
         \/ \E n \in Nonces : Challenge(g, n)
  PROVE  PInv'
<1>1. TypeOK'
  BY DEF IInv, PInv, Register, InvitationExpires, Challenge, TypeOK, StoreTypeOK, storeVars
<1>2. PayoutInv'
  BY UntouchedPayout DEF IInv, PInv, Register, InvitationExpires, Challenge, storeVars
<1> QED
  BY <1>1, <1>2 DEF PInv

-----------------------------------------------------------------------------
\* A handler that throws leaves the job waiting or failed.
LEMMA ThrowType ==
  ASSUME IInv, NEW g \in Gifts, job[g] \in {"waiting", "started", "sending", "sent"}, Throw(g)
  PROVE  /\ job' \in [Gifts -> JobStates] /\ attempts' \in [Gifts -> 0..MaxAttempts]
         /\ job'[g] \in {"waiting", "failed"}
         /\ job'[g] = "waiting" => attempts'[g] < MaxAttempts
         /\ \A h \in Gifts \ {g} : job'[h] = job[h] /\ attempts'[h] = attempts[h]
<1>1. attempts[g] < MaxAttempts /\ attempts[g] \in Nat
  BY DEF IInv, PInv, PayoutInv, AttemptsRemain, ClaimedMeansPaid, PayoutFollowsStatus, LiveJobs, TypeOK
<1>2. attempts[g] + 1 \in 0..MaxAttempts
  BY <1>1, ClaimsAssumption
<1> QED
  BY <1>1, <1>2, ClaimsAssumption DEF Throw, IInv, PInv, TypeOK, JobStates

LEMMA WorkerPInv ==
  ASSUME IInv, NEW g \in Gifts, Worker(g)
  PROVE  PInv'
<1>1. CASE WorkerStart(g)
  <2>1. CASE ~Found(g)
    <3>1. Throw(g)
      BY <1>1, <2>1 DEF WorkerStart
    <3>2. TypeOK'
      BY <1>1, <3>1, ThrowType DEF WorkerStart, IInv, PInv, TypeOK, StoreTypeOK, storeVars
    <3>3. PayoutInv'
      BY <1>1, <3>1, ThrowType DEF WorkerStart, IInv, PInv, PayoutInv, AttemptsRemain, ClaimedMeansPaid, PayoutFollowsStatus, LiveJobs, storeVars
    <3> QED
      BY <3>2, <3>3 DEF PInv
  <2>2. CASE Found(g)
    <3>1. TypeOK'
      BY <1>1, <2>2 DEF WorkerStart, IInv, PInv, TypeOK, StoreTypeOK, storeVars, JobStates
    <3>2. job[g] = "waiting" /\ (g \notin disturbed => status[g] \in {"unlocked", "claimed"})
      BY <1>1, <2>2 DEF WorkerStart, Found, IInv, ClaimsFollowUnlock, OnceUnlocked
    <3>3. job' = [job EXCEPT ![g] = IF status[g] = "claimed" THEN "completed" ELSE "started"]
          /\ UNCHANGED <<status, attempts, paid, claimTxHash, disturbed>>
      BY <1>1, <2>2 DEF WorkerStart, storeVars
    <3>4. PayoutInv'
      BY <3>2, <3>3, AbsentAssumption DEF IInv, PInv, TypeOK, PayoutInv, AttemptsRemain, ClaimedMeansPaid, PayoutFollowsStatus, LiveJobs, Status
    <3> QED
      BY <3>1, <3>4 DEF PInv
  <2> QED
    BY <2>1, <2>2
<1>2. CASE WorkerValidate(g)
  <2>1. CASE Throw(g)
    <3>1. TypeOK'
      BY <1>2, <2>1, ThrowType DEF WorkerValidate, IInv, PInv, TypeOK, StoreTypeOK, storeVars
    <3>2. PayoutInv'
      BY <1>2, <2>1, ThrowType DEF WorkerValidate, IInv, PInv, PayoutInv, AttemptsRemain, ClaimedMeansPaid, PayoutFollowsStatus, LiveJobs, storeVars
    <3> QED
      BY <3>1, <3>2 DEF PInv
  <2>2. CASE ~Throw(g)
    <3>1. TypeOK'
      BY <1>2, <2>2 DEF WorkerValidate, IInv, PInv, TypeOK, StoreTypeOK, storeVars, JobStates
    <3>2. PayoutInv'
      BY <1>2, <2>2 DEF WorkerValidate, IInv, PInv, TypeOK, PayoutInv, AttemptsRemain, ClaimedMeansPaid, PayoutFollowsStatus, LiveJobs, storeVars
    <3> QED
      BY <3>1, <3>2 DEF PInv
  <2> QED
    BY <2>1, <2>2
<1>3. CASE WorkerSend(g)
  <2>1. CASE Throw(g) /\ UNCHANGED paid
    <3>1. TypeOK'
      BY <1>3, <2>1, ThrowType DEF WorkerSend, IInv, PInv, TypeOK, StoreTypeOK, storeVars
    <3>2. PayoutInv'
      BY <1>3, <2>1, ThrowType DEF WorkerSend, IInv, PInv, PayoutInv, AttemptsRemain, ClaimedMeansPaid, PayoutFollowsStatus, LiveJobs, storeVars
    <3> QED
      BY <3>1, <3>2 DEF PInv
  <2>2. CASE ~(Throw(g) /\ UNCHANGED paid)
    <3>1. TypeOK'
      BY <1>3, <2>2 DEF WorkerSend, IInv, PInv, TypeOK, StoreTypeOK, storeVars, JobStates
    <3>2. PayoutInv'
      BY <1>3, <2>2 DEF WorkerSend, IInv, PInv, TypeOK, PayoutInv, AttemptsRemain, ClaimedMeansPaid, PayoutFollowsStatus, LiveJobs, storeVars
    <3> QED
      BY <3>1, <3>2 DEF PInv
  <2> QED
    BY <2>1, <2>2
<1>4. CASE WorkerRecord(g)
  <2>1. /\ job[g] = "sent" /\ paid[g] > 0 /\ attempts[g] < MaxAttempts
        /\ g \notin disturbed => status[g] = "unlocked" /\ paid[g] = 1
    BY <1>4 DEF WorkerRecord, IInv, PInv, PayoutInv, AttemptsRemain, ClaimedMeansPaid, PayoutFollowsStatus, LiveJobs
  <2>2. /\ status' \in [Gifts -> Status \cup {Absent}]
        /\ \A h \in Gifts \ {g} : status'[h] = status[h]
        /\ status'[g] \in {status[g], "claimed"}
        /\ status[g] = "unlocked" => status'[g] = "claimed"
        /\ status'[g] = "claimed" => status[g] # Absent
    BY <1>4, TransitionFacts, AbsentAssumption
       DEF WorkerRecord, updateGiftStatus, Changes, IInv, PInv, TypeOK, StoreTypeOK, Status
  <2>3. /\ claimTxHash' \in [Gifts -> BOOLEAN]
        /\ \A h \in Gifts \ {g} : claimTxHash'[h] = claimTxHash[h]
        /\ status'[g] = "claimed" => claimTxHash'[g]
    BY <1>4, <2>2 DEF WorkerRecord, IInv, PInv, TypeOK
  <2>4. UNCHANGED <<paid, disturbed>>
    BY <1>4 DEF WorkerRecord
  <2>5. CASE Throw(g)
    <3>1. TypeOK'
      BY <1>4, <2>1, <2>2, <2>3, <2>5, ThrowType DEF WorkerRecord, IInv, PInv, TypeOK, StoreTypeOK
    <3>2. PayoutInv'
      BY <2>1, <2>2, <2>3, <2>4, <2>5, ThrowType
         DEF IInv, PInv, PayoutInv, AttemptsRemain, ClaimedMeansPaid, PayoutFollowsStatus, LiveJobs
    <3> QED
      BY <3>1, <3>2 DEF PInv
  <2>6. CASE job' = [job EXCEPT ![g] = "completed"] /\ UNCHANGED attempts
    <3>1. TypeOK'
      BY <1>4, <2>2, <2>3, <2>6 DEF WorkerRecord, IInv, PInv, TypeOK, StoreTypeOK, JobStates
    <3>2. PayoutInv'
      BY <2>1, <2>2, <2>3, <2>4, <2>6
         DEF IInv, PInv, TypeOK, PayoutInv, AttemptsRemain, ClaimedMeansPaid, PayoutFollowsStatus, LiveJobs
    <3> QED
      BY <3>1, <3>2 DEF PInv
  <2> QED
    BY <1>4, <2>5, <2>6 DEF WorkerRecord
<1>5. CASE WorkerLosesAnswer(g)
  <2>1. TypeOK'
    BY <1>5, ThrowType DEF WorkerLosesAnswer, IInv, PInv, TypeOK, StoreTypeOK, storeVars
  <2>2. PayoutInv'
    BY <1>5, ThrowType
       DEF WorkerLosesAnswer, storeVars, IInv, PInv, PayoutInv, AttemptsRemain, ClaimedMeansPaid, PayoutFollowsStatus, LiveJobs
  <2> QED
    BY <2>1, <2>2 DEF PInv
<1> QED
  BY <1>1, <1>2, <1>3, <1>4, <1>5 DEF Worker

-----------------------------------------------------------------------------
LEMMA UnlockPInv ==
  ASSUME IInv, NEW g \in Gifts, Unlock(g)
  PROVE  PInv'
<1>1. status[g] = "locked"
  BY TransitionFacts DEF Unlock, Changes, IInv, PInv, TypeOK, StoreTypeOK
<1>2. status' = [status EXCEPT ![g] = "unlocked"]
  BY DEF Unlock, updateGiftStatus
<1>3. TypeOK'
  BY <1>2 DEF Unlock, claimVars, IInv, PInv, TypeOK, StoreTypeOK, Status
<1>4. PayoutInv'
  BY <1>1, <1>2, AbsentAssumption
     DEF Unlock, claimVars, IInv, PInv, TypeOK, StoreTypeOK, PayoutInv, AttemptsRemain, ClaimedMeansPaid, PayoutFollowsStatus, LiveJobs, Status
<1> QED
  BY <1>3, <1>4 DEF PInv

LEMMA AdminRefundPInv ==
  ASSUME IInv, NEW g \in Gifts, AdminRefund(g)
  PROVE  PInv'
<1>1. status[g] \in Status /\ status[g] # "claimed" /\ status[g] # Absent
  BY TransitionFacts DEF AdminRefund, Changes, IInv, PInv, TypeOK, StoreTypeOK
<1>2. status' = [status EXCEPT ![g] = "cancelled"]
  BY DEF AdminRefund, updateGiftStatus
<1>3. disturbed' = disturbed \cup {h \in {g} : status[h] = "unlocked"}
      /\ UNCHANGED <<job, attempts, paid, claimTxHash>>
  BY DEF AdminRefund
<1>4. TypeOK'
  BY <1>2, <1>3 DEF AdminRefund, IInv, PInv, TypeOK, StoreTypeOK, Status
<1>5. ClaimedMeansPaid' /\ AttemptsRemain'
  BY <1>2, <1>3 DEF IInv, PInv, TypeOK, StoreTypeOK, PayoutInv, AttemptsRemain, ClaimedMeansPaid
<1>6. PayoutFollowsStatus'
  BY <1>1, <1>2, <1>3 DEF IInv, PInv, TypeOK, StoreTypeOK, PayoutInv, PayoutFollowsStatus
<1> QED
  BY <1>4, <1>5, <1>6 DEF PInv, PayoutInv

LEMMA JobRemovedPInv ==
  ASSUME IInv, NEW g \in Gifts, JobRemoved(g)
  PROVE  PInv'
<1>1. TypeOK'
  BY DEF JobRemoved, IInv, PInv, TypeOK, StoreTypeOK, storeVars, JobStates
<1>2. PayoutInv'
  BY DEF JobRemoved, IInv, PInv, TypeOK, PayoutInv, AttemptsRemain, ClaimedMeansPaid, PayoutFollowsStatus, LiveJobs, storeVars
<1> QED
  BY <1>1, <1>2 DEF PInv

LEMMA RestartPInv ==
  ASSUME IInv, Restart
  PROVE  PInv'
<1>1. request' \in [Requests -> {Ready, [pc |-> "done"]}
                        \cup [pc : Stages, gift : Gifts, nonce : Nonces]]
  BY DEF Restart, IInv, PInv, TypeOK
<1>2. restarts' \in 0..MaxRestarts
  BY ClaimsAssumption DEF Restart, IInv, PInv, TypeOK
<1>3. job' \in [Gifts -> JobStates]
  BY DEF Restart, IInv, PInv, TypeOK, JobStates
<1>4. TypeOK'
  BY <1>1, <1>2, <1>3 DEF Restart, IInv, PInv, TypeOK, StoreTypeOK
<1>5. PayoutInv'
  BY AbsentAssumption DEF Restart, IInv, PInv, TypeOK, PayoutInv, AttemptsRemain, ClaimedMeansPaid, PayoutFollowsStatus, LiveJobs, Status
<1> QED
  BY <1>4, <1>5 DEF PInv

LEMMA NextPInv ==
  ASSUME IInv, [Next]_vars
  PROVE  PInv'
<1>1. ASSUME NEW g \in Gifts, UnlockTimePasses(g), UNCHANGED claimVars PROVE PInv'
  <2>1. TypeOK'
    BY <1>1 DEF UnlockTimePasses, claimVars, IInv, PInv, TypeOK, StoreTypeOK
  <2>2. PayoutInv'
    BY <1>1, UntouchedPayout DEF UnlockTimePasses, claimVars, IInv, PInv
  <2> QED
    BY <2>1, <2>2 DEF PInv
<1>2. CASE UNCHANGED vars
  <2>1. TypeOK'
    BY <1>2 DEF vars, storeVars, claimVars, IInv, PInv, TypeOK, StoreTypeOK
  <2>2. PayoutInv'
    BY <1>2, UntouchedPayout DEF vars, storeVars, claimVars, IInv, PInv
  <2> QED
    BY <2>1, <2>2 DEF PInv
<1>3. ASSUME NEW c \in challenges, ChallengeExpires(c) PROVE PInv'
  <2>1. TypeOK'
    BY <1>3 DEF ChallengeExpires, IInv, PInv, TypeOK, StoreTypeOK, storeVars
  <2>2. PayoutInv'
    BY <1>3, UntouchedPayout DEF ChallengeExpires, IInv, PInv, storeVars
  <2> QED
    BY <2>1, <2>2 DEF PInv
<1>4. CASE ClaimStep
  BY <1>3, <1>4, UnlockPInv, AdminRefundPInv, ChallengePInv, WorkerPInv, JobRemovedPInv,
     RecipientPInv DEF ClaimStep
<1> QED
  BY <1>1, <1>2, <1>4, RestartPInv DEF Next

-----------------------------------------------------------------------------
\* What was once unlocked is never locked again, nor cancelled unless disturbed.
\* And nothing undoes a disturbance.
LEMMA StaysUnlocked ==
  ASSUME IInv, [Next]_vars, NEW g \in Gifts, status[g] \in OnceUnlocked, g \notin disturbed'
  PROVE  status'[g] \in OnceUnlocked
<1> USE AbsentAssumption DEF OnceUnlocked
<1>1. ASSUME NEW h \in Gifts, NEW s \in {"unlocked", "claimed"}, updateGiftStatus(h, s)
      PROVE  status'[g] \in OnceUnlocked
  BY <1>1 DEF updateGiftStatus, IInv, PInv, TypeOK, StoreTypeOK
<1>2. CASE Restart
  BY <1>2 DEF Restart
<1>3. CASE UNCHANGED status
  BY <1>3
<1>4. CASE ClaimStep
  <2>1. ASSUME NEW h \in Gifts, Unlock(h) PROVE status'[g] \in OnceUnlocked
    BY <1>1, <2>1 DEF Unlock
  <2>2. ASSUME NEW h \in Gifts, WorkerRecord(h) PROVE status'[g] \in OnceUnlocked
    BY <1>1, <2>2 DEF WorkerRecord
  <2>3. ASSUME NEW h \in Gifts, Worker(h), ~WorkerRecord(h) PROVE UNCHANGED status
    BY <2>3 DEF Worker, WorkerStart, WorkerValidate, WorkerSend, WorkerLosesAnswer, storeVars
  <2>4. ASSUME NEW h \in Gifts,
               \/ Register(h) \/ InvitationExpires(h) \/ JobRemoved(h)
               \/ \E n \in Nonces : Challenge(h, n)
        PROVE  UNCHANGED status
    BY <2>4 DEF Register, InvitationExpires, JobRemoved, Challenge, storeVars
  <2>5. ASSUME NEW c \in challenges, ChallengeExpires(c) PROVE UNCHANGED status
    BY <2>5 DEF ChallengeExpires, storeVars
  <2>6. ASSUME NEW r \in Requests, Recipient(r) PROVE UNCHANGED status
    BY <2>6 DEF Recipient, ClaimCheck, ClaimConsume, ClaimInvitation, ClaimMark, ClaimGift, EnqueueClaim,
                storeVars
  <2>7. ASSUME NEW h \in Gifts, AdminRefund(h) PROVE status'[g] \in OnceUnlocked
    <3>1. CASE h = g
      <4>1. status[g] # "unlocked"
        BY <2>7, <3>1 DEF AdminRefund
      <4>2. ~Changes(g, "cancelled")
        BY <4>1, TransitionFacts DEF Changes, Status
      <4> QED
        BY <2>7, <3>1, <4>2 DEF AdminRefund
    <3>2. CASE h # g
      BY <2>7, <3>2 DEF AdminRefund, updateGiftStatus, IInv, PInv, TypeOK, StoreTypeOK
    <3> QED
      BY <3>1, <3>2
  <2> QED
    BY <1>3, <1>4, <2>1, <2>2, <2>3, <2>4, <2>5, <2>6, <2>7 DEF ClaimStep
<1> QED
  BY <1>2, <1>3, <1>4 DEF Next, UnlockTimePasses, vars, storeVars

\* A job is created by a request at its last stage only.
LEMMA JobsAreEnqueued ==
  ASSUME IInv, [Next]_vars, NEW g \in Gifts, job[g] = "none", job'[g] # "none"
  PROVE  \E r \in Requests : request[r].pc = "enqueue" /\ request[r].gift = g
<1>1. ASSUME NEW h \in Gifts, Worker(h) PROVE FALSE
  <2>1. job[h] # "none"
    BY <1>1 DEF Worker, WorkerStart, WorkerValidate, WorkerSend, WorkerLosesAnswer, WorkerRecord
  <2>2. h # g
    BY <2>1
  <2> QED
    BY <1>1, <2>2 DEF Worker, WorkerStart, WorkerValidate, WorkerSend, WorkerLosesAnswer,
                      WorkerRecord, Throw, IInv, PInv, TypeOK
<1>2. ASSUME NEW h \in Gifts,
             \/ Unlock(h) \/ AdminRefund(h) \/ Register(h) \/ InvitationExpires(h) \/ JobRemoved(h)
             \/ \E n \in Nonces : Challenge(h, n)
      PROVE  FALSE
  BY <1>2 DEF Unlock, AdminRefund, Register, InvitationExpires, JobRemoved, Challenge, claimVars,
              IInv, PInv, TypeOK
<1>3. ASSUME NEW c \in challenges, ChallengeExpires(c) PROVE FALSE
  BY <1>3 DEF ChallengeExpires
<1>4. CASE Restart
  BY <1>4 DEF Restart, IInv, PInv, TypeOK
<1>5. ASSUME NEW r \in Requests, Recipient(r)
      PROVE  EnqueueClaim(r) /\ request[r].gift = g
  BY <1>5 DEF Recipient, ClaimCheck, ClaimConsume, ClaimInvitation, ClaimMark, ClaimGift, EnqueueClaim,
              IInv, PInv, TypeOK
<1> QED
  BY <1>1, <1>2, <1>3, <1>4, <1>5 DEF Next, ClaimStep, EnqueueClaim, At, vars, claimVars

\* A request reaches its last stage from claimGift's check of the status.
LEMMA EnqueueFollowsCheck ==
  ASSUME IInv, [Next]_vars, NEW r \in Requests, request'[r].pc = "enqueue",
         request[r].pc # "enqueue" \/ request'[r].gift # request[r].gift
  PROVE  ClaimGift(r) /\ request'[r].gift = request[r].gift /\ request[r].gift \in Gifts
         /\ status[request[r].gift] = "unlocked"
<1>1. request' # request
  OBVIOUS
<1>2. ~Restart
  <2>1. ASSUME Restart PROVE request'[r] \in {Ready, [pc |-> "done"]}
    BY <2>1 DEF Restart, IInv, PInv, TypeOK
  <2> QED
    BY <2>1 DEF Ready
<1>3. PICK q \in Requests : Recipient(q)
  BY <1>1, <1>2 DEF Next, ClaimStep, Unlock, AdminRefund, Register, InvitationExpires, Worker,
     WorkerStart, WorkerValidate, WorkerSend, WorkerLosesAnswer, WorkerRecord, JobRemoved,
     Challenge, ChallengeExpires, UnlockTimePasses, vars, claimVars
<1>4. q = r
  BY <1>3 DEF Recipient, ClaimCheck, ClaimConsume, ClaimInvitation, ClaimMark, ClaimGift, EnqueueClaim,
              Goto, Answer, IInv, PInv, TypeOK
<1>5. ClaimGift(r)
  <2>1. ASSUME NEW g \in Gifts, NEW n \in Nonces, ClaimCheck(r, g, n) PROVE FALSE
    BY <2>1 DEF ClaimCheck, IInv, PInv, TypeOK
  <2>2. ASSUME Answer(r) PROVE FALSE
    BY <2>2 DEF Answer, IInv, PInv, TypeOK
  <2>3. ASSUME NEW stage \in {"invitation", "mark", "claim"}, request[r].pc \in Stages, Goto(r, stage)
        PROVE  FALSE
    <3>1. request[r] \in [pc : Stages, gift : Gifts, nonce : Nonces]
      BY <2>3 DEF IInv, PInv, TypeOK, Stages, Ready
    <3> QED
      BY <2>3, <3>1 DEF Goto, IInv, PInv, TypeOK
  <2>4. ~ClaimConsume(r)
    BY <2>2, <2>3 DEF ClaimConsume, At, Stages
  <2>5. ~ClaimInvitation(r) /\ ~ClaimMark(r)
    BY <2>2, <2>3 DEF ClaimInvitation, ClaimMark, At, Stages
  <2>6. ~EnqueueClaim(r)
    BY <2>2 DEF EnqueueClaim
  <2> QED
    BY <1>3, <1>4, <2>1, <2>4, <2>5, <2>6 DEF Recipient
<1>6. request[r] \in [pc : Stages, gift : Gifts, nonce : Nonces]
  BY <1>5 DEF ClaimGift, At, IInv, PInv, TypeOK, Stages, Ready
<1>7. Goto(r, "enqueue") /\ status[request[r].gift] = "unlocked"
  <2>1. ~Answer(r)
    BY DEF Answer, IInv, PInv, TypeOK
  <2> QED
    BY <1>5, <2>1 DEF ClaimGift
<1>8. request'[r].gift = request[r].gift
  BY <1>6, <1>7 DEF Goto, IInv, PInv, TypeOK
<1> QED
  BY <1>5, <1>6, <1>7, <1>8

LEMMA DisturbedForGood ==
  ASSUME [Next]_vars
  PROVE  disturbed \subseteq disturbed'
BY DEF Next, ClaimStep, Unlock, AdminRefund, Register, InvitationExpires, Worker, WorkerStart,
   WorkerValidate, WorkerSend, WorkerLosesAnswer, WorkerRecord, JobRemoved, Challenge,
   ChallengeExpires, Recipient, ClaimCheck, ClaimConsume, ClaimInvitation, ClaimMark, ClaimGift, EnqueueClaim,
   Restart, UnlockTimePasses, vars, storeVars, claimVars

LEMMA UnlockFollowsStep ==
  ASSUME IInv, [Next]_vars
  PROVE  ClaimsFollowUnlock'
<1>1. ASSUME NEW g \in Gifts, g \notin disturbed', job'[g] # "none" PROVE status'[g] \in OnceUnlocked
  <2>1. status[g] \in OnceUnlocked
    BY <1>1, JobsAreEnqueued, DisturbedForGood DEF IInv, ClaimsFollowUnlock
  <2> QED
    BY <1>1, <2>1, StaysUnlocked
<1>2. ASSUME NEW r \in Requests, request'[r].pc = "enqueue", request'[r].gift \notin disturbed'
      PROVE  status'[request'[r].gift] \in OnceUnlocked
  <2>1. CASE request[r].pc = "enqueue" /\ request'[r].gift = request[r].gift
    <3>1. request[r].gift \in Gifts
      BY <2>1, StagedRequest DEF IInv, PInv, Stages
    <3> QED
      BY <1>2, <2>1, <3>1, StaysUnlocked, DisturbedForGood DEF IInv, ClaimsFollowUnlock
  <2>2. CASE ~(request[r].pc = "enqueue" /\ request'[r].gift = request[r].gift)
    BY <1>2, <2>2, EnqueueFollowsCheck, StaysUnlocked DEF OnceUnlocked
  <2> QED
    BY <2>1, <2>2
<1> QED
  BY <1>1, <1>2 DEF ClaimsFollowUnlock, OnceUnlocked

-----------------------------------------------------------------------------
\* The unlock time does not come back, ...
LEMMA DueForGood ==
  ASSUME IInv, [Next]_vars, NEW g \in Gifts, due[g]
  PROVE  due'[g]
BY DEF Next, ClaimStep, Unlock, AdminRefund, Register, InvitationExpires, Worker, WorkerStart,
   WorkerValidate, WorkerSend, WorkerLosesAnswer, WorkerRecord, JobRemoved, Challenge,
   ChallengeExpires, Recipient, ClaimCheck, ClaimConsume, ClaimInvitation, ClaimMark, ClaimGift, EnqueueClaim,
   Restart, UnlockTimePasses, vars, storeVars, IInv, PInv, TypeOK, StoreTypeOK

\* ... and only processUnlocks unlocks, and only what is due.
LEMMA UnlockedIsDue ==
  ASSUME IInv, [Next]_vars, NEW g \in Gifts, status'[g] \in {"unlocked", "claimed"}
  PROVE  due'[g]
<1>1. CASE status[g] \in {"unlocked", "claimed"}
  BY <1>1, DueForGood DEF IInv, ClaimsFollowTime
<1>2. CASE status[g] \notin {"unlocked", "claimed"}
  <2>1. ~Restart
    BY AbsentAssumption DEF Restart, Status
  <2>2. ASSUME NEW h \in Gifts, NEW s \in {"claimed", "cancelled"}, updateGiftStatus(h, s)
        PROVE  FALSE
    BY <1>2, <2>2, TransitionFacts
       DEF updateGiftStatus, Changes, IInv, PInv, TypeOK, StoreTypeOK
  <2>3. PICK h \in Gifts : Unlock(h)
    BY <1>2, <2>1, <2>2 DEF Next, ClaimStep, AdminRefund, Register, InvitationExpires, Worker,
       WorkerStart, WorkerValidate, WorkerSend, WorkerLosesAnswer, WorkerRecord, JobRemoved,
       Challenge, ChallengeExpires, Recipient, ClaimCheck, ClaimConsume, ClaimInvitation, ClaimMark, ClaimGift,
       EnqueueClaim, UnlockTimePasses, vars, storeVars
  <2>4. h = g /\ due[g]
    BY <1>2, <2>3 DEF Unlock, updateGiftStatus, IInv, PInv, TypeOK, StoreTypeOK
  <2> QED
    BY <2>4, DueForGood
<1> QED
  BY <1>1, <1>2

LEMMA TimeFollowsStep ==
  ASSUME IInv, [Next]_vars
  PROVE  ClaimsFollowTime'
<1>1. ASSUME NEW g \in Gifts, job'[g] # "none" PROVE due'[g]
  BY <1>1, JobsAreEnqueued, DueForGood DEF IInv, ClaimsFollowTime
<1>2. ASSUME NEW r \in Requests, request'[r].pc = "enqueue" PROVE due'[request'[r].gift]
  <2>1. CASE request[r].pc = "enqueue" /\ request'[r].gift = request[r].gift
    <3>1. request[r].gift \in Gifts
      BY <2>1, StagedRequest DEF IInv, PInv, Stages
    <3> QED
      BY <2>1, <3>1, DueForGood DEF IInv, ClaimsFollowTime
  <2>2. CASE ~(request[r].pc = "enqueue" /\ request'[r].gift = request[r].gift)
    BY <1>2, <2>2, EnqueueFollowsCheck, DueForGood DEF IInv, ClaimsFollowTime
  <2> QED
    BY <2>1, <2>2
<1> QED
  BY <1>1, <1>2, UnlockedIsDue DEF ClaimsFollowTime

-----------------------------------------------------------------------------
LEMMA InitIInv == Init => IInv
BY InitPInv DEF IInv, ClaimsFollowUnlock, ClaimsFollowTime, Init, ClaimInit, Ready

LEMMA NextIInv == IInv /\ [Next]_vars => IInv'
BY NextPInv, UnlockFollowsStep, TimeFollowsStep DEF IInv

\* The invariant the other results follow from: types, attempts, what was paid,
\* and what leads to a payment.
THEOREM Inductive == Spec => []IInv
<1> QED
  BY InitIInv, NextIInv, PTL DEF Spec

\* Whatever requests, retries and restarts there are, a gift is paid out at most
\* once, unless an answer about it is lost or it is refunded while unlocked.
THEOREM PaidOnce == Spec => []PaidAtMostOnce
<1>1. IInv => PaidAtMostOnce
  BY DEF IInv, PInv, PayoutInv, PayoutFollowsStatus, PaidAtMostOnce
<1> QED
  BY <1>1, Inductive, PTL

\* A gift that counts as claimed was paid out, and its payment is on record,
\* whatever was lost or refunded.
THEOREM ClaimedIsPaid == Spec => []ClaimedMeansPaid
<1>1. IInv => ClaimedMeansPaid
  BY DEF IInv, PInv, PayoutInv
<1> QED
  BY <1>1, Inductive, PTL

-----------------------------------------------------------------------------
\* Money leaves by the worker's payment only.
LEMMA PaymentsAreSent ==
  ASSUME IInv, [Next]_vars, NEW g \in Gifts, paid'[g] > paid[g]
  PROVE  job[g] = "sending"
<1>1. paid' # paid
  BY DEF IInv, PInv, TypeOK
<1>2. PICK h \in Gifts : WorkerSend(h)
  BY <1>1 DEF Next, ClaimStep, Unlock, AdminRefund, Register, InvitationExpires, Worker,
     WorkerStart, WorkerValidate, WorkerLosesAnswer, WorkerRecord, JobRemoved, Challenge,
     ChallengeExpires, Recipient, ClaimCheck, ClaimConsume, ClaimInvitation, ClaimMark, ClaimGift, EnqueueClaim,
     Restart, UnlockTimePasses, vars, claimVars
<1> QED
  BY <1>1, <1>2 DEF WorkerSend, IInv, PInv, TypeOK

\* Money leaves only after the unlock time, and, for an undisturbed gift, only
\* while it is unlocked, however long ago the claim was checked.
THEOREM PaidWhileUnlocked == Spec => OnlyUnlockedPaid
<1>1. IInv /\ [Next]_vars =>
        [\A g \in Gifts : paid'[g] > paid[g] =>
           due[g] /\ (g \notin disturbed => status[g] = "unlocked")]_vars
  BY PaymentsAreSent DEF IInv, PInv, PayoutInv, PayoutFollowsStatus, ClaimsFollowTime
<1> QED
  BY <1>1, InitIInv, NextIInv, PTL DEF Spec, OnlyUnlockedPaid

-----------------------------------------------------------------------------
\* What a gift may still cost: its live job has a payment left for each attempt,
\* but the one that has been made and is about to be recorded; a job of a gift
\* the store has forgotten pays no more.  And every job goes back to a request
\* that has been answered.
Answered == {r \in Requests : request[r].pc = "done"}
PaymentsLeft(g) ==
  IF status[g] = Absent \/ job[g] \notin LiveJobs THEN 0
  ELSE MaxAttempts - attempts[g] - (IF job[g] = "sent" THEN 1 ELSE 0)
Budget == MaxAttempts * Cardinality(Answered)
WithinBudget ==
  \A g \in Gifts : /\ job[g] \in {"started", "sending", "sent"} => status[g] # Absent
                   /\ paid[g] + PaymentsLeft(g) <= Budget

\* An answered request stays answered, and one that enqueues a job is answered.
LEMMA AnsweredForGood ==
  ASSUME IInv, [Next]_vars
  PROVE  /\ Answered \subseteq Answered'
         /\ \A r \in Requests : EnqueueClaim(r) => r \in Answered' /\ r \notin Answered
<1>1. ASSUME NEW r \in Requests, Recipient(r) PROVE Answered \subseteq Answered'
  <2>1. request[r].pc # "done"
    BY <1>1 DEF Recipient, ClaimCheck, ClaimConsume, ClaimInvitation, ClaimMark, ClaimGift, EnqueueClaim, At
  <2>2. \A q \in Requests \ {r} : request'[q] = request[q]
    BY <1>1 DEF Recipient, ClaimCheck, ClaimConsume, ClaimInvitation, ClaimMark, ClaimGift, EnqueueClaim,
                Goto, Answer, IInv, PInv, TypeOK
  <2> QED
    BY <2>1, <2>2 DEF Answered
<1>2. ASSUME Restart PROVE Answered \subseteq Answered'
  BY <1>2 DEF Restart, Answered, At, IInv, PInv, TypeOK
<1>3. ASSUME UNCHANGED request PROVE Answered \subseteq Answered'
  BY <1>3 DEF Answered
<1>4. Answered \subseteq Answered'
  BY <1>1, <1>2, <1>3 DEF Next, ClaimStep, Unlock, AdminRefund, Register, InvitationExpires, Worker,
     WorkerStart, WorkerValidate, WorkerSend, WorkerLosesAnswer, WorkerRecord, JobRemoved,
     Challenge, ChallengeExpires, UnlockTimePasses, vars, claimVars
<1>5. ASSUME NEW r \in Requests, EnqueueClaim(r) PROVE r \in Answered' /\ r \notin Answered
  BY <1>5 DEF EnqueueClaim, Answer, At, Answered, IInv, PInv, TypeOK
<1> QED
  BY <1>4, <1>5

\* The budget does not shrink, and grows by all attempts of a job with every
\* request that enqueues.
LEMMA BudgetGrows ==
  ASSUME IInv, [Next]_vars
  PROVE  /\ Budget \in Nat /\ Budget' \in Nat /\ Budget <= Budget'
         /\ \A r \in Requests : EnqueueClaim(r) => Budget + MaxAttempts <= Budget'
<1> DEFINE M == MaxAttempts
           k == Cardinality(Answered)
           l == Cardinality(Answered')
<1>1. M \in Nat /\ IsFiniteSet(Requests)
  BY ClaimsAssumption
<1>2. IsFiniteSet(Answered) /\ IsFiniteSet(Answered')
  BY <1>1, FS_Subset DEF Answered
<1>3. k \in Nat /\ l \in Nat /\ k <= l
  BY <1>2, FS_CardinalityType, FS_Subset, AnsweredForGood
<1>4. ASSUME NEW r \in Requests, EnqueueClaim(r) PROVE k + 1 <= l
  <2>1. (Answered \cup {r}) \in SUBSET Answered' /\ r \notin Answered
    BY <1>4, AnsweredForGood
  <2>2. Cardinality(Answered \cup {r}) = k + 1
    BY <1>2, <2>1, FS_AddElement
  <2> QED
    BY <1>2, <2>1, <2>2, FS_Subset
<1>5. Budget = M * k /\ Budget' = M * l
  BY DEF Budget
<1> HIDE DEF M, k, l
<1>6. \A a, b \in Nat : a <= b => M * a <= M * b /\ M * a \in Nat
  BY <1>1
<1>7. M * (k + 1) = M * k + M
  BY <1>1, <1>3
<1>8. \A r \in Requests : EnqueueClaim(r) => M * k + M <= M * l
  BY <1>3, <1>4, <1>6, <1>7
<1> QED
  BY <1>1, <1>3, <1>5, <1>6, <1>8 DEF M

-----------------------------------------------------------------------------
\* No update takes a gift out of the store, nor puts one back.
LEMMA UpdateKeepsGift ==
  ASSUME IInv, NEW h \in Gifts, NEW s \in Status, updateGiftStatus(h, s), NEW g \in Gifts
  PROVE  status'[g] = Absent <=> status[g] = Absent
BY AbsentAssumption DEF updateGiftStatus, Changes, IInv, PInv, TypeOK, StoreTypeOK

\* A step of the worker spends what it pays.
LEMMA WorkerSpends ==
  ASSUME IInv, WithinBudget, NEW h \in Gifts, Worker(h), NEW g \in Gifts
  PROVE  /\ job'[g] \in {"started", "sending", "sent"} => status'[g] # Absent
         /\ paid'[g] + PaymentsLeft(g)' <= paid[g] + PaymentsLeft(g)
<1>1. /\ attempts[g] \in 0..MaxAttempts /\ paid[g] \in Nat /\ MaxAttempts \in Nat
      /\ job[g] \in LiveJobs => attempts[g] < MaxAttempts
      /\ job[h] \in LiveJobs
      /\ job \in [Gifts -> JobStates] /\ attempts \in [Gifts -> 0..MaxAttempts]
      /\ paid \in [Gifts -> Nat]
  BY ClaimsAssumption DEF IInv, PInv, TypeOK, PayoutInv, AttemptsRemain, Worker, WorkerStart,
     WorkerValidate, WorkerSend, WorkerLosesAnswer, WorkerRecord, LiveJobs
<1>2. status'[g] = Absent <=> status[g] = Absent
  <2>1. CASE WorkerRecord(h)
    BY <2>1, UpdateKeepsGift DEF WorkerRecord, Status
  <2>2. CASE UNCHANGED status
    BY <2>2
  <2> QED
    BY <2>1, <2>2 DEF Worker, WorkerStart, WorkerValidate, WorkerSend, WorkerLosesAnswer, storeVars
<1>3. CASE h # g
  <2>1. job'[g] = job[g] /\ attempts'[g] = attempts[g] /\ paid'[g] = paid[g]
    BY <1>1, <1>3 DEF Worker, WorkerStart, WorkerValidate, WorkerSend, WorkerLosesAnswer,
                      WorkerRecord, Throw
  <2> QED
    BY <1>1, <1>2, <2>1 DEF PaymentsLeft, WithinBudget, LiveJobs
<1>4. CASE h = g
  <2> USE <1>1, <1>2, <1>4 DEF PaymentsLeft, WithinBudget, LiveJobs
  <2>1. ASSUME Throw(g), paid'[g] = paid[g] PROVE paid'[g] + PaymentsLeft(g)' <= paid[g] + PaymentsLeft(g)
    BY <2>1 DEF Throw
  <2>2. ASSUME Throw(g) PROVE job'[g] \in {"waiting", "failed"}
    BY <2>2 DEF Throw
  <2>3. CASE WorkerStart(g)
    <3>1. CASE Found(g)
      BY <2>3, <3>1 DEF WorkerStart, Found
    <3>2. CASE ~Found(g)
      BY <2>1, <2>2, <2>3, <3>2 DEF WorkerStart
    <3> QED
      BY <3>1, <3>2
  <2>4. CASE WorkerValidate(g)
    <3>1. CASE Throw(g)
      BY <2>1, <2>2, <2>4, <3>1 DEF WorkerValidate
    <3>2. CASE ~Throw(g)
      BY <2>4, <3>2 DEF WorkerValidate
    <3> QED
      BY <3>1, <3>2
  <2>5. CASE WorkerSend(g)
    <3>1. CASE Throw(g)
      BY <2>1, <2>2, <2>5, <3>1 DEF WorkerSend
    <3>2. CASE ~Throw(g)
      BY <2>5, <3>2 DEF WorkerSend
    <3> QED
      BY <3>1, <3>2
  <2>6. CASE WorkerLosesAnswer(g)
    BY <2>2, <2>6 DEF WorkerLosesAnswer, Throw
  <2>7. CASE WorkerRecord(g)
    <3>1. CASE Throw(g)
      BY <2>1, <2>2, <2>7, <3>1 DEF WorkerRecord
    <3>2. CASE ~Throw(g)
      BY <2>7, <3>2 DEF WorkerRecord
    <3> QED
      BY <3>1, <3>2
  <2> QED
    BY <2>3, <2>4, <2>5, <2>6, <2>7 DEF Worker
<1> QED
  BY <1>3, <1>4

\* Restart, Unlock and AdminRefund move the status, JobRemoved the job; none of
\* them pays, and none leaves a gift with more to pay.
LEMMA OthersPayNothing ==
  ASSUME IInv, WithinBudget, NEW g \in Gifts,
         \/ Restart
         \/ \E h \in Gifts : Unlock(h) \/ AdminRefund(h) \/ JobRemoved(h)
         \/ UNCHANGED <<status, job, attempts, paid>>
  PROVE  /\ job'[g] \in {"started", "sending", "sent"} => status'[g] # Absent
         /\ paid'[g] + PaymentsLeft(g)' <= paid[g] + PaymentsLeft(g)
<1>1. /\ attempts[g] \in 0..MaxAttempts /\ paid[g] \in Nat /\ MaxAttempts \in Nat
      /\ job[g] \in LiveJobs => attempts[g] < MaxAttempts
      /\ job \in [Gifts -> JobStates]
  BY ClaimsAssumption DEF IInv, PInv, TypeOK, PayoutInv, AttemptsRemain
<1> USE DEF PaymentsLeft, WithinBudget, LiveJobs
<1>2. CASE Restart
  BY <1>1, <1>2 DEF Restart
<1>3. CASE UNCHANGED <<status, job, attempts, paid>>
  BY <1>1, <1>3
<1>4. ASSUME NEW h \in Gifts, Unlock(h) \/ AdminRefund(h)
      PROVE  /\ status'[g] = Absent <=> status[g] = Absent
             /\ UNCHANGED <<job, attempts, paid>>
  BY <1>4, UpdateKeepsGift DEF Unlock, AdminRefund, Status, claimVars
<1>5. ASSUME NEW h \in Gifts, JobRemoved(h)
      PROVE  /\ UNCHANGED <<status, attempts, paid>>
             /\ job'[g] = job[g] \/ job'[g] = "none"
             /\ job'[g] # job[g] => job[g] \notin LiveJobs
  BY <1>1, <1>5 DEF JobRemoved, storeVars
<1> QED
  BY <1>1, <1>2, <1>3, <1>4, <1>5

\* A request that enqueues a job commits the attempts its answer adds.
LEMMA EnqueueSpends ==
  ASSUME IInv, WithinBudget, NEW r \in Requests, EnqueueClaim(r), NEW g \in Gifts
  PROVE  /\ job'[g] \in {"started", "sending", "sent"} => status'[g] # Absent
         /\ paid'[g] + PaymentsLeft(g)' <= paid[g] + PaymentsLeft(g) + MaxAttempts
<1>1. /\ attempts[g] \in 0..MaxAttempts /\ paid[g] \in Nat /\ MaxAttempts \in Nat
      /\ job \in [Gifts -> JobStates] /\ attempts \in [Gifts -> 0..MaxAttempts]
  BY ClaimsAssumption DEF IInv, PInv, TypeOK
<1>2. UNCHANGED <<status, paid>>
  BY DEF EnqueueClaim, storeVars
<1>3. \/ job'[g] = job[g] /\ attempts'[g] = attempts[g]
      \/ job[g] = "none" /\ job'[g] = "waiting" /\ attempts'[g] = 0
  BY <1>1 DEF EnqueueClaim
<1> QED
  BY <1>1, <1>2, <1>3 DEF PaymentsLeft, WithinBudget, LiveJobs

LEMMA BudgetStep ==
  ASSUME IInv, WithinBudget, [Next]_vars
  PROVE  WithinBudget'
<1> SUFFICES ASSUME NEW g \in Gifts
             PROVE  /\ job'[g] \in {"started", "sending", "sent"} => status'[g] # Absent
                    /\ paid'[g] + PaymentsLeft(g)' <= Budget'
  BY DEF WithinBudget
<1>1. /\ paid[g] \in Nat /\ paid'[g] \in Nat /\ MaxAttempts \in Nat
      /\ PaymentsLeft(g) \in Int /\ PaymentsLeft(g)' \in Int
      /\ paid[g] + PaymentsLeft(g) <= Budget
  BY NextIInv, ClaimsAssumption DEF IInv, PInv, TypeOK, PaymentsLeft, WithinBudget
<1>2. /\ Budget \in Nat /\ Budget' \in Nat /\ Budget <= Budget'
      /\ \A r \in Requests : EnqueueClaim(r) => Budget + MaxAttempts <= Budget'
  BY BudgetGrows
<1> DEFINE b == Budget
           c == Budget'
           p == paid[g] + PaymentsLeft(g)
           q == paid'[g] + PaymentsLeft(g)'
<1>3. b \in Nat /\ c \in Nat /\ b <= c /\ p \in Int /\ q \in Int /\ p <= b
  BY <1>1, <1>2
<1>4. ASSUME NEW r \in Requests, EnqueueClaim(r) PROVE b + MaxAttempts <= c
  BY <1>2, <1>4
<1> HIDE DEF b, c, p, q
<1>5. ASSUME NEW r \in Requests, EnqueueClaim(r)
      PROVE  (job'[g] \in {"started", "sending", "sent"} => status'[g] # Absent) /\ q <= c
  <2>1. q <= p + MaxAttempts
    BY <1>5, EnqueueSpends DEF p, q
  <2> QED
    BY <1>1, <1>3, <1>4, <1>5, <2>1, EnqueueSpends
<1>6. ASSUME q <= p PROVE q <= c
  BY <1>3, <1>6
<1>7. ASSUME NEW h \in Gifts, Worker(h)
      PROVE  (job'[g] \in {"started", "sending", "sent"} => status'[g] # Absent) /\ q <= c
  BY <1>6, <1>7, WorkerSpends DEF p, q
<1>8. ASSUME \/ Restart
             \/ \E h \in Gifts : Unlock(h) \/ AdminRefund(h) \/ JobRemoved(h)
             \/ UNCHANGED <<status, job, attempts, paid>>
      PROVE  (job'[g] \in {"started", "sending", "sent"} => status'[g] # Absent) /\ q <= c
  BY <1>6, <1>8, OthersPayNothing DEF p, q
<1>9. (job'[g] \in {"started", "sending", "sent"} => status'[g] # Absent) /\ q <= c
  BY <1>5, <1>7, <1>8
     DEF Next, ClaimStep, Register, InvitationExpires, Challenge, ChallengeExpires, Recipient,
         ClaimCheck, ClaimConsume, ClaimInvitation, ClaimMark, ClaimGift, UnlockTimePasses, vars, storeVars,
         claimVars
<1> QED
  BY <1>9 DEF q, c

\* Whatever is lost or refunded, and however often the server restarts, a gift
\* is paid at most once for each attempt of each job, and has at most one job for
\* each request.
THEOREM CostIsBounded == Spec => []PaymentsBounded
<1>1. Init => WithinBudget
  <2>1. Budget = MaxAttempts * Cardinality(Answered) /\ Cardinality(Answered) \in Nat
    BY ClaimsAssumption, FS_Subset, FS_CardinalityType DEF Answered, Budget
  <2>2. Budget >= 0
    BY <2>1, ClaimsAssumption
  <2> QED
    BY <2>2 DEF Init, ClaimInit, WithinBudget, PaymentsLeft, LiveJobs
<1>2. IInv /\ WithinBudget => PaymentsBounded
  <2> SUFFICES ASSUME IInv, WithinBudget, NEW g \in Gifts
               PROVE  paid[g] <= MaxAttempts * Cardinality(Requests)
    BY DEF PaymentsBounded
  <2>1. /\ Cardinality(Answered) \in Nat /\ Cardinality(Requests) \in Nat
        /\ Cardinality(Answered) <= Cardinality(Requests)
    BY ClaimsAssumption, FS_Subset, FS_CardinalityType DEF Answered
  <2>2. \A m, k, l \in Nat : k <= l => m * k <= m * l
    OBVIOUS
  <2>3. Budget <= MaxAttempts * Cardinality(Requests)
    BY <2>1, <2>2, ClaimsAssumption DEF Budget
  <2>4. PaymentsLeft(g) \in Nat
    BY ClaimsAssumption
       DEF PaymentsLeft, IInv, PInv, TypeOK, PayoutInv, AttemptsRemain, LiveJobs
  <2>5. paid[g] \in Nat /\ paid[g] + PaymentsLeft(g) <= Budget
    BY DEF IInv, PInv, TypeOK, WithinBudget
  <2>6. Budget \in Int /\ MaxAttempts * Cardinality(Requests) \in Int
    BY <2>1, ClaimsAssumption DEF Budget
  <2> HIDE DEF Budget
  <2> QED
    BY <2>3, <2>4, <2>5, <2>6
<1> QED
  BY <1>1, <1>2, InitIInv, NextIInv, BudgetStep, PTL DEF Spec

-----------------------------------------------------------------------------
\* A nonce that has been generated is never generated again; it has one key, of
\* one gift, and a request that is about to delete that key holds its gift; a
\* nonce with which a request was accepted has no key.
NonceInv ==
  /\ \A g \in Gifts, n \in Nonces : <<g, n>> \in challenges =>
       n \in issued /\ \A h \in Gifts : <<h, n>> \in challenges => h = g
  /\ \A r \in Requests : request[r].pc = "consume" =>
       /\ request[r].nonce \in issued
       /\ \A h \in Gifts : <<h, request[r].nonce>> \in challenges => h = request[r].gift
  /\ \A n \in Nonces : accepted[n] # {} =>
       n \in issued /\ \A g \in Gifts : <<g, n>> \notin challenges

\* The steps that touch no nonce.
LEMMA UntouchedNonces ==
  ASSUME NonceInv, challenges' \subseteq challenges, UNCHANGED <<issued, accepted>>,
         \A r \in Requests : request'[r].pc = "consume" => request'[r] = request[r]
  PROVE  NonceInv'
BY DEF NonceInv

LEMMA NonceStep ==
  ASSUME IInv, NonceInv, [Next]_vars
  PROVE  NonceInv'
<1>1. ASSUME NEW g \in Gifts, NEW n \in Nonces, Challenge(g, n) PROVE NonceInv'
  <2>1. /\ n \notin issued /\ issued' = issued \cup {n}
        /\ challenges' = challenges \cup {<<g, n>>} /\ UNCHANGED <<request, accepted>>
    BY <1>1 DEF Challenge
  <2> QED
    BY <2>1 DEF NonceInv
<1>2. ASSUME NEW r \in Requests, NEW g \in Gifts, NEW n \in Nonces, ClaimCheck(r, g, n)
      PROVE  NonceInv'
  <2>1. UNCHANGED <<challenges, issued, accepted>>
    BY <1>2 DEF ClaimCheck
  <2>2. \A q \in Requests \ {r} : request'[q] = request[q]
    BY <1>2 DEF ClaimCheck, IInv, PInv, TypeOK
  <2>3. request'[r].pc = "consume" =>
          <<g, n>> \in challenges /\ request'[r].gift = g /\ request'[r].nonce = n
    BY <1>2 DEF ClaimCheck, IInv, PInv, TypeOK
  <2> QED
    BY <2>1, <2>2, <2>3 DEF NonceInv
<1>3. ASSUME NEW r \in Requests, ClaimConsume(r) PROVE NonceInv'
  <2>1. /\ request[r].pc = "consume" /\ request[r].gift \in Gifts /\ request[r].nonce \in Nonces
        /\ challenges' = challenges \ {<<request[r].gift, request[r].nonce>>}
        /\ accepted' = [accepted EXCEPT ![request[r].nonce] = @ \cup {r}]
        /\ UNCHANGED issued
    BY <1>3, StagedRequest DEF ClaimConsume, At, IInv, PInv, Stages
  <2>2. \A q \in Requests : request'[q].pc = "consume" => request'[q] = request[q]
    BY <1>3 DEF ClaimConsume, At, Goto, Answer, IInv, PInv, TypeOK, Stages, Ready
  <2>3. \A n \in Nonces : accepted'[n] # {} => accepted[n] # {} \/ n = request[r].nonce
    BY <2>1 DEF IInv, PInv, TypeOK
  <2> QED
    BY <2>1, <2>2, <2>3 DEF NonceInv
<1>4. ASSUME NEW r \in Requests,
             ClaimInvitation(r) \/ ClaimMark(r) \/ ClaimGift(r) \/ EnqueueClaim(r)
      PROVE  NonceInv'
  <2>1. UNCHANGED <<challenges, issued, accepted>>
    BY <1>4 DEF ClaimInvitation, ClaimMark, ClaimGift, EnqueueClaim
  <2>2. \A q \in Requests : request'[q].pc = "consume" => request'[q] = request[q]
    BY <1>4 DEF ClaimInvitation, ClaimMark, ClaimGift, EnqueueClaim, At, Goto, Answer, IInv, PInv, TypeOK, Stages, Ready
  <2> QED
    BY <2>1, <2>2, UntouchedNonces
<1>5. CASE Restart
  <2>1. \A q \in Requests : request'[q].pc = "consume" => request'[q] = request[q]
    BY <1>5 DEF Restart, Ready
  <2> QED
    BY <1>5, <2>1, UntouchedNonces DEF Restart
<1>6. CASE challenges' \subseteq challenges /\ UNCHANGED <<issued, request, accepted>>
  BY <1>6, UntouchedNonces
<1> QED
  BY <1>1, <1>2, <1>3, <1>4, <1>5, <1>6
     DEF Next, ClaimStep, Unlock, AdminRefund, Register, InvitationExpires, Worker, WorkerStart,
         WorkerValidate, WorkerSend, WorkerLosesAnswer, WorkerRecord, JobRemoved, ChallengeExpires,
         Recipient, UnlockTimePasses, vars, claimVars

\* A request gets past the check only with a nonce that has its key.
LEMMA CheckNeedsKey ==
  ASSUME IInv, [Next]_vars, NEW r \in Requests, request[r] = Ready, request'[r].pc = "consume"
  PROVE  \E g \in Gifts : <<g, request'[r].nonce>> \in challenges /\ request'[r].nonce \in Nonces
<1>1. request' # request
  BY DEF Ready
<1>2. ~Restart
  BY DEF Restart, At, Ready
<1>3. PICK q \in Requests : Recipient(q)
  BY <1>1, <1>2 DEF Next, ClaimStep, Unlock, AdminRefund, Register, InvitationExpires, Worker,
     WorkerStart, WorkerValidate, WorkerSend, WorkerLosesAnswer, WorkerRecord, JobRemoved,
     Challenge, ChallengeExpires, UnlockTimePasses, vars, claimVars
<1>4. q = r
  <2>1. ASSUME q # r PROVE request'[r] = request[r]
    BY <1>3, <2>1 DEF Recipient, ClaimCheck, ClaimConsume, ClaimInvitation, ClaimMark, ClaimGift,
                      EnqueueClaim, Goto, Answer, IInv, PInv, TypeOK
  <2>2. request[r].pc = "ready"
    BY DEF Ready
  <2> QED
    BY <2>1, <2>2
<1>5. PICK g \in Gifts, n \in Nonces : ClaimCheck(r, g, n)
  BY <1>3, <1>4 DEF Recipient, ClaimConsume, ClaimInvitation, ClaimMark, ClaimGift, EnqueueClaim, At, Ready
<1> QED
  BY <1>5 DEF ClaimCheck, IInv, PInv, TypeOK

\* Once a request was accepted with a nonce, none that comes later gets past the
\* check with it, whatever the requests that overlap with it do.
THEOREM NonceIsSpent == Spec => SpentNonceStaysSpent
<1>1. Init => NonceInv
  BY DEF Init, ClaimInit, NonceInv, Ready
<1>2. IInv /\ NonceInv /\ [Next]_vars =>
        [\A n \in Nonces, r \in Requests :
           accepted[n] # {} /\ request[r] = Ready /\ request'[r].pc = "consume" =>
             request'[r].nonce # n]_vars
  BY CheckNeedsKey DEF NonceInv
<1> QED
  BY <1>1, <1>2, InitIInv, NextIInv, NonceStep, PTL DEF Spec, SpentNonceStaysSpent
=============================================================================
