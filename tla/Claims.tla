------------------------------- MODULE Claims -------------------------------
(***************************************************************************)
(* How an unlocked gift is paid out: the recipient fetches a challenge     *)
(* nonce, claims with it (POST /api/v1/gifts/[id]/claim), which consumes   *)
(* the nonce and the invitation and puts a job on the stellar-tx queue,    *)
(* and the queue's worker sends the USDC and marks the gift claimed,       *)
(* retrying when it fails.  Requests and the worker are split at their     *)
(* awaits of Redis, of the database, of the queue and of Stellar.          *)
(*                                                                         *)
(* gift.contractId is never set on a gift that createGift made, so the     *)
(* escrow check of claimGift is not reached.  BullMQ and the Stellar       *)
(* network are the environment.                                            *)
(***************************************************************************)
EXTENDS GiftStore, Integers, FiniteSets

CONSTANTS Requests,      \* claim requests
          Nonces,        \* challenge nonces
          Invited,       \* gifts whose recipient was invited by SMS
          MaxAttempts,   \* attempts of a job, 5 in the code
          MaxRestarts    \* bound on the restarts of the server

ASSUME ClaimsAssumption ==
  /\ IsFiniteSet(Requests) /\ Invited \subseteq Gifts
  /\ MaxAttempts \in Nat \ {0} /\ MaxRestarts \in Nat

VARIABLES challenges,  \* keys claim:challenge:<gift>:<nonce> in Redis
          issued,      \* nonces generated so far
          request,     \* claim requests, where they stand
          accepted,    \* nonces accepted, with the requests they were accepted from
          invitation,  \* gift_invitations.status
          job,         \* the job claim:<gift>
          attempts,    \* attempts of it that have failed
          paid,        \* payments the network executed for a gift
          claimTxHash, \* gift.claimTxHash is set
          disturbed,   \* gifts refunded while unlocked, or with a payment whose answer was lost
          restarts

claimVars == <<challenges, issued, request, accepted, invitation, job, attempts,
               paid, claimTxHash, disturbed, restarts>>
vars == <<storeVars, claimVars>>

Ready == [pc |-> "ready"]
Stages == {"consume", "invitation", "mark", "claim", "enqueue"}
JobStates == {"none", "waiting", "started", "sending", "sent", "completed", "failed"}

TypeOK ==
  /\ StoreTypeOK
  /\ challenges \subseteq Gifts \X Nonces /\ issued \subseteq Nonces
  /\ request \in [Requests -> {Ready, [pc |-> "done"]}
                              \cup [pc : Stages, gift : Gifts, nonce : Nonces]]
  /\ accepted \in [Nonces -> SUBSET Requests]
  /\ invitation \in [Gifts -> {"none", "pending", "accepted", "claimed"}]
  /\ job \in [Gifts -> JobStates] /\ attempts \in [Gifts -> 0..MaxAttempts]
  /\ paid \in [Gifts -> Nat] /\ claimTxHash \in [Gifts -> BOOLEAN]
  /\ disturbed \subseteq Gifts /\ restarts \in 0..MaxRestarts

ClaimInit ==
  /\ challenges = {} /\ issued = {}
  /\ request = [r \in Requests |-> Ready] /\ accepted = [n \in Nonces |-> {}]
  /\ invitation = [g \in Gifts |-> IF g \in Invited THEN "pending" ELSE "none"]
  /\ job = [g \in Gifts |-> "none"] /\ attempts = [g \in Gifts |-> 0]
  /\ paid = [g \in Gifts |-> 0] /\ claimTxHash = [g \in Gifts |-> FALSE]
  /\ disturbed = {} /\ restarts = 0

\* The gifts have been paid for and locked.
Init ==
  /\ status = [g \in Gifts |-> "locked"]
  /\ deleted = [g \in Gifts |-> FALSE] /\ due = [g \in Gifts |-> FALSE]
  /\ ClaimInit

-----------------------------------------------------------------------------
\* processUnlocks, for a gift whose row the cron query returned.
Unlock(g) ==
  /\ due[g] /\ Changes(g, "unlocked") /\ updateGiftStatus(g, "unlocked")
  /\ UNCHANGED <<deleted, due, claimVars>>

\* Administrators refund through the same state machine as everybody else.
AdminRefund(g) ==
  /\ Found(g) /\ Changes(g, "cancelled") /\ updateGiftStatus(g, "cancelled")
  /\ disturbed' = disturbed \cup {h \in {g} : status[h] = "unlocked"}
  /\ UNCHANGED <<deleted, due, challenges, issued, request, accepted, invitation, job, attempts,
                 paid, claimTxHash, restarts>>

\* The invited recipient registers: acceptInvitation.
Register(g) ==
  /\ invitation[g] = "pending" /\ invitation' = [invitation EXCEPT ![g] = "accepted"]
  /\ UNCHANGED <<storeVars, challenges, issued, request, accepted, job, attempts, paid,
                 claimTxHash, disturbed, restarts>>

\* GET challenge: a fresh nonce, for whatever gift id is asked.
Challenge(g, n) ==
  /\ n \notin issued /\ issued' = issued \cup {n}
  /\ challenges' = challenges \cup {<<g, n>>}
  /\ UNCHANGED <<storeVars, request, accepted, invitation, job, attempts, paid,
                 claimTxHash, disturbed, restarts>>

\* Thirty days on, an invitation is no longer found.
InvitationExpires(g) ==
  /\ invitation[g] # "none" /\ invitation' = [invitation EXCEPT ![g] = "none"]
  /\ UNCHANGED <<storeVars, challenges, issued, request, accepted, job, attempts, paid,
                 claimTxHash, disturbed, restarts>>

\* Its key expires after 300 s.
ChallengeExpires(c) ==
  /\ c \in challenges /\ challenges' = challenges \ {c}
  /\ UNCHANGED <<storeVars, issued, request, accepted, invitation, job, attempts, paid,
                 claimTxHash, disturbed, restarts>>

-----------------------------------------------------------------------------
\* A claim request moves on to a stage, or is answered.
At(r, stage) == request[r].pc = stage
Goto(r, stage) == request' = [request EXCEPT ![r].pc = stage]
Answer(r) == request' = [request EXCEPT ![r] = [pc |-> "done"]]

\* verifyClaimSignature reads the nonce ...
ClaimCheck(r, g, n) ==
  /\ At(r, "ready") /\ n \in issued
  /\ request' = [request EXCEPT ![r] =
       IF <<g, n>> \in challenges THEN [pc |-> "consume", gift |-> g, nonce |-> n]
                                  ELSE [pc |-> "done"]]
  /\ UNCHANGED <<storeVars, challenges, issued, accepted, invitation, job, attempts, paid,
                 claimTxHash, disturbed, restarts>>

\* Mutant: the nonce is left to expire.
ClaimConsume_Keeps(r) ==
  LET g == request[r].gift
      n == request[r].nonce
  IN  /\ At(r, "consume")
      /\ accepted' = [accepted EXCEPT ![n] = @ \cup {r}]
      /\ IF Found(g) THEN Goto(r, "invitation") \/ Answer(r) ELSE Answer(r)
      /\ UNCHANGED <<storeVars, challenges, issued, invitation, job, attempts, paid,
                     claimTxHash, disturbed, restarts>>

\* ... and deletes it, by a second call; then the signature is checked and
\* getGiftById looks for the gift.
ClaimConsume(r) ==
  LET g == request[r].gift
      n == request[r].nonce
  IN  /\ At(r, "consume")
      /\ challenges' = challenges \ {<<g, n>>}
      /\ accepted' = [accepted EXCEPT ![n] = @ \cup {r}]
      /\ IF Found(g) THEN Goto(r, "invitation") \/ Answer(r) ELSE Answer(r)
      /\ UNCHANGED <<storeVars, issued, invitation, job, attempts, paid,
                     claimTxHash, disturbed, restarts>>

\* The invitation of the gift is looked up by the phone of the session.  A session
\* with another phone, or with none, finds nothing and goes on; the recipient's own
\* needs one that is accepted ...
ClaimInvitation(r) ==
  LET g == request[r].gift
  IN  /\ At(r, "invitation")
      /\ \/ Goto(r, "claim")
         \/ invitation[g] = "accepted" /\ Goto(r, "mark")
         \/ invitation[g] \in {"pending", "claimed"} /\ Answer(r)
      /\ UNCHANGED <<storeVars, challenges, issued, accepted, invitation, job, attempts, paid,
                     claimTxHash, disturbed, restarts>>

\* ... and marks it claimed by a second query, whatever it says by now.
ClaimMark(r) ==
  LET g == request[r].gift
  IN  /\ At(r, "mark") /\ Goto(r, "claim")
      /\ invitation' = IF invitation[g] = "none" THEN invitation
                       ELSE [invitation EXCEPT ![g] = "claimed"]
      /\ UNCHANGED <<storeVars, challenges, issued, accepted, job, attempts, paid,
                     claimTxHash, disturbed, restarts>>

\* Mutant: claimGift relies on the worker to look at the status.
ClaimGift_Unchecked(r) ==
  /\ At(r, "claim") /\ (Goto(r, "enqueue") \/ Answer(r))
  /\ UNCHANGED <<storeVars, challenges, issued, accepted, invitation, job, attempts, paid,
                 claimTxHash, disturbed, restarts>>

\* claimGift: the gift must be unlocked; then the recipient's account is
\* validated, which may fail, and the job is enqueued.
ClaimGift(r) ==
  /\ At(r, "claim")
  /\ IF status[request[r].gift] = "unlocked" THEN Goto(r, "enqueue") \/ Answer(r) ELSE Answer(r)
  /\ UNCHANGED <<storeVars, challenges, issued, accepted, invitation, job, attempts, paid,
                 claimTxHash, disturbed, restarts>>

\* enqueueClaim: the id of the job is the gift's, so while the queue knows a job
\* of that id, finished ones included, nothing is added.
EnqueueClaim(r) ==
  LET g == request[r].gift
  IN  /\ At(r, "enqueue") /\ Answer(r)
      /\ IF job[g] = "none"
         THEN job' = [job EXCEPT ![g] = "waiting"] /\ attempts' = [attempts EXCEPT ![g] = 0]
         ELSE UNCHANGED <<job, attempts>>
      /\ UNCHANGED <<storeVars, challenges, issued, accepted, invitation, paid,
                     claimTxHash, disturbed, restarts>>

-----------------------------------------------------------------------------
\* Mutant: no limit of attempts.
Throw_Forever(g) == job' = [job EXCEPT ![g] = "waiting"] /\ UNCHANGED attempts

\* The worker's handler throws: the job is retried, attempts permitting.
Throw(g) ==
  /\ attempts' = [attempts EXCEPT ![g] = @ + 1]
  /\ job' = [job EXCEPT ![g] = IF attempts[g] + 1 < MaxAttempts THEN "waiting" ELSE "failed"]

\* Mutant: the worker does not look whether the gift is claimed already.
WorkerStart_Blind(g) ==
  /\ job[g] = "waiting"
  /\ IF ~Found(g) THEN Throw(g)
     ELSE job' = [job EXCEPT ![g] = "started"] /\ UNCHANGED attempts
  /\ UNCHANGED <<storeVars, challenges, issued, request, accepted, invitation, paid,
                 claimTxHash, disturbed, restarts>>

\* The worker takes the job: a gift that is gone fails it, a claimed one ends it.
WorkerStart(g) ==
  /\ job[g] = "waiting"
  /\ IF ~Found(g) THEN Throw(g)
     ELSE /\ job' = [job EXCEPT ![g] = IF status[g] = "claimed" THEN "completed" ELSE "started"]
          /\ UNCHANGED attempts
  /\ UNCHANGED <<storeVars, challenges, issued, request, accepted, invitation, paid,
                 claimTxHash, disturbed, restarts>>

\* validateStellarAccount: the account is there, or it is not, or Horizon fails.
WorkerValidate(g) ==
  /\ job[g] = "started"
  /\ \/ job' = [job EXCEPT ![g] = "sending"] /\ UNCHANGED attempts
     \/ Throw(g)
  /\ UNCHANGED <<storeVars, challenges, issued, request, accepted, invitation, paid,
                 claimTxHash, disturbed, restarts>>

\* Mutant: a payment that fails is taken for one that was made.
WorkerSend_Trusting(g) ==
  /\ job[g] = "sending" /\ job' = [job EXCEPT ![g] = "sent"]
  /\ paid' \in {paid, [paid EXCEPT ![g] = @ + 1]}
  /\ UNCHANGED <<storeVars, challenges, issued, request, accepted, invitation, attempts,
                 claimTxHash, disturbed, restarts>>

\* sendUsdcPayment: the network executes the payment, or it is not executed.
WorkerSend(g) ==
  /\ job[g] = "sending"
  /\ \/ /\ paid' = [paid EXCEPT ![g] = @ + 1]
        /\ job' = [job EXCEPT ![g] = "sent"] /\ UNCHANGED attempts
     \/ Throw(g) /\ UNCHANGED paid
  /\ UNCHANGED <<storeVars, challenges, issued, request, accepted, invitation,
                 claimTxHash, disturbed, restarts>>

\* submitTransaction times out although the payment went through.
WorkerLosesAnswer(g) ==
  /\ job[g] = "sent" /\ Throw(g) /\ disturbed' = disturbed \cup {g}
  /\ UNCHANGED <<storeVars, challenges, issued, request, accepted, invitation, paid,
                 claimTxHash, restarts>>

\* storeClaimTxHash, then updateGiftStatus "claimed", which may throw.
WorkerRecord(g) ==
  /\ job[g] = "sent"
  /\ claimTxHash' = [claimTxHash EXCEPT ![g] = @ \/ status[g] # Absent]
  /\ updateGiftStatus(g, "claimed")
  /\ \E outcome \in Outcomes(g, "claimed") :
       IF outcome = "throw" THEN Throw(g)
       ELSE job' = [job EXCEPT ![g] = "completed"] /\ UNCHANGED attempts
  /\ UNCHANGED <<deleted, due, challenges, issued, request, accepted, invitation, paid, disturbed, restarts>>

\* The queue keeps the last 100 completed and the last 200 failed jobs.
JobRemoved(g) ==
  /\ job[g] \in {"completed", "failed"} /\ job' = [job EXCEPT ![g] = "none"]
  /\ UNCHANGED <<storeVars, challenges, issued, request, accepted, invitation, attempts, paid,
                 claimTxHash, disturbed, restarts>>

\* The server restarts and loses the gift store; the job it worked on stalls and
\* is taken up again.
Restart ==
  /\ restarts < MaxRestarts /\ restarts' = restarts + 1
  /\ status' = [g \in Gifts |-> Absent] /\ deleted' = [g \in Gifts |-> FALSE]
  /\ claimTxHash' = [g \in Gifts |-> FALSE]
  /\ request' = [r \in Requests |-> IF At(r, "ready") THEN Ready ELSE [pc |-> "done"]]
  /\ job' = [g \in Gifts |-> IF job[g] \in {"started", "sending", "sent"} THEN "waiting" ELSE job[g]]
  /\ UNCHANGED <<due, challenges, issued, accepted, invitation, attempts, paid, disturbed>>

Recipient(r) ==
  \/ \E g \in Gifts, n \in Nonces : ClaimCheck(r, g, n)
  \/ ClaimConsume(r) \/ ClaimInvitation(r) \/ ClaimMark(r) \/ ClaimGift(r) \/ EnqueueClaim(r)
Worker(g) ==
  WorkerStart(g) \/ WorkerValidate(g) \/ WorkerSend(g) \/ WorkerLosesAnswer(g) \/ WorkerRecord(g)

ClaimStep ==
  \/ \E g \in Gifts : \/ Unlock(g) \/ AdminRefund(g) \/ Register(g) \/ InvitationExpires(g)
                      \/ Worker(g) \/ JobRemoved(g)
                      \/ \E n \in Nonces : Challenge(g, n)
  \/ \E c \in challenges : ChallengeExpires(c)
  \/ \E r \in Requests : Recipient(r)

Next ==
  \/ ClaimStep
  \/ Restart
  \/ \E g \in Gifts : UnlockTimePasses(g) /\ UNCHANGED claimVars

\* BullMQ hands out waiting jobs, and every call of the worker returns or throws.
Fairness == \A g \in Gifts : WF_vars(Worker(g))

Spec == Init /\ [][Next]_vars /\ Fairness

-----------------------------------------------------------------------------
\* A gift is paid out once, unless an answer of the network was lost or it was
\* refunded while unlocked.  Nothing but the id of the job and the worker's look
\* at the status stands between two requests, two attempts or two lives of the
\* server and a second payment: the network takes every payment it is sent.
PaidAtMostOnce == \A g \in Gifts \ disturbed : paid[g] <= 1

\* A gift that counts as claimed, or whose job says so, was paid out, and the
\* hash of the payment is on record while the gift is.
ClaimedMeansPaid ==
  \A g \in Gifts :
    /\ status[g] = "claimed" => paid[g] > 0 /\ claimTxHash[g]
    /\ job[g] \in {"sent", "completed"} => paid[g] > 0

\* Whatever goes wrong, money leaves only after the unlock time; and, with the
\* exceptions of PaidAtMostOnce, only for a gift that is unlocked at that moment,
\* however long ago the request was checked.
OnlyUnlockedPaid ==
  [][\A g \in Gifts : paid'[g] > paid[g] =>
       due[g] /\ (g \notin disturbed => status[g] = "unlocked")]_vars

\* What lost answers and administrators can cost is bounded: a payment for each
\* attempt of each job, and a job for each request.
PaymentsBounded == \A g \in Gifts : paid[g] <= MaxAttempts * Cardinality(Requests)

\* A job is worked on until it completes or has used up its attempts.
JobSettles ==
  \A g \in Gifts : job[g] = "waiting" ~> job[g] \in {"none", "completed", "failed"}

\* Only requests that overlap can be accepted with one nonce: when a request has
\* been, none that comes later gets past the check with it.
SpentNonceStaysSpent ==
  [][\A n \in Nonces, r \in Requests :
       accepted[n] # {} /\ request[r] = Ready /\ request'[r].pc = "consume" =>
         request'[r].nonce # n]_vars
=============================================================================
