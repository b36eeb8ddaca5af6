------------------------------ MODULE GroupGift ------------------------------
(***************************************************************************)
(* One group gift, src/server/services/group-gift.service.ts: contributors *)
(* pay their parts at Paystack, and the page Paystack sends them back to   *)
(* (GET /api/gifts/group/callback) asks Paystack about the payment and     *)
(* counts it.  The page can be opened again, before the payment as well as *)
(* after it, and by several browsers at a time; between its question and   *)
(* what it writes, payments are made and other pages served.  The gift is  *)
(* in the memory of the server.                                            *)
(*                                                                         *)
(* Paystack is the environment: a payment is initialised once, may be      *)
(* declined and tried again, and is not taken back once it is made.  Its   *)
(* webhook does not know group gifts: the reference names no gift.         *)
(***************************************************************************)
EXTENDS GroupGiftState

vars == <<gift, collected, contribution, late, charge, visit>>

Init ==
  /\ gift = "none" /\ collected = 0 /\ late = FALSE
  /\ contribution = [c \in Contributions |-> "none"]
  /\ charge = [c \in Contributions |-> "none"]
  /\ visit = [v \in Visits |-> [pc |-> "ready"]]

-----------------------------------------------------------------------------
\* createGroupGift
Create ==
  /\ gift = "none" /\ gift' = "open"
  /\ UNCHANGED <<collected, contribution, late, charge, visit>>

\* Mutant: the deadline is looked at before the status.
Contribute_DeadlineFirst(c) ==
  /\ gift \notin {"none", "lost"} /\ contribution[c] = "none"
  /\ IF late THEN gift' = "expired" /\ UNCHANGED contribution
     ELSE gift = "open" /\ contribution' = [contribution EXCEPT ![c] = "pending"] /\ UNCHANGED gift
  /\ UNCHANGED <<collected, late, charge, visit>>

\* initiateContribution up to its await: the first one after the deadline closes
\* the gift and is refused.
Contribute(c) ==
  /\ gift = "open" /\ contribution[c] = "none"
  /\ IF late THEN gift' = "expired" /\ UNCHANGED contribution
     ELSE contribution' = [contribution EXCEPT ![c] = "pending"] /\ UNCHANGED gift
  /\ UNCHANGED <<collected, late, charge, visit>>

\* initializePayment succeeds.  When it does not, the contribution stays pending
\* and nobody can pay it.
OpenCharge(c) ==
  /\ contribution[c] = "pending" /\ charge[c] = "none"
  /\ charge' = [charge EXCEPT ![c] = "open"]
  /\ UNCHANGED <<gift, collected, contribution, late, visit>>

\* The contributor pays, whatever has become of the gift.
Pay(c) ==
  /\ charge[c] = "open" /\ charge' = [charge EXCEPT ![c] = "paid"]
  /\ UNCHANGED <<gift, collected, contribution, late, visit>>

-----------------------------------------------------------------------------
\* Mutant: an answer about a payment that is not made counts as well.
Visit_AnyAnswer(v, c) ==
  /\ visit[v].pc = "ready" /\ charge[c] # "none"
  /\ visit' = [visit EXCEPT ![v] = [pc |-> "success", of |-> c]]
  /\ UNCHANGED <<gift, collected, contribution, late, charge>>

\* Mutant: Paystack's own word is handed on, "open" for a payment not made yet.
Visit_RawAnswer(v, c) ==
  /\ visit[v].pc = "ready" /\ charge[c] # "none"
  /\ visit' = [visit EXCEPT ![v] =
       [pc |-> IF charge[c] = "paid" THEN "success" ELSE charge[c], of |-> c]]
  /\ UNCHANGED <<gift, collected, contribution, late, charge>>

\* The callback page asks Paystack; all that is not "success" is taken for a
\* failure, a payment still pending included.
Visit(v, c) ==
  /\ visit[v].pc = "ready" /\ charge[c] # "none"
  /\ visit' = [visit EXCEPT ![v] =
       [pc |-> IF charge[c] = "paid" THEN "success" ELSE "failed", of |-> c]]
  /\ UNCHANGED <<gift, collected, contribution, late, charge>>

\* verifyPayment throws: the visit ends in a 500.
VisitThrows(v, c) ==
  /\ visit[v].pc = "ready" /\ charge[c] # "none"
  /\ visit' = [visit EXCEPT ![v] = [pc |-> "done", of |-> c]]
  /\ UNCHANGED <<gift, collected, contribution, late, charge>>

Leave(v) == visit' = [visit EXCEPT ![v].pc = "done"]
Listed(c) == gift # "lost" /\ contribution[c] # "none"

\* Mutant: what comes after the gift was closed is refused.
Confirm_WhileOpen(v) ==
  LET c == visit[v].of
  IN  /\ visit[v].pc = "success" /\ Leave(v)
      /\ IF Listed(c) /\ gift = "open"
         THEN /\ contribution' = [contribution EXCEPT ![c] = "success"]
              /\ collected' = collected + Amount[c]
              /\ gift' = IF collected' >= Target THEN "funded" ELSE gift
         ELSE UNCHANGED <<gift, collected, contribution>>
      /\ UNCHANGED <<late, charge>>

\* confirmContribution: adds the amount each time it is called, and looks neither
\* at the status of the contribution nor at that of the gift.
Confirm(v) ==
  LET c == visit[v].of
  IN  /\ visit[v].pc = "success" /\ Leave(v)
      /\ IF Listed(c)
         THEN /\ contribution' = [contribution EXCEPT ![c] = "success"]
              /\ collected' = collected + Amount[c]
              /\ gift' = IF collected' >= Target THEN "funded" ELSE gift
         ELSE UNCHANGED <<gift, collected, contribution>>
      /\ UNCHANGED <<late, charge>>

\* failContribution: a contribution that was counted can be marked failed by an
\* answer that is older than its payment.
Fail(v) ==
  LET c == visit[v].of
  IN  /\ visit[v].pc = "failed" /\ Leave(v)
      /\ contribution' = IF Listed(c) THEN [contribution EXCEPT ![c] = "failed"] ELSE contribution
      /\ UNCHANGED <<gift, collected, late, charge>>

-----------------------------------------------------------------------------
DeadlinePasses ==
  /\ ~late /\ late' = TRUE
  /\ UNCHANGED <<gift, collected, contribution, charge, visit>>

\* The server restarts: the Maps are empty, the visits it served are cut off.
Restart ==
  /\ gift \notin {"none", "lost"} /\ gift' = "lost"
  /\ collected' = 0 /\ contribution' = [c \in Contributions |-> "none"]
  /\ visit' = [v \in Visits |-> IF visit[v].pc = "ready" THEN visit[v]
                                ELSE [visit[v] EXCEPT !.pc = "done"]]
  /\ UNCHANGED <<late, charge>>

Serve(v) == Confirm(v) \/ Fail(v)

Next ==
  \/ Create \/ DeadlinePasses \/ Restart
  \/ \E c \in Contributions : Contribute(c) \/ OpenCharge(c) \/ Pay(c)
  \/ \E v \in Visits : \/ Serve(v)
                       \/ \E c \in Contributions : Visit(v, c) \/ VisitThrows(v, c)

\* A request that has its answer from Paystack runs on.
Fairness == \A v \in Visits : WF_vars(Serve(v))

Spec == Init /\ [][Next]_vars /\ Fairness

=============================================================================
