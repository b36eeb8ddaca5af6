--------------------------- MODULE GroupGiftState ---------------------------
(***************************************************************************)
(* What a group gift, its contributions and the visits of their page can   *)
(* be, and what must hold of the sums. The operations are in the module    *)
(* GroupGift; the state is apart so that it can stand beside that of       *)
(* another component.                                                      *)
(***************************************************************************)
EXTENDS Integers, FiniteSets

CONSTANTS Contributions,
          Amount,  \* contribution.amountNgn of each
          Target,  \* gift.targetAmountNgn
          Visits   \* visits of the callback page

ASSUME GroupAssumption ==
  /\ Amount \in [Contributions -> Nat \ {0}] /\ Target \in Nat \ {0}
  /\ IsFiniteSet(Visits)

VARIABLES gift,          \* gift.status; "none" before and "lost" after the Map holds it
          collected,     \* gift.collectedAmountNgn
          contribution,  \* contribution.status, of those in gift.contributions
          late,          \* the deadline has passed
          charge,        \* the payments at Paystack
          visit          \* visits of the callback page, where they stand

Answers == {"success", "failed"}

GroupTypeOK ==
  /\ gift \in {"none", "open", "funded", "expired", "lost"}
  /\ collected \in Nat /\ late \in BOOLEAN
  /\ contribution \in [Contributions -> {"none", "pending", "success", "failed"}]
  /\ charge \in [Contributions -> {"none", "open", "paid"}]
  /\ visit \in [Visits -> {[pc |-> "ready"]}
                          \cup [pc : Answers \cup {"done"}, of : Contributions]]

-----------------------------------------------------------------------------
\* The naira that visits stand for, each visit for the amount of its contribution.
Naira(visits) == UNION {{v} \X (1..Amount[visit[v].of]) : v \in visits}
PaidVisits == {v \in Visits : visit[v].pc # "ready" /\ charge[visit[v].of] = "paid"}

\* What a group gift says it collected has been paid, or was counted again by
\* another visit of the same contributor's page: declined, pending or unknown
\* payments, answers that come late and deadlines add nothing.  So a gift whose
\* pages are visited once each is funded only when the target has been paid.
CollectedIsPaid ==
  LET counted == Cardinality(Naira(PaidVisits))
  IN  collected <= counted /\ (gift = "funded" => counted >= Target)

\* Once funded, a gift stays so until the memory is lost: neither the deadline
\* nor a contribution that fails closes it.
FundedStaysFunded ==
  [][gift = "funded" => gift' \in {"funded", "lost"}]_gift

\* A payment the callback page saw is counted, after the deadline and over the
\* target too, unless a restart intervenes: nothing else would ever count it.
SeenPaymentCounts ==
  \A v \in Visits, c \in Contributions :
    visit[v] = [pc |-> "success", of |-> c] ~> contribution[c] = "success" \/ gift = "lost"
=============================================================================
