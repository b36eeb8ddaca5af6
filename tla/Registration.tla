---------------------------- MODULE Registration ----------------------------
(***************************************************************************)
(* Accounts and invitations: the register route, invitation.service.ts,    *)
(* the invitation step of the claim route and the deletion of an account   *)
(* (user-deletion.service.ts).  The routes are split at their queries;     *)
(* only the deletion runs in a transaction.                                *)
(*                                                                         *)
(* An invitation belongs to one gift and one phone number and is named by  *)
(* its gift.  The rest of a claim is the module Claims; here it goes       *)
(* through once the gift is unlocked, and may fail.                        *)
(***************************************************************************)
EXTENDS RegistrationState

gifts == <<sent, lapsed, unlocked>>
history == <<used, erased, erasures>>
vars == <<checked, users, signedUp, invitation, gifts, paidTo, request, claim, history, faults>>

\* With the migrations of the repository the check is there; the tables of its
\* tests do without.  The senders have accounts.
Init ==
  /\ checked \in BOOLEAN
  /\ users = {Sender[g] : g \in Gifts} /\ signedUp = users
  /\ invitation = [g \in Gifts |-> "none"]
  /\ sent = {} /\ lapsed = {} /\ unlocked = {} /\ paidTo = [g \in Gifts |-> Nobody]
  /\ request = [r \in Requests |-> Free] /\ claim = [c \in Claimers |-> Free]
  /\ used = [g \in Gifts |-> 0] /\ erased = {} /\ erasures = 0 /\ faults = 0

-----------------------------------------------------------------------------
\* createGiftInvitation, for a recipient the sender's form found no account of.
CreateInvitation(g) ==
  /\ g \notin sent /\ sent' = sent \cup {g}
  /\ invitation' = [invitation EXCEPT ![g] = "pending"]
  /\ UNCHANGED <<checked, users, signedUp, lapsed, unlocked, paidTo, request, claim, history, faults>>

Lapse(g) ==
  /\ g \in sent \ lapsed /\ lapsed' = lapsed \cup {g}
  /\ UNCHANGED <<checked, users, signedUp, invitation, sent, unlocked, paidTo, request, claim, history, faults>>

Unlock(g) ==
  /\ g \in sent \ unlocked /\ unlocked' = unlocked \cup {g}
  /\ UNCHANGED <<checked, users, signedUp, invitation, sent, lapsed, paidTo, request, claim, history, faults>>

-----------------------------------------------------------------------------
\* validateInvitationToken, as the SELECT states it.
Valid(g) == invitation[g] = "pending" /\ g \notin lapsed

\* The register route looks for an account ...
RegisterStart(r, p, token) ==
  /\ request[r] = Free /\ p \notin users
  /\ token = NoToken \/ token \in sent
  /\ request' = [request EXCEPT ![r] =
       [pc |-> IF token = NoToken THEN "insert" ELSE "validate", phone |-> p, token |-> token]]
  /\ UNCHANGED <<checked, users, signedUp, invitation, gifts, paidTo, claim, history, faults>>

\* ... validates the token and compares the phone ...
RegisterValidate(r) ==
  LET q == request[r]
  IN  /\ q.pc = "validate"
      /\ request' = IF Valid(q.token) /\ Recipient[q.token] = q.phone
                    THEN [request EXCEPT ![r].pc = "insert"]
                    ELSE [request EXCEPT ![r] = Free]
      /\ UNCHANGED <<checked, users, signedUp, invitation, gifts, paidTo, claim, history, faults>>

\* Mutant: a phone that is already there is taken for a success.
RegisterInsert_IgnoresConflict(r) ==
  LET q == request[r]
  IN  /\ q.pc = "insert"
      /\ users' = users \cup {q.phone} /\ signedUp' = signedUp \cup {q.phone}
      /\ IF q.token = NoToken THEN request' = [request EXCEPT ![r] = Free] /\ UNCHANGED used
         ELSE /\ request' = [request EXCEPT ![r].pc = "accept"]
              /\ used' = [used EXCEPT ![q.token] = @ + 1]
      /\ UNCHANGED <<checked, invitation, gifts, paidTo, claim, erased, erasures, faults>>

\* ... inserts the user, which fails where the phone has been taken meanwhile ...
RegisterInsert(r) ==
  LET q == request[r]
  IN  /\ q.pc = "insert"
      /\ users' = users \cup {q.phone} /\ signedUp' = signedUp \cup {q.phone}
      /\ IF q.phone \in users \/ q.token = NoToken
         THEN request' = [request EXCEPT ![r] = Free] /\ UNCHANGED used
         ELSE /\ request' = [request EXCEPT ![r].pc = "accept"]
              /\ used' = [used EXCEPT ![q.token] = @ + 1]
      /\ UNCHANGED <<checked, invitation, gifts, paidTo, claim, erased, erasures, faults>>

\* UPDATE ... WHERE id: whatever the status is, if the row is still there.
Mark(g, s) ==
  invitation' = IF invitation[g] = "none" THEN invitation ELSE [invitation EXCEPT ![g] = s]

\* Mutant: a status the table's comment does not know.
RegisterAccept_Misspelt(r) ==
  /\ request[r].pc = "accept"
  /\ Mark(request[r].token, "registered")
  /\ request' = [request EXCEPT ![r] = Free]
  /\ UNCHANGED <<checked, users, signedUp, gifts, paidTo, claim, history, faults>>

\* ... and accepts the invitation.
RegisterAccept(r) ==
  /\ request[r].pc = "accept"
  /\ Mark(request[r].token, "accepted")
  /\ request' = [request EXCEPT ![r] = Free]
  /\ UNCHANGED <<checked, users, signedUp, gifts, paidTo, claim, history, faults>>

\* It dies or a query fails: what it has done stays.
RegisterFails(r) ==
  /\ request[r] # Free /\ faults < MaxFaults /\ faults' = faults + 1
  /\ request' = [request EXCEPT ![r] = Free]
  /\ UNCHANGED <<checked, users, signedUp, invitation, gifts, paidTo, claim, history>>

-----------------------------------------------------------------------------
\* Mutant: an invitation is found after its time as well.
Invited_Forever(g, p) == invitation[g] # "none" /\ p = Recipient[g]

\* getInvitationByPhoneAndGift, for the phone of the session that claims.
Invited(g, p) == invitation[g] # "none" /\ p = Recipient[g] /\ g \notin lapsed

\* Mutant: without an accepted invitation the claim goes on all the same.
ClaimStart_Trusts(c, g, p) ==
  /\ claim[c] = Free /\ g \in sent /\ p \in signedUp
  /\ claim' = [claim EXCEPT ![c] =
       [pc |-> IF Invited(g, p) /\ invitation[g] = "accepted" THEN "mark" ELSE "claim",
        gift |-> g, phone |-> p]]
  /\ UNCHANGED <<checked, users, signedUp, invitation, gifts, paidTo, request, history, faults>>

\* Somebody with a session claims.  The one who is invited needs an invitation
\* that is accepted and not claimed yet; everybody else goes on without one ...
ClaimStart(c, g, p) ==
  /\ claim[c] = Free /\ g \in sent /\ p \in signedUp
  /\ Invited(g, p) => invitation[g] = "accepted"
  /\ claim' = [claim EXCEPT ![c] =
       [pc |-> IF Invited(g, p) THEN "mark" ELSE "claim", gift |-> g, phone |-> p]]
  /\ UNCHANGED <<checked, users, signedUp, invitation, gifts, paidTo, request, history, faults>>

\* ... claimInvitation comes first ...
ClaimMark(c) ==
  /\ claim[c].pc = "mark"
  /\ Mark(claim[c].gift, "claimed")
  /\ claim' = [claim EXCEPT ![c].pc = "claim"]
  /\ UNCHANGED <<checked, users, signedUp, gifts, paidTo, request, history, faults>>

\* ... and then claimGift, which throws while the gift is not unlocked.  The
\* first claim enqueued is the one that is paid: one job is kept for a gift.
ClaimGift(c) ==
  /\ claim[c].pc = "claim"
  /\ paidTo' = IF claim[c].gift \in unlocked /\ paidTo[claim[c].gift] = Nobody
               THEN [paidTo EXCEPT ![claim[c].gift] = claim[c].phone] ELSE paidTo
  /\ claim' = [claim EXCEPT ![c] = Free]
  /\ UNCHANGED <<checked, users, signedUp, invitation, gifts, request, history, faults>>

\* It dies, or something else refuses the claim.
ClaimFails(c) ==
  /\ claim[c] # Free /\ faults < MaxFaults /\ faults' = faults + 1
  /\ claim' = [claim EXCEPT ![c] = Free]
  /\ UNCHANGED <<checked, users, signedUp, invitation, gifts, paidTo, request, history>>

-----------------------------------------------------------------------------
\* deleteUserData: the phone becomes deleted-<id>, and the invitations of the
\* gifts the user has sent are deleted.  Where phones are checked, that UPDATE
\* fails and the transaction is rolled back.
Erase(p) ==
  /\ p \in users /\ erasures < MaxErasures /\ erasures' = erasures + 1
  /\ IF checked THEN UNCHANGED <<users, invitation, erased>>
     ELSE /\ users' = users \ {p} /\ erased' = erased \cup {p}
          /\ invitation' = [g \in Gifts |-> IF Sender[g] = p THEN "none" ELSE invitation[g]]
  /\ UNCHANGED <<checked, signedUp, gifts, paidTo, request, claim, used, faults>>

-----------------------------------------------------------------------------
Register(r) == RegisterValidate(r) \/ RegisterInsert(r) \/ RegisterAccept(r)
Claim(c) == ClaimMark(c) \/ ClaimGift(c)

Next ==
  \/ \E g \in Gifts : \/ CreateInvitation(g) \/ Lapse(g) \/ Unlock(g)
                      \/ \E c \in Claimers, p \in Phones : ClaimStart(c, g, p)
  \/ \E r \in Requests : \/ \E p \in Phones, t \in Gifts \cup {NoToken} : RegisterStart(r, p, t)
                         \/ Register(r) \/ RegisterFails(r)
  \/ \E c \in Claimers : Claim(c) \/ ClaimFails(c)
  \/ \E p \in Phones : Erase(p)

\* Invitations run out of time, claims go on, and a recipient whose claim can
\* start tries again.
Fairness ==
  /\ \A g \in Gifts : /\ WF_vars(Lapse(g))
                      /\ \A c \in Claimers : SF_vars(ClaimStart(c, g, Recipient[g]))
  /\ \A c \in Claimers : WF_vars(Claim(c))

Spec == Init /\ [][Next]_vars /\ Fairness

=============================================================================
