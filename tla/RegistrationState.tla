------------------------- MODULE RegistrationState --------------------------
(***************************************************************************)
(* The tables users and gift_invitations with the requests that work on    *)
(* them, and what must hold of accounts and invitations. The routes are in *)
(* the module Registration; the state is apart so that it can stand beside *)
(* that of another component.                                              *)
(***************************************************************************)
EXTENDS Naturals, FiniteSets

CONSTANTS Phones,
          Gifts,         \* gifts to recipients who are not registered
          Recipient,     \* the phone a gift is for
          Sender,        \* the phone of who sends it
          Requests,      \* requests to register
          Claimers,      \* requests to claim
          MaxErasures,   \* bound on the accounts deleted
          MaxFaults      \* bound on requests that fail or die half way

ASSUME RegistrationAssumption ==
  /\ Recipient \in [Gifts -> Phones] /\ Sender \in [Gifts -> Phones]
  /\ "no token" \notin Gifts /\ "nobody" \notin Phones
  /\ MaxErasures \in Nat /\ MaxFaults \in Nat

VARIABLES checked,     \* does users_phone_e164_check hold of the table?
          users,       \* the phones in users
          signedUp,    \* phones that have been: their sessions outlive the account
          invitation,  \* gift_invitations.status, "none" without a row
          sent,        \* gifts whose invitation has been created
          lapsed,      \* gifts whose invitation is out of time
          unlocked,    \* gifts that can be claimed
          paidTo,      \* the phone of whose claim went through first, or nobody's
          request, claim,
          used,        \* accounts made with a gift's token
          erased, erasures, faults

NoToken == "no token"
Nobody == "nobody"

\* A request that is not under way.
Free == [pc |-> "idle"]

AccountsTypeOK ==
  /\ checked \in BOOLEAN /\ users \subseteq signedUp /\ signedUp \subseteq Phones
  /\ invitation \in [Gifts -> {"none", "pending", "accepted", "claimed"}]
  /\ sent \subseteq Gifts /\ lapsed \subseteq sent /\ unlocked \subseteq sent
  /\ paidTo \in [Gifts -> Phones \cup {Nobody}]
  /\ request \in [Requests -> {Free} \cup [pc : {"validate", "accept"}, phone : Phones, token : Gifts]
                    \cup [pc : {"insert"}, phone : Phones, token : Gifts \cup {NoToken}]]
  /\ claim \in [Claimers -> {Free} \cup [pc : {"mark", "claim"}, gift : Gifts, phone : Phones]]
  /\ used \in [Gifts -> Nat] /\ erased \subseteq Phones
  /\ erasures \in 0..MaxErasures /\ faults \in 0..MaxFaults

-----------------------------------------------------------------------------
\* A token makes one account, however many requests carry it at once: only the
\* deletion of the account lets it make another.
TokenUsedOnce == \A g \in Gifts : used[g] > 1 => Recipient[g] \in erased

\* A recipient who got their gift while its invitation counted got it with the
\* invitation, also when a request of theirs overlapped with a registration or
\* another claim.  The invitation binds nobody else: a claim of a session with
\* another phone finds no invitation and needs none.
PaidThroughInvitation ==
  \A g \in Gifts : paidTo[g] = Recipient[g] =>
    invitation[g] \in {"none", "claimed"} \/ g \in lapsed \/ Recipient[g] \in erased

\* pending -> accepted -> claimed, though neither UPDATE looks at what was there.
Order == [none |-> 0, pending |-> 1, accepted |-> 2, claimed |-> 3]
NeverBack ==
  [][\A g \in Gifts : \/ Order[invitation'[g]] >= Order[invitation[g]]
                      \/ invitation'[g] = "none" \/ Recipient[g] \in erased]_invitation

\* An invitation never keeps a recipient who has an account from an unlocked
\* gift for good: accepted, or once it has lapsed where it never was or was used
\* up by a claim that failed, it lets a claim of theirs through, unless somebody
\* else's went through before.
GiftGetsClaimed ==
  \A g \in Gifts : (g \in unlocked /\ Recipient[g] \in signedUp) ~> (paidTo[g] # Nobody)
=============================================================================
