--------------------------- MODULE MCRegistration ---------------------------
(***************************************************************************)
(* One gift, whose recipient registers and, like its sender, claims it in  *)
(* two requests at the same time and may delete the account in between.    *)
(* Registering without the token also stands for registering with that of  *)
(* another gift to the same recipient.                                     *)
(***************************************************************************)
EXTENDS Registration
CONSTANTS g1, ada, bola, r1, r2, c1, c2
MCGifts == {g1}
MCPhones == {ada, bola}
MCRequests == {r1, r2}
MCClaimers == {c1, c2}
MCSender == [g \in MCGifts |-> ada]
MCRecipient == [g \in MCGifts |-> bola]
=============================================================================
