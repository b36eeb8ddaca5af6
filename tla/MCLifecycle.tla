---------------------------- MODULE MCLifecycle -----------------------------
(* One gift, one webhook request, one claim request: the interleavings of   *)
(* several of a kind are the business of MCPayments and MCClaims.           *)
EXTENDS Lifecycle

OneEvent == {"charge.success"}
=============================================================================
