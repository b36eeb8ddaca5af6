----------------------------- MODULE MCPayments -----------------------------
(* One gift: payments of different gifts share no state.  Two webhook       *)
(* requests can be in flight, so a delivery and its retry overlap.          *)
EXTENDS Payments

OneEvent == {"charge.success"}
TwoEvents == {"charge.success", "other"}
=============================================================================
