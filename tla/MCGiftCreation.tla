--------------------------- MODULE MCGiftCreation ---------------------------
(* Two senders, amounts up to half of the limit and up to three requests  *)
(* at a time: enough for the requests of one sender to add up.              *)
EXTENDS GiftCreation
=============================================================================
