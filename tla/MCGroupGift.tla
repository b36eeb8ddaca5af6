---------------------------- MODULE MCGroupGift -----------------------------
(* Three contributions, of which the large one or the two small ones reach  *)
(* the target, and three visits: one page visited again while another is.   *)
EXTENDS GroupGift, TLC

CONSTANTS c1, c2, c3
Amounts == c1 :> 1 @@ c2 :> 1 @@ c3 :> 2
=============================================================================
