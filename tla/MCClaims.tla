------------------------------ MODULE MCClaims ------------------------------
(* One gift: its claim shares nothing with the claims of other gifts but    *)
(* the queue's limit on finished jobs, which JobRemoved stands for.  Two    *)
(* requests may use the same challenge or one each.                         *)
EXTENDS Claims
=============================================================================
