------------------------------- MODULE MCOtp --------------------------------
(* Two requests of each kind for one phone; requests of a kind are alike.    *)
EXTENDS Otp, TLC

Alike == Permutations(Senders) \cup Permutations(Verifiers)
=============================================================================
