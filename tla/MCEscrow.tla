------------------------------ MODULE MCEscrow ------------------------------
(* Two accounts, either of which may be the sender, the recipient or both, *)
(* with amounts on both ends of the accepted range and a clock that reaches *)
(* the saturation of u64.                                                  *)
EXTENDS Escrow

CONSTANTS alice, bob

MCAccounts == {alice, bob}
MCMint == [a \in MCAccounts |-> IF a = alice THEN 3 ELSE 1]
=============================================================================
