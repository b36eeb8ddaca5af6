---------------------------- MODULE MCScheduler -----------------------------
(* Two gifts, so that one can stand in the way of the other, and two passes. *)
EXTENDS Scheduler
=============================================================================
