--------------------------- MODULE SchedulerState ---------------------------
(***************************************************************************)
(* What the unlock and expiry passes of scheduler.service.ts work on, and  *)
(* what they must not get wrong. The passes themselves are in the module   *)
(* Scheduler; the state is apart so that it can stand beside that of       *)
(* another component.                                                      *)
(***************************************************************************)
EXTENDS GiftStore, Integers

CONSTANTS Passes,      \* overlapping passes
          MaxRestarts  \* bound on the restarts of the server

ASSUME SchedulerAssumption == MaxRestarts \in Nat

VARIABLES row,        \* status in the rows of the table gifts
          sweep,      \* the passes
          lapsed,     \* gifts whose unlock time passed thirty days ago
          refunded,   \* gifts of which the network executed a refund
          restarts

-----------------------------------------------------------------------------
\* A gift the unlock pass lists and can unlock, and one it lists and cannot: the
\* pass itself makes it so, for it unlocks the gift and leaves the row as it is.
Waiting(g) == status[g] = "locked" /\ due[g] /\ row[g] = "locked"
Stale(g) == status[g] \notin {"locked", Absent} /\ due[g] /\ row[g] = "locked"

\* A gift that is locked, due and listed as such waits for ever only behind a row
\* that stays out of step for ever.  While nothing writes rows, as nothing in the
\* repository does, the first gift a pass unlocks is such a row for all the others;
\* but nothing else keeps a gift waiting: neither other passes, handlers, restarts
\* nor rows of gifts the server has lost.
OnlyStaleRowsStarve ==
  \A g \in Gifts : <>[]Waiting(g) => <>[](\E h \in Gifts \ {g} : Stale(h))

=============================================================================
