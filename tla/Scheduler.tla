----------------------------- MODULE Scheduler ------------------------------
(***************************************************************************)
(* processUnlocks and processExpiries of scheduler.service.ts, started by  *)
(* two cron routes and by the worker of scheduler.queue.ts, so that passes *)
(* overlap.  A pass lists its gifts first and then works them off, one at  *)
(* a time and in whatever order the database returned them, with the other *)
(* passes and the handlers of Payments and Claims (Elsewhere) in between.  *)
(*                                                                         *)
(* The lists are rows of the table gifts, the changes are made to gifts in *)
(* the server's memory.  No code of the repository writes the status of a  *)
(* row, the passes least of all; WriteRow stands for whatever a deployment *)
(* brings a row in step by, and promises nothing.                          *)
(***************************************************************************)
EXTENDS SchedulerState

vars == <<storeVars, row, sweep, lapsed, refunded, restarts>>

Idle == [pc |-> "idle"]

TypeOK ==
  /\ StoreTypeOK
  /\ row \in [Gifts -> Status]
  /\ sweep \in [Passes -> {Idle} \cup [pc : {"unlock", "expire"}, todo : SUBSET Gifts]
                         \cup [pc : {"refund"}, todo : SUBSET Gifts, gift : Gifts]]
  /\ lapsed \subseteq Gifts /\ refunded \subseteq Gifts
  /\ restarts \in 0..MaxRestarts

\* The gifts the server holds are locked; of those it held before it was started
\* the rows are left.
Init ==
  /\ status \in [Gifts -> {"locked", Absent}] /\ row \in [Gifts -> {"locked", "unlocked"}]
  /\ \A g \in Gifts : status[g] # Absent => row[g] = status[g]
  /\ deleted = [g \in Gifts |-> FALSE] /\ due = [g \in Gifts |-> FALSE]
  /\ sweep = [s \in Passes |-> Idle] /\ lapsed = {} /\ refunded = {} /\ restarts = 0

-----------------------------------------------------------------------------
\* Whatever the handlers and the workers do to a gift.
Elsewhere(g) ==
  /\ \/ UNCHANGED deleted /\ \E s \in Status \ {"unlocked"} : Changes(g, s) /\ updateGiftStatus(g, s)
     \/ Found(g) /\ cancelGift(g) /\ softDeleteGift(g)
     \/ hardDeleteGift(g)
  /\ UNCHANGED <<due, row, sweep, lapsed, refunded, restarts>>

WriteRow(g) ==
  /\ status[g] \notin {Absent, row[g]} /\ row' = [row EXCEPT ![g] = status[g]]
  /\ UNCHANGED <<storeVars, sweep, lapsed, refunded, restarts>>

TimePasses(g) ==
  /\ \/ UnlockTimePasses(g) /\ UNCHANGED lapsed
     \/ due[g] /\ g \notin lapsed /\ lapsed' = lapsed \cup {g} /\ UNCHANGED storeVars
  /\ UNCHANGED <<row, sweep, refunded, restarts>>

-----------------------------------------------------------------------------
\* Mutant: the query forgets the status.
UnlockList_AnyStatus == {g \in Gifts : due[g]}

\* processUnlocks: locked rows whose unlock time has passed.
UnlockList == {g \in Gifts : due[g] /\ row[g] = "locked"}

\* processExpiries: unlocked rows thirty days after it.
ExpiryList == {g \in Gifts : g \in lapsed /\ row[g] = "unlocked"}

\* A pass is done with one gift, or with all.
Rest(s, g) == [sweep EXCEPT ![s].todo = @ \ {g}]
Over(s) == [sweep EXCEPT ![s] = Idle]

UnlockStart(s) ==
  /\ sweep[s] = Idle /\ UnlockList # {}
  /\ sweep' = [sweep EXCEPT ![s] = [pc |-> "unlock", todo |-> UnlockList]]
  /\ UNCHANGED <<storeVars, row, lapsed, refunded, restarts>>

\* One gift; a transition that is refused ends the pass.
UnlockNext(s, g) ==
  /\ sweep[s].pc = "unlock" /\ g \in sweep[s].todo
  /\ updateGiftStatus(g, "unlocked")
  /\ sweep' = IF Outcomes(g, "unlocked") = {"throw"} THEN Over(s) ELSE Rest(s, g)
  /\ UNCHANGED <<deleted, due, row, lapsed, refunded, restarts>>

ExpiryStart(s) ==
  /\ sweep[s] = Idle /\ ExpiryList # {}
  /\ sweep' = [sweep EXCEPT ![s] = [pc |-> "expire", todo |-> ExpiryList]]
  /\ UNCHANGED <<storeVars, row, lapsed, refunded, restarts>>


\* One gift is marked: a refused transition, which is every one the table lists,
\* skips the gift; of a gift it does not hold the store says nothing.
ExpiryMark(s, g) ==
  /\ sweep[s].pc = "expire" /\ g \in sweep[s].todo
  /\ updateGiftStatus(g, "expired")
  /\ sweep' = IF Outcomes(g, "expired") = {"throw"} THEN Rest(s, g)
              ELSE [sweep EXCEPT ![s] = [pc |-> "refund", todo |-> @.todo \ {g}, gift |-> g]]
  /\ UNCHANGED <<deleted, due, row, lapsed, refunded, restarts>>

\* ... and its amount sent to the sender, which may fail.  Neither the gift nor the
\* row says afterwards that it was.
ExpiryRefund(s) ==
  /\ sweep[s].pc = "refund"
  /\ refunded' \in {refunded, refunded \cup {sweep[s].gift}}
  /\ sweep' = [sweep EXCEPT ![s] = [pc |-> "expire", todo |-> @.todo]]
  /\ UNCHANGED <<storeVars, row, lapsed, restarts>>

SweepEnd(s) ==
  /\ sweep[s].pc \in {"unlock", "expire"} /\ sweep[s].todo = {}
  /\ sweep' = Over(s)
  /\ UNCHANGED <<storeVars, row, lapsed, refunded, restarts>>

\* The server restarts: the gifts and the passes are gone, the rows are not.
Restart ==
  /\ restarts < MaxRestarts /\ restarts' = restarts + 1
  /\ status' = [g \in Gifts |-> Absent]
  /\ sweep' = [s \in Passes |-> Idle]
  /\ UNCHANGED <<deleted, due, row, lapsed, refunded>>

-----------------------------------------------------------------------------
Proceed(s) ==
  \/ \E g \in Gifts : UnlockNext(s, g) \/ ExpiryMark(s, g)
  \/ ExpiryRefund(s) \/ SweepEnd(s)

Next ==
  \/ \E s \in Passes : UnlockStart(s) \/ ExpiryStart(s) \/ Proceed(s)
  \/ \E g \in Gifts : Elsewhere(g) \/ TimePasses(g) \/ WriteRow(g)
  \/ Restart

\* The cron starts each kind of pass again and again, a pass that has begun goes
\* on, and a refund sent often enough is executed.  Clocks, handlers and whoever
\* writes rows promise nothing.
Fairness ==
  /\ \A s \in Passes : WF_vars(Proceed(s))
  /\ SF_vars(\E s \in Passes : UnlockStart(s)) /\ SF_vars(\E s \in Passes : ExpiryStart(s))
  /\ \A g \in Gifts : SF_vars(\E s \in Passes : ExpiryRefund(s) /\ g \in refunded' \ refunded)

Spec == Init /\ [][Next]_vars /\ Fairness

=============================================================================
