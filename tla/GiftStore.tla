----------------------------- MODULE GiftStore ------------------------------
(***************************************************************************)
(* The gift store, src/server/services/gift.service.ts: a Map held in the  *)
(* memory of the server process, and the operations that change a gift in  *)
(* it.  The handlers, jobs and cron passes of the other modules share it;  *)
(* each of these operations runs without yielding, except that             *)
(* updateGiftStatus awaits the audit log after it has written the status.  *)
(***************************************************************************)
EXTENDS GiftStatus

CONSTANTS Gifts,   \* gift ids; the payment reference of a gift is lumigift_<id>
          Absent   \* the status of an id the Map does not hold

ASSUME AbsentAssumption == Absent \notin Status

VARIABLES status,  \* gift.status
          deleted, \* gift.deletedAt is set
          due      \* gift.unlockAt has passed

storeVars == <<status, deleted, due>>

StoreTypeOK ==
  /\ status \in [Gifts -> Status \cup {Absent}]
  /\ deleted \in [Gifts -> BOOLEAN]
  /\ due \in [Gifts -> BOOLEAN]

\* getGiftById: what is deleted is not found, though the Map still holds it.
Found(g) == status[g] # Absent /\ ~deleted[g]

\* The outcomes of updateGiftStatus(g, s): "null" when there is no such gift,
\* "throw" when the transition is refused.  An audited status is written
\* before its audit log row, whose insert may fail: the call then throws
\* although the status has changed.
Audited == {"funded", "claimed", "cancelled"}
Changes(g, s) == status[g] # Absent /\ isValidTransition(status[g], s)
Outcomes(g, s) ==
  IF status[g] = Absent THEN {"null"}
  ELSE IF ~isValidTransition(status[g], s) THEN {"throw"}
  ELSE IF s \in Audited THEN {"ok", "throw"}
  ELSE {"ok"}

\* The status part of updateGiftStatus(g, s).  A soft-deleted gift is updated too.
updateGiftStatus(g, s) ==
  status' = IF Changes(g, s) THEN [status EXCEPT ![g] = s] ELSE status

\* cancelGift: whatever the status is.
cancelGift(g) ==
  status' = IF status[g] = Absent THEN status ELSE [status EXCEPT ![g] = "cancelled"]

softDeleteGift(g) ==
  deleted' = IF status[g] = Absent THEN deleted ELSE [deleted EXCEPT ![g] = TRUE]

\* Administrators restore a deleted gift, or remove it from the Map for good.
restoreGift(g) ==
  /\ status[g] # Absent /\ deleted[g]
  /\ deleted' = [deleted EXCEPT ![g] = FALSE]
  /\ UNCHANGED <<status, due>>

hardDeleteGift(g) ==
  /\ status[g] # Absent /\ deleted[g]
  /\ status' = [status EXCEPT ![g] = Absent]
  /\ UNCHANGED <<deleted, due>>

\* The unlock time of a gift passes.
UnlockTimePasses(g) ==
  /\ ~due[g]
  /\ due' = [due EXCEPT ![g] = TRUE]
  /\ UNCHANGED <<status, deleted>>
=============================================================================
