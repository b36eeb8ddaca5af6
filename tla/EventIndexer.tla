---------------------------- MODULE EventIndexer ----------------------------
(***************************************************************************)
(* The escrow event indexer: passes of indexEscrowEvents                   *)
(* (event-indexer.service.ts) read the contract's events page by page from *)
(* a cursor kept in Redis, with the parser of escrow-events.ts, and change *)
(* the gifts in the store.  Nothing keeps the cron from starting a pass    *)
(* while another runs.                                                     *)
(*                                                                         *)
(* The environment: a gift's contract runs through the phases of GiftVault *)
(* and publishes an event with each step, and the handlers of Payments and *)
(* Claims change the gift meanwhile (Elsewhere).                           *)
(***************************************************************************)
EXTENDS GiftStore, Integers, Sequences

CONSTANTS Indexers,   \* overlapping passes
          Legacy,     \* gifts of the contract version whose events carry no id
          PageSize,   \* limit of a fetch, 200 in the code
          RpcCursor,  \* does the RPC node return a cursor with its events?
          MaxLog,     \* bound on the events published
          MaxFaults   \* bound on failed passes and restarts of the server

ASSUME EventIndexerAssumption ==
  /\ Legacy \subseteq Gifts /\ RpcCursor \in BOOLEAN
  /\ PageSize \in Nat \ {0} /\ MaxLog \in Nat /\ MaxFaults \in Nat

VARIABLES phase,   \* of a gift's contract, as in GiftVault
          log,     \* events the contracts have published, in ledger order
          cursor,  \* escrow:event:cursor in Redis: 0 is CURSOR_GENESIS
          pass,    \* the passes
          seen,    \* events handed to applyEvent
          acts,    \* how often an event has changed its gift
          faults

chainVars == <<phase, log>>
vars == <<storeVars, chainVars, cursor, pass, seen, acts, faults>>

-----------------------------------------------------------------------------
\* What the parser knows of an event: the type it stands for, by name, and the
\* number of items its data must have.  Names of both contract versions.
Decoders ==
  [gift_created   |-> [type |-> "gift_created",   items |-> 5],
   gift_claimed   |-> [type |-> "gift_claimed",   items |-> 3],
   gift_cancelled |-> [type |-> "gift_cancelled", items |-> 3],
   gift_expired   |-> [type |-> "gift_expired",   items |-> 3],
   initialized    |-> [type |-> "gift_created",   items |-> 4],
   claimed        |-> [type |-> "gift_claimed",   items |-> 2],
   cancelled      |-> [type |-> "gift_cancelled", items |-> 2]]

\* parseEventResponse: null for a name it does not know and for data it cannot
\* decode.
Parsed(raw) == raw.name \in DOMAIN Decoders /\ raw.items = Decoders[raw.name].items

\* The status an event stands for.
TargetStatus ==
  [gift_created |-> "locked", gift_claimed |-> "claimed",
   gift_cancelled |-> "cancelled", gift_expired |-> "expired"]
Target(raw) == TargetStatus[Decoders[raw.name].type]

\* What the contract publishes: the events of this version for a gift, or of
\* the version before it, and others (unlock_extended) the parser does not know.
Raw(g, name, items) == [name |-> name, items |-> items, gift |-> g]
CreatedEvent ==
  [g \in Gifts |-> IF g \in Legacy THEN Raw(g, "initialized", 4) ELSE Raw(g, "gift_created", 5)]
ClaimedEvent ==
  [g \in Gifts |-> IF g \in Legacy THEN Raw(g, "claimed", 2) ELSE Raw(g, "gift_claimed", 3)]
ReturnedEvents ==
  [g \in Gifts |-> IF g \in Legacy THEN {Raw(g, "cancelled", 2)}
                   ELSE {Raw(g, "gift_cancelled", 3), Raw(g, "gift_expired", 3)}]
OtherEvents == [g \in Gifts |-> {Raw(g, "unlock_extended", 3)}]

Positions == 1..MaxLog
Idle == [pc |-> "idle"]

TypeOK ==
  /\ StoreTypeOK
  /\ phase \in [Gifts -> {"empty", "locked", "released", "returned"}]
  /\ Len(log) <= MaxLog /\ \A i \in DOMAIN log : log[i].gift \in Gifts /\ log[i].items \in 2..5
  /\ cursor \in 0..Len(log)
  /\ pass \in [Indexers -> {Idle} \cup [pc : {"read"}, start : 0..MaxLog]
                 \cup [pc : {"apply"}, start : 0..MaxLog, next : 1..MaxLog + 1,
                       last : 0..MaxLog, latest : 0..MaxLog]]
  /\ seen \subseteq Positions /\ acts \in [Positions -> Nat]
  /\ faults \in 0..MaxFaults

Init ==
  /\ status \in [Gifts -> {"pending_payment", "funded", "locked"}]
  /\ deleted = [g \in Gifts |-> FALSE] /\ due = [g \in Gifts |-> FALSE]
  /\ phase = [g \in Gifts |-> "empty"] /\ log = <<>>
  /\ cursor = 0 /\ pass = [p \in Indexers |-> Idle]
  /\ seen = {} /\ acts = [i \in Positions |-> 0] /\ faults = 0

-----------------------------------------------------------------------------
\* The contracts: one lock, one way out, and an event with each step.
Publish(g, from, to, event) ==
  /\ Len(log) < MaxLog /\ log' = Append(log, event)
  /\ phase[g] = from /\ phase' = [phase EXCEPT ![g] = to]
  /\ UNCHANGED <<storeVars, cursor, pass, seen, acts, faults>>

ContractStep(g) ==
  \/ Publish(g, "empty", "locked", CreatedEvent[g])
  \/ due[g] /\ Publish(g, "locked", "released", ClaimedEvent[g])
  \/ \E e \in ReturnedEvents[g] : Publish(g, "locked", "returned", e)
  \/ \E e \in OtherEvents[g] : Publish(g, "locked", "locked", e)

\* Whatever the handlers, the workers and the scheduler do to a gift.
Elsewhere(g) ==
  /\ \/ UNCHANGED <<deleted, due>> /\ \E s \in Status : Changes(g, s) /\ updateGiftStatus(g, s)
     \/ Found(g) /\ cancelGift(g) /\ softDeleteGift(g) /\ UNCHANGED due
     \/ UnlockTimePasses(g)
  /\ UNCHANGED <<chainVars, cursor, pass, seen, acts, faults>>

-----------------------------------------------------------------------------
\* indexEscrowEvents reads the cursor ...
IndexerRead(p) ==
  /\ pass[p] = Idle
  /\ pass' = [pass EXCEPT ![p] = [pc |-> "read", start |-> cursor]]
  /\ UNCHANGED <<storeVars, chainVars, cursor, seen, acts, faults>>

\* c is the last event of a page that parses, or where the page starts.
LastParsed(start, last, c) ==
  /\ c <= last /\ (c # start => Parsed(log[c]))
  /\ \A i \in (c + 1)..last : ~Parsed(log[i])

\* Mutant: the cursor is that of the last event which parses, whatever the node
\* sends.
LatestCursor_Parsed(start, last, c) == LastParsed(start, last, c)

\* The cursor a page leads to: the RPC node's, where it sends one.
LatestCursor(start, last, c) == IF RpcCursor THEN c = last ELSE LastParsed(start, last, c)

\* ... fetches the page after it ...
IndexerFetch(p) ==
  LET start == pass[p].start
      last  == IF start + PageSize < Len(log) THEN start + PageSize ELSE Len(log)
  IN  /\ pass[p].pc = "read"
      /\ \E c \in start..last :
           /\ LatestCursor(start, last, c)
           /\ pass' = [pass EXCEPT ![p] = [pc |-> "apply", start |-> start, next |-> start + 1,
                                          last |-> last, latest |-> c]]
      /\ UNCHANGED <<storeVars, chainVars, cursor, seen, acts, faults>>

\* The gift of an event: by its id, or by its contract, which also finds a
\* deleted gift.
Lookup(raw) == IF raw.gift \in Legacy THEN status[raw.gift] # Absent ELSE Found(raw.gift)

\* updateGiftStatusIdempotent: a refused transition is logged and forgotten.
Acting(raw) == Parsed(raw) /\ Lookup(raw) /\ Changes(raw.gift, Target(raw))

\* ... applies the events of the page one after the other ...
IndexerApply(p) ==
  LET i == pass[p].next
      e == log[i]
  IN  /\ pass[p].pc = "apply" /\ i <= pass[p].last
      /\ pass' = [pass EXCEPT ![p].next = i + 1]
      /\ seen' = seen \cup {i}
      /\ IF Acting(e)
         THEN updateGiftStatus(e.gift, Target(e)) /\ acts' = [acts EXCEPT ![i] = @ + 1]
         ELSE UNCHANGED <<status, acts>>
      /\ UNCHANGED <<deleted, due, chainVars, cursor, faults>>

\* Mutant: the cursor is written while events of the page are still to apply.
IndexerFinish_Early(p) ==
  /\ pass[p].pc = "apply" /\ pass[p].next >= pass[p].last
  /\ cursor' = IF pass[p].latest # pass[p].start THEN pass[p].latest ELSE cursor
  /\ pass' = [pass EXCEPT ![p] = Idle]
  /\ UNCHANGED <<storeVars, chainVars, seen, acts, faults>>

\* ... and writes the cursor, over what another pass may have written.
IndexerFinish(p) ==
  /\ pass[p].pc = "apply" /\ pass[p].next > pass[p].last
  /\ cursor' = IF pass[p].latest # pass[p].start THEN pass[p].latest ELSE cursor
  /\ pass' = [pass EXCEPT ![p] = Idle]
  /\ UNCHANGED <<storeVars, chainVars, seen, acts, faults>>

\* The RPC node or Redis fails, or the function is stopped: the pass ends.
IndexerFails(p) ==
  /\ pass[p] # Idle /\ faults < MaxFaults /\ faults' = faults + 1
  /\ pass' = [pass EXCEPT ![p] = Idle]
  /\ UNCHANGED <<storeVars, chainVars, cursor, seen, acts>>

\* The server restarts: the gifts and the passes are gone, the cursor is not.
Restart ==
  /\ faults < MaxFaults /\ faults' = faults + 1
  /\ status' = [g \in Gifts |-> Absent]
  /\ pass' = [p \in Indexers |-> Idle]
  /\ UNCHANGED <<deleted, due, chainVars, cursor, seen, acts>>

-----------------------------------------------------------------------------
Index(p) == IndexerRead(p) \/ IndexerFetch(p) \/ IndexerApply(p) \/ IndexerFinish(p)

Next ==
  \/ \E p \in Indexers : Index(p) \/ IndexerFails(p)
  \/ \E g \in Gifts : ContractStep(g) \/ Elsewhere(g)
  \/ Restart

\* The cron starts a pass again and again, and a pass that has begun goes on.
\* Contracts, clocks and handlers promise nothing.
Spec == Init /\ [][Next]_vars /\ \A p \in Indexers : WF_vars(Index(p))

-----------------------------------------------------------------------------
\* However passes overlap, fail and overwrite each other's cursor, it never
\* stands behind an event that no pass has handed to the store.
SeenBeforeCursor == \A i \in 1..cursor : Parsed(log[i]) => i \in seen

\* An event that is read again, after a failure, behind a cursor that moved back
\* or by two passes at once, does not change its gift again.
EventActsOnce == \A i \in Positions : acts[i] <= 1

\* Every event the parser knows is read in the end, though events it does not
\* know may fill a page and overlapping passes move the cursor back.
EventsReachStore ==
  \A i \in Positions :
    (i <= Len(log) /\ Parsed(log[i])) ~> (i \in seen)
=============================================================================
