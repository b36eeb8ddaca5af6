----------------------------- MODULE CronProofs -----------------------------
(***************************************************************************)
(* Theorems about the passes that cron routes and a worker start over one  *)
(* another: the event indexer (EventIndexer) and the unlock and expiry     *)
(* sweeps (Scheduler, here as Sweep).                                      *)
(*                                                                         *)
(* For any number of gifts, overlapping passes, failures and restarts, any *)
(* page size, and whether or not the RPC node sends a cursor, no event the *)
(* parser knows is left behind the cursor unread, and none changes its     *)
(* gift twice.  The argument: whatever position a pass starts from, works  *)
(* at or will write, every event up to it has been read (Covered); a       *)
(* cursor that moves back therefore only repeats work.  Repeating it is    *)
(* harmless because a gift only ever moves up in the order of the          *)
(* statuses, and an event that has acted has moved its gift to the status  *)
(* it stands for.                                                          *)
(*                                                                         *)
(* The unlock sweep unlocks only what is due, whatever became of the gifts *)
(* and their rows since it made its list.  The argument: the list names    *)
(* gifts whose time had come, time does not go back, and no gift that the  *)
(* list names leaves it but by being unlocked or refused.                  *)
(***************************************************************************)
EXTENDS EventIndexer, SchedulerState, TLAPS

Sweep == INSTANCE Scheduler

\* Every event up to n that the parser knows has been read.
Covered(n) == \A i \in 1..n : Parsed(log[i]) => i \in seen

PassCovered(p) ==
  /\ pass[p].pc = "read" => pass[p].start <= Len(log) /\ Covered(pass[p].start)
  /\ pass[p].pc = "apply" =>
       /\ pass[p].last <= Len(log) /\ pass[p].next <= pass[p].last + 1
       /\ pass[p].latest <= pass[p].last
       /\ Covered(pass[p].next - 1)

EventNames == {"gift_created", "gift_claimed", "gift_cancelled", "gift_expired",
               "initialized", "claimed", "cancelled", "unlock_extended"}
Events == [name : EventNames, items : 2..5, gift : Gifts]

CursorInv ==
  /\ TypeOK /\ log \in Seq(Events)
  /\ Covered(cursor) /\ \A p \in Indexers : PassCovered(p)

\* How far a gift has come; a gift the server has forgotten has come furthest.
Rank == [draft |-> 0, pending_payment |-> 1, funded |-> 2, locked |-> 3, unlocked |-> 4,
         expired |-> 5, claimed |-> 5, cancelled |-> 6]
Progress(g) == IF status[g] = Absent THEN 7 ELSE Rank[status[g]]

Acted ==
  /\ \A i \in 1..Len(log) :
       acts[i] = 0 \/ (acts[i] = 1 /\ Parsed(log[i]) /\ Progress(log[i].gift) >= Rank[Target(log[i])])
  /\ \A i \in Positions : i > Len(log) => acts[i] = 0

IInv == CursorInv /\ Acted

-----------------------------------------------------------------------------
\* A transition of the table, and a cancellation, moves a gift up.
LEMMA RankFacts ==
  /\ Rank \in [Status -> 0..6]
  /\ \A s \in Status : \A t \in TRANSITIONS[s] : t \in Status /\ Rank[s] < Rank[t]
  /\ \A s \in Status : Rank[s] <= Rank["cancelled"]
  BY DEF Rank, Status, TRANSITIONS

\* An event the parser knows stands for a status.
LEMMA TargetIsStatus ==
  ASSUME NEW raw, Parsed(raw)
  PROVE  Target(raw) \in Status
<1>1. raw.name \in {"gift_created", "gift_claimed", "gift_cancelled", "gift_expired",
                    "initialized", "claimed", "cancelled"}
  BY DEF Parsed, Decoders
<1>2. Decoders[raw.name].type \in {"gift_created", "gift_claimed", "gift_cancelled", "gift_expired"}
  BY <1>1 DEF Decoders
<1> QED
  BY <1>2 DEF Target, TargetStatus, Status

\* updateGiftStatus keeps the type of the statuses and never moves a gift back.
LEMMA UpdateMovesUp ==
  ASSUME StoreTypeOK, NEW g \in Gifts, NEW s \in Status, updateGiftStatus(g, s)
  PROVE  /\ status' \in [Gifts -> Status \cup {Absent}]
         /\ \A h \in Gifts : Progress(h)' >= Progress(h)
         /\ Changes(g, s) => Progress(g) < Rank[s] /\ Progress(g)' = Rank[s]
<1>1. status \in [Gifts -> Status \cup {Absent}]
  BY DEF StoreTypeOK
<1>2. CASE ~Changes(g, s)
  <2>1. status' = status
    BY <1>2 DEF updateGiftStatus
  <2>2. \A h \in Gifts : Progress(h)' = Progress(h) /\ Progress(h) \in 0..7
    BY <1>1, <2>1, RankFacts DEF Progress
  <2> QED
    BY <1>1, <1>2, <2>1, <2>2
<1>3. CASE Changes(g, s)
  <2>1. status' = [status EXCEPT ![g] = s]
    BY <1>3 DEF updateGiftStatus
  <2>2. status[g] \in Status /\ status[g] # Absent /\ Rank[status[g]] < Rank[s] /\ s # Absent
    BY <1>1, <1>3, RankFacts, AbsentAssumption DEF Changes, isValidTransition
  <2>3. Progress(g) < Rank[s] /\ Progress(g)' = Rank[s] /\ Rank[s] \in 0..6
        /\ Progress(g) = Rank[status[g]] /\ Rank[status[g]] \in 0..6
    BY <1>1, <2>1, <2>2, RankFacts DEF Progress
  <2>4. \A h \in Gifts : h # g => Progress(h)' = Progress(h) /\ Progress(h) \in 0..7
    BY <1>1, <2>1, RankFacts DEF Progress
  <2> QED
    BY <1>1, <2>1, <2>3, <2>4
<1> QED
  BY <1>2, <1>3

\* Acted survives a step in which no event acts and no gift moves back.
LEMMA ActedKept ==
  ASSUME CursorInv, Acted, UNCHANGED <<log, acts>>,
         \A g \in Gifts : Progress(g)' >= Progress(g) /\ Progress(g) \in 0..7 /\ Progress(g)' \in 0..7
  PROVE  Acted'
<1>1. \A i \in 1..Len(log) : log[i].gift \in Gifts
  BY DEF CursorInv, TypeOK
<1>2. ASSUME NEW i \in 1..Len(log), acts[i] # 0
      PROVE  Progress(log[i].gift)' >= Rank[Target(log[i])]
  <2>1. Parsed(log[i]) /\ Progress(log[i].gift) >= Rank[Target(log[i])]
    BY <1>2 DEF Acted
  <2>2. Rank[Target(log[i])] \in 0..6
    BY <2>1, TargetIsStatus, RankFacts
  <2> DEFINE h == log[i].gift
  <2>3. h \in Gifts
    BY <1>1
  <2>4. Progress(h)' >= Progress(h) /\ Progress(h) \in 0..7 /\ Progress(h)' \in 0..7
    BY <2>3
  <2>5. h' = h
    OBVIOUS
  <2> HIDE DEF h
  <2> QED
    BY <2>1, <2>2, <2>4 DEF h
<1> QED
  BY <1>2 DEF Acted, Positions, Parsed, Target

LEMMA ProgressType ==
  ASSUME StoreTypeOK
  PROVE  \A g \in Gifts : Progress(g) \in 0..7
  BY RankFacts DEF Progress, StoreTypeOK

-----------------------------------------------------------------------------
LEMMA InitIInv == Init => IInv
<1> SUFFICES ASSUME Init PROVE IInv
  OBVIOUS
<1>1. Len(log) = 0 /\ log \in Seq(Events)
  BY DEF Init
<1>2. TypeOK
  BY <1>1, EventIndexerAssumption DEF Init, TypeOK, StoreTypeOK, Status, Idle
<1>3. Covered(cursor) /\ \A p \in Indexers : PassCovered(p)
  BY <1>1 DEF Init, Covered, PassCovered, Idle
<1>4. Acted
  BY <1>1 DEF Init, Acted
<1> QED
  BY <1>1, <1>2, <1>3, <1>4 DEF IInv, CursorInv

\* The contracts publish at the end of the log: what was covered stays so.
LEMMA PublishIInv ==
  ASSUME IInv, NEW g \in Gifts, NEW from, NEW to \in {"empty", "locked", "released", "returned"},
         NEW e \in Events, Publish(g, from, to, e)
  PROVE  IInv'
<1> USE DEF IInv, CursorInv
<1>1. /\ log' \in Seq(Events) /\ Len(log) \in Nat /\ Len(log') = Len(log) + 1
      /\ \A i \in 1..Len(log) : log'[i] = log[i]
      /\ log'[Len(log) + 1] = e
  BY DEF Publish
<1>2. TypeOK'
  <2>1. \A i \in DOMAIN log' : log'[i] \in Events
    BY <1>1
  <2>2. \A i \in DOMAIN log' : log'[i].gift \in Gifts /\ log'[i].items \in 2..5
    BY <2>1 DEF Events
  <2> QED
    BY <1>1, <2>2, EventIndexerAssumption DEF Publish, TypeOK, StoreTypeOK, storeVars
<1>3. \A n \in 0..Len(log) : Covered(n) => Covered(n)'
  BY <1>1 DEF Covered, Publish, Parsed
<1>4. Covered(cursor)'
  BY <1>3 DEF Publish, TypeOK, Covered
<1>5. ASSUME NEW p \in Indexers PROVE PassCovered(p)'
  <2>1. pass' = pass /\ PassCovered(p)
    BY DEF Publish
  <2>2. CASE pass[p].pc = "read"
    <3>1. pass[p].start \in 0..Len(log) /\ Covered(pass[p].start)
      BY <2>1, <2>2, <1>1 DEF PassCovered, TypeOK, Idle
    <3>2. \A n \in 0..Len(log) : Covered(n) => \A i \in 1..n : Parsed(log'[i]) => i \in seen'
      BY <1>3 DEF Covered, Parsed
    <3> QED
      BY <2>1, <2>2, <3>1, <3>2, <1>1 DEF PassCovered, Covered, Parsed
  <2>3. CASE pass[p].pc = "apply"
    <3>1. /\ pass[p].last \in 0..Len(log) /\ pass[p].next \in 1..(pass[p].last + 1)
          /\ pass[p].latest <= pass[p].last /\ Covered(pass[p].next - 1)
      BY <2>1, <2>3, <1>1, EventIndexerAssumption DEF PassCovered, TypeOK, Idle
    <3>2. pass[p].next - 1 \in 0..Len(log)
      BY <3>1, <1>1
    <3>3. \A n \in 0..Len(log) : Covered(n) => \A i \in 1..n : Parsed(log'[i]) => i \in seen'
      BY <1>3 DEF Covered, Parsed
    <3>4. \A i \in 1..(pass[p].next - 1) : Parsed(log'[i]) => i \in seen'
      BY <3>1, <3>2, <3>3
    <3>5. pass[p].last <= Len(log)' /\ pass[p].pc # "read"
      BY <2>3, <3>1, <1>1
    <3> QED
      BY <2>1, <3>1, <3>4, <3>5 DEF PassCovered, Covered, Parsed
  <2> QED
    BY <2>1, <2>2, <2>3 DEF PassCovered
<1>6. Acted'
  <2>1. \A i \in 1..Len(log) : log[i] = log'[i]
    BY <1>1
  <2>2. Len(log) + 1 <= MaxLog /\ Len(log) + 1 \in Positions /\ acts[Len(log) + 1] = 0
    BY <1>1, EventIndexerAssumption DEF Publish, Acted, Positions
  <2>3. UNCHANGED <<status, acts>>
    BY DEF Publish, storeVars
  <2> QED
    BY <1>1, <2>1, <2>2, <2>3 DEF Acted, Progress, Parsed, Target, Positions
<1> QED
  BY <1>1, <1>2, <1>4, <1>5, <1>6

LEMMA ContractIInv ==
  ASSUME IInv, NEW g \in Gifts, ContractStep(g)
  PROVE  IInv'
<1>1. /\ CreatedEvent[g] \in Events /\ ClaimedEvent[g] \in Events
      /\ ReturnedEvents[g] \subseteq Events /\ OtherEvents[g] \subseteq Events
  <2>1. /\ Raw(g, "initialized", 4) \in Events /\ Raw(g, "gift_created", 5) \in Events
        /\ Raw(g, "claimed", 2) \in Events /\ Raw(g, "gift_claimed", 3) \in Events
        /\ Raw(g, "cancelled", 2) \in Events /\ Raw(g, "gift_cancelled", 3) \in Events
        /\ Raw(g, "gift_expired", 3) \in Events /\ Raw(g, "unlock_extended", 3) \in Events
    BY DEF Raw, Events, EventNames
  <2> QED
    BY <2>1 DEF CreatedEvent, ClaimedEvent, ReturnedEvents, OtherEvents
<1>2. CASE Publish(g, "empty", "locked", CreatedEvent[g])
  BY <1>1, <1>2, PublishIInv
<1>3. CASE Publish(g, "locked", "released", ClaimedEvent[g])
  BY <1>1, <1>3, PublishIInv
<1>4. ASSUME NEW e \in ReturnedEvents[g], Publish(g, "locked", "returned", e) PROVE IInv'
  BY <1>1, <1>4, PublishIInv
<1>5. ASSUME NEW e \in OtherEvents[g], Publish(g, "locked", "locked", e) PROVE IInv'
  BY <1>1, <1>5, PublishIInv
<1> QED
  BY <1>2, <1>3, <1>4, <1>5 DEF ContractStep

\* The other parts of the program move gifts up and leave the rest alone.
LEMMA ElsewhereIInv ==
  ASSUME IInv, NEW g \in Gifts, Elsewhere(g)
  PROVE  IInv'
<1> USE DEF IInv, CursorInv
<1>1. StoreTypeOK /\ UNCHANGED <<phase, log, cursor, pass, seen, acts, faults>>
  BY DEF TypeOK, Elsewhere, chainVars
<1>2. StoreTypeOK' /\ \A h \in Gifts : Progress(h)' >= Progress(h)
  <2>1. ASSUME NEW s \in Status, updateGiftStatus(g, s), UNCHANGED <<deleted, due>>
        PROVE  StoreTypeOK' /\ \A h \in Gifts : Progress(h)' >= Progress(h)
    BY <1>1, <2>1, UpdateMovesUp DEF StoreTypeOK
  <2>2. CASE Found(g) /\ cancelGift(g) /\ softDeleteGift(g) /\ UNCHANGED due
    <3>1. status' = [status EXCEPT ![g] = "cancelled"] /\ status[g] \in Status /\ StoreTypeOK'
      BY <1>1, <2>2 DEF Found, cancelGift, softDeleteGift, StoreTypeOK, Status
    <3>2. "cancelled" # Absent /\ "cancelled" \in Status
      BY AbsentAssumption DEF Status
    <3>3. Progress(g)' = Rank["cancelled"] /\ Progress(g) = Rank[status[g]]
      BY <1>1, <3>1, <3>2, AbsentAssumption DEF Progress, StoreTypeOK
    <3>4. \A h \in Gifts : h # g => Progress(h)' = Progress(h)
      BY <1>1, <3>1 DEF Progress, StoreTypeOK
    <3>5. \A h \in Gifts : Progress(h) \in 0..7
      BY <1>1, ProgressType
    <3> QED
      BY <3>1, <3>3, <3>4, <3>5, RankFacts
  <2>3. CASE UnlockTimePasses(g)
    <3>1. UNCHANGED status /\ StoreTypeOK'
      BY <1>1, <2>3 DEF UnlockTimePasses, StoreTypeOK
    <3>2. \A h \in Gifts : Progress(h)' = Progress(h) /\ Progress(h) \in 0..7
      BY <1>1, <3>1, ProgressType DEF Progress
    <3> QED
      BY <3>1, <3>2
  <2> QED
    BY <2>1, <2>2, <2>3 DEF Elsewhere
<1>3. TypeOK'
  BY <1>1, <1>2 DEF TypeOK
<1>4. Covered(cursor)' /\ \A p \in Indexers : PassCovered(p)'
  BY <1>1 DEF Covered, PassCovered, Parsed
<1>5. \A h \in Gifts : Progress(h) \in 0..7
  BY <1>1, ProgressType
<1>6. \A h \in Gifts : Progress(h)' \in 0..7
  BY <1>2, RankFacts DEF Progress, StoreTypeOK
<1>7. Acted'
  BY <1>1, <1>2, <1>5, <1>6, ActedKept
<1> QED
  BY <1>1, <1>3, <1>4, <1>7

-----------------------------------------------------------------------------
\* A pass changes only itself and, in part, the cursor and what has been read.
LEMMA OtherPasses ==
  ASSUME IInv, NEW p \in Indexers, NEW r, pass' = [pass EXCEPT ![p] = r],
         UNCHANGED log, seen \subseteq seen'
  PROVE  /\ \A q \in Indexers : q # p => PassCovered(q)'
         /\ pass'[p] = r
         /\ \A n : Covered(n) => \A i \in 1..n : Parsed(log'[i]) => i \in seen'
<1> USE DEF IInv, CursorInv
<1>1. pass'[p] = r /\ \A q \in Indexers : q # p => pass'[q] = pass[q]
  BY DEF TypeOK
<1>2. \A n : Covered(n) => \A i \in 1..n : Parsed(log'[i]) => i \in seen'
  BY DEF Covered, Parsed
<1>3. ASSUME NEW q \in Indexers, q # p PROVE PassCovered(q)'
  BY <1>1, <1>2, <1>3 DEF PassCovered, Covered, Parsed
<1> QED
  BY <1>1, <1>2, <1>3

\* A step that leaves the store and the record of the acts alone keeps Acted.
LEMMA ActedUntouched ==
  ASSUME IInv, UNCHANGED <<status, log, acts>>
  PROVE  Acted'
<1>1. \A g \in Gifts : Progress(g)' = Progress(g) /\ Progress(g) \in 0..7
  BY ProgressType DEF IInv, CursorInv, TypeOK, Progress
<1> QED
  BY <1>1, ActedKept DEF IInv

LEMMA ReadIInv ==
  ASSUME IInv, NEW p \in Indexers, IndexerRead(p)
  PROVE  IInv'
<1> USE DEF IInv, CursorInv
<1> DEFINE r == [pc |-> "read", start |-> cursor]
<1>1. pass' = [pass EXCEPT ![p] = r] /\ UNCHANGED <<storeVars, phase, log, cursor, seen, acts, faults>>
  BY DEF IndexerRead, chainVars
<1>2. r \in [pc : {"read"}, start : 0..MaxLog]
  BY EventIndexerAssumption DEF TypeOK
<1>3. TypeOK'
  BY <1>1, <1>2 DEF TypeOK, StoreTypeOK, storeVars
<1>4. r.pc = "read" /\ r.start = cursor /\ cursor <= Len(log) /\ Covered(cursor)
  BY DEF TypeOK
<1> HIDE DEF r
<1>5. /\ \A q \in Indexers : q # p => PassCovered(q)'
      /\ pass'[p] = r
      /\ \A n : Covered(n) => \A i \in 1..n : Parsed(log'[i]) => i \in seen'
  BY <1>1, OtherPasses
<1>6. PassCovered(p)' /\ Covered(cursor)'
  BY <1>1, <1>4, <1>5 DEF PassCovered, Covered, Parsed
<1>7. Acted'
  BY <1>1, ActedUntouched DEF storeVars
<1> QED
  BY <1>1, <1>3, <1>5, <1>6, <1>7

LEMMA FetchIInv ==
  ASSUME IInv, NEW p \in Indexers, IndexerFetch(p)
  PROVE  IInv'
<1> USE DEF IInv, CursorInv
<1> DEFINE start == pass[p].start
           last  == IF start + PageSize < Len(log) THEN start + PageSize ELSE Len(log)
<1>1. PICK c \in start..last :
        /\ LatestCursor(start, last, c)
        /\ pass' = [pass EXCEPT ![p] = [pc |-> "apply", start |-> start, next |-> start + 1,
                                       last |-> last, latest |-> c]]
  BY DEF IndexerFetch
<1> DEFINE r == [pc |-> "apply", start |-> start, next |-> start + 1, last |-> last, latest |-> c]
<1>2. pass[p].pc = "read" /\ UNCHANGED <<storeVars, phase, log, cursor, seen, acts, faults>>
  BY DEF IndexerFetch, chainVars
<1>3. start \in 0..MaxLog /\ start <= Len(log) /\ Len(log) \in 0..MaxLog /\ Covered(start)
  BY <1>2, EventIndexerAssumption DEF TypeOK, PassCovered, Idle
<1>4. last \in 0..Len(log) /\ start <= last /\ c <= last /\ c \in 0..MaxLog
  BY <1>1, <1>3, EventIndexerAssumption DEF LatestCursor, LastParsed
<1>5. r \in [pc : {"apply"}, start : 0..MaxLog, next : 1..MaxLog + 1, last : 0..MaxLog,
             latest : 0..MaxLog]
  <2>1. start + 1 \in 1..MaxLog + 1 /\ last \in 0..MaxLog
    BY <1>3, <1>4, EventIndexerAssumption
  <2>2. \A a, l, k \in 0..MaxLog, n \in 1..MaxLog + 1 :
          [pc |-> "apply", start |-> a, next |-> n, last |-> l, latest |-> k]
            \in [pc : {"apply"}, start : 0..MaxLog, next : 1..MaxLog + 1, last : 0..MaxLog,
                latest : 0..MaxLog]
    OBVIOUS
  <2> HIDE DEF start, last
  <2> QED
    BY <1>3, <1>4, <2>1, <2>2
<1>6. r.pc = "apply" /\ r.next - 1 = start /\ r.next <= r.last + 1 /\ r.last <= Len(log)
      /\ r.latest <= r.last
  BY <1>3, <1>4
<1>7. pass' = [pass EXCEPT ![p] = r]
  BY <1>1
<1> HIDE DEF r, start, last
<1>8. TypeOK'
  BY <1>2, <1>5, <1>7 DEF TypeOK, StoreTypeOK, storeVars
<1>9. /\ \A q \in Indexers : q # p => PassCovered(q)'
      /\ pass'[p] = r
      /\ \A n : Covered(n) => \A i \in 1..n : Parsed(log'[i]) => i \in seen'
  BY <1>2, <1>7, OtherPasses
<1>10. PassCovered(p)' /\ Covered(cursor)'
  BY <1>2, <1>3, <1>6, <1>9 DEF PassCovered, Covered, Parsed
<1>11. Acted'
  BY <1>2, ActedUntouched DEF storeVars
<1> QED
  BY <1>2, <1>8, <1>9, <1>10, <1>11

\* An event that is applied: if it acts, its gift stood below the status the
\* event stands for, so it has not acted before.
LEMMA ActKeepsActed ==
  ASSUME IInv, NEW i \in 1..Len(log), NEW e \in Events, e = log[i], i \in Positions,
         UNCHANGED <<deleted, due, log>>,
         IF Acting(e)
         THEN updateGiftStatus(e.gift, Target(e)) /\ acts' = [acts EXCEPT ![i] = @ + 1]
         ELSE UNCHANGED <<status, acts>>
  PROVE  StoreTypeOK' /\ acts' \in [Positions -> Nat] /\ Acted'
<1> USE DEF IInv, CursorInv
<1>1. StoreTypeOK /\ acts \in [Positions -> Nat] /\ Len(log) \in 0..MaxLog /\ e.gift \in Gifts
  BY EventIndexerAssumption DEF TypeOK, Events
<1>2. CASE Acting(e)
  <2>1. updateGiftStatus(e.gift, Target(e)) /\ acts' = [acts EXCEPT ![i] = @ + 1]
    BY <1>2
  <2>2. Parsed(e) /\ Changes(e.gift, Target(e)) /\ Target(e) \in Status
    BY <1>2, TargetIsStatus DEF Acting
  <2>3. /\ status' \in [Gifts -> Status \cup {Absent}]
        /\ \A h \in Gifts : Progress(h)' >= Progress(h)
        /\ Progress(e.gift) < Rank[Target(e)] /\ Progress(e.gift)' = Rank[Target(e)]
    BY <1>1, <2>1, <2>2, UpdateMovesUp
  <2>4. StoreTypeOK'
    BY <1>1, <2>3 DEF StoreTypeOK
  <2>5. \A h \in Gifts : Progress(h) \in 0..7
    BY <1>1, ProgressType
  <2>6. \A h \in Gifts : Progress(h)' \in 0..7
    BY <2>4, RankFacts DEF Progress, StoreTypeOK
  <2>7. Rank[Target(e)] \in 0..6 /\ Progress(e.gift) \in 0..7
    BY <1>1, <2>2, <2>5, RankFacts
  <2>8. acts[i] = 0
    BY <2>3, <2>7 DEF Acted
  <2>9. acts' \in [Positions -> Nat] /\ acts'[i] = 1 /\ \A j \in Positions : j # i => acts'[j] = acts[j]
    BY <1>1, <2>1, <2>8
  <2>10. ASSUME NEW j \in 1..Len(log), acts'[j] # 0
         PROVE  acts'[j] = 1 /\ Parsed(log[j]) /\ Progress(log[j].gift)' >= Rank[Target(log[j])]
    <3>1. CASE j = i
      BY <2>2, <2>3, <2>7, <2>9, <3>1
    <3>2. CASE j # i
      <4>1. j \in Positions /\ acts'[j] = acts[j]
        BY <1>1, <2>9, <3>2, EventIndexerAssumption DEF Positions
      <4>2. PICK h \in Gifts : h = log[j].gift
        BY DEF TypeOK
      <4>3. acts[j] = 1 /\ Parsed(log[j]) /\ Progress(h) >= Rank[Target(log[j])]
        BY <2>10, <4>1, <4>2 DEF Acted
      <4>4. Rank[Target(log[j])] \in 0..6
        BY <4>3, TargetIsStatus, RankFacts
      <4>5. Progress(h)' >= Rank[Target(log[j])]
        BY <2>3, <2>5, <2>6, <4>3, <4>4
      <4> QED
        BY <4>1, <4>2, <4>3, <4>5
    <3> QED
      BY <3>1, <3>2
  <2>11. \A j \in Positions : j > Len(log) => acts'[j] = 0
    BY <1>1, <2>9 DEF Acted
  <2>12. Acted'
    BY <2>10, <2>11 DEF Acted, Parsed, Target, Positions
  <2> QED
    BY <2>4, <2>9, <2>12
<1>3. CASE ~Acting(e)
  <2>1. UNCHANGED <<status, log, acts>>
    BY <1>3
  <2>2. Acted'
    BY <2>1, ActedUntouched
  <2> QED
    BY <1>1, <2>1, <2>2 DEF StoreTypeOK
<1> QED
  BY <1>2, <1>3

LEMMA ApplyIInv ==
  ASSUME IInv, NEW p \in Indexers, IndexerApply(p)
  PROVE  IInv'
<1> USE DEF IInv, CursorInv
<1>1. PICK i \in 1..Len(log) : i = pass[p].next /\ pass[p].pc = "apply" /\ i <= pass[p].last
  BY EventIndexerAssumption DEF IndexerApply, TypeOK, PassCovered, Idle
<1>2. PICK e \in Events : e = log[i]
  BY <1>1
<1>3. PICK r : r = [pass[p] EXCEPT !.next = i + 1]
  OBVIOUS
<1>4. /\ pass[p] \in [pc : {"apply"}, start : 0..MaxLog, next : 1..MaxLog + 1, last : 0..MaxLog,
                      latest : 0..MaxLog]
      /\ pass[p].last <= Len(log) /\ pass[p].latest <= pass[p].last /\ Covered(i - 1)
      /\ i \in Positions /\ Len(log) \in 0..MaxLog /\ i + 1 \in 1..MaxLog + 1
  BY <1>1, EventIndexerAssumption DEF TypeOK, PassCovered, Idle, Positions
<1>5. /\ r \in [pc : {"apply"}, start : 0..MaxLog, next : 1..MaxLog + 1, last : 0..MaxLog,
                latest : 0..MaxLog]
      /\ r.pc = "apply" /\ r.next = i + 1 /\ r.last = pass[p].last /\ r.latest = pass[p].latest
  BY <1>3, <1>4
<1>6. /\ pass' = [pass EXCEPT ![p] = r] /\ seen' = seen \cup {i}
      /\ UNCHANGED <<deleted, due, phase, log, cursor, faults>>
      /\ IF Acting(e)
         THEN updateGiftStatus(e.gift, Target(e)) /\ acts' = [acts EXCEPT ![i] = @ + 1]
         ELSE UNCHANGED <<status, acts>>
  BY <1>1, <1>2, <1>3 DEF IndexerApply, chainVars
<1>7. StoreTypeOK' /\ acts' \in [Positions -> Nat] /\ Acted'
  BY <1>1, <1>2, <1>4, <1>6, ActKeepsActed
<1>8. TypeOK'
  BY <1>4, <1>5, <1>6, <1>7 DEF TypeOK
<1>9. /\ \A q \in Indexers : q # p => PassCovered(q)'
      /\ pass'[p] = r
      /\ \A n : Covered(n) => \A j \in 1..n : Parsed(log'[j]) => j \in seen'
  BY <1>6, OtherPasses
<1>10. \A j \in 1..i : Parsed(log'[j]) => j \in seen'
  BY <1>4, <1>6, <1>9
<1>11. PassCovered(p)' /\ Covered(cursor)'
  BY <1>1, <1>4, <1>5, <1>6, <1>9, <1>10 DEF PassCovered, Covered, Parsed
<1> QED
  BY <1>6, <1>7, <1>8, <1>9, <1>11

\* A pass that is through has read its whole page, and writes no more than that.
LEMMA FinishIInv ==
  ASSUME IInv, NEW p \in Indexers, IndexerFinish(p)
  PROVE  IInv'
<1> USE DEF IInv, CursorInv
<1>1. /\ pass[p].pc = "apply" /\ pass[p].next > pass[p].last
      /\ cursor' = IF pass[p].latest # pass[p].start THEN pass[p].latest ELSE cursor
      /\ pass' = [pass EXCEPT ![p] = Idle]
      /\ UNCHANGED <<storeVars, phase, log, seen, acts, faults>>
  BY DEF IndexerFinish, chainVars
<1>2. /\ pass[p].last \in 0..Len(log) /\ pass[p].latest \in 0..pass[p].last
      /\ pass[p].next = pass[p].last + 1 /\ Covered(pass[p].next - 1)
  <2>1. pass[p] \in [pc : {"apply"}, start : 0..MaxLog, next : 1..MaxLog + 1, last : 0..MaxLog,
                    latest : 0..MaxLog]
    BY <1>1 DEF TypeOK, Idle
  <2>2. /\ pass[p].last <= Len(log) /\ pass[p].next <= pass[p].last + 1
        /\ pass[p].latest <= pass[p].last /\ Covered(pass[p].next - 1)
    BY <1>1 DEF PassCovered
  <2> QED
    BY <1>1, <2>1, <2>2, EventIndexerAssumption
<1>3. cursor' \in 0..Len(log) /\ Covered(cursor')
  <2>1. \A n \in 0..pass[p].last : Covered(n)
    BY <1>2 DEF Covered
  <2>2. cursor \in 0..Len(log) /\ Len(log) \in Nat
    BY DEF TypeOK
  <2> QED
    BY <1>1, <1>2, <2>1, <2>2
<1>4. TypeOK'
  BY <1>1, <1>3 DEF TypeOK, StoreTypeOK, storeVars
<1>5. (\A q \in Indexers : q # p => PassCovered(q)') /\ pass'[p] = Idle
  BY <1>1, OtherPasses
<1>6. PassCovered(p)' /\ Covered(cursor)'
  BY <1>1, <1>3, <1>5 DEF PassCovered, Covered, Parsed, Idle
<1>7. Acted'
  BY <1>1, ActedUntouched DEF storeVars
<1> QED
  BY <1>1, <1>4, <1>5, <1>6, <1>7

LEMMA FaultIInv ==
  ASSUME IInv, Restart \/ \E p \in Indexers : IndexerFails(p)
  PROVE  IInv'
<1> USE DEF IInv, CursorInv
<1>1. ASSUME NEW p \in Indexers, IndexerFails(p) PROVE IInv'
  <2>1. /\ pass' = [pass EXCEPT ![p] = Idle] /\ faults' \in 0..MaxFaults
        /\ UNCHANGED <<storeVars, phase, log, cursor, seen, acts>>
    BY <1>1, EventIndexerAssumption DEF IndexerFails, chainVars, TypeOK
  <2>2. TypeOK'
    BY <2>1 DEF TypeOK, StoreTypeOK, storeVars
  <2>3. (\A q \in Indexers : q # p => PassCovered(q)') /\ pass'[p] = Idle
    BY <2>1, OtherPasses
  <2>4. PassCovered(p)' /\ Covered(cursor)'
    BY <2>1, <2>3 DEF PassCovered, Covered, Parsed, Idle
  <2>5. Acted'
    BY <2>1, ActedUntouched DEF storeVars
  <2> QED
    BY <2>1, <2>2, <2>3, <2>4, <2>5
<1>2. CASE Restart
  <2>1. /\ pass' = [p \in Indexers |-> Idle] /\ faults' \in 0..MaxFaults
        /\ status' = [g \in Gifts |-> Absent]
        /\ UNCHANGED <<deleted, due, phase, log, cursor, seen, acts>>
    BY <1>2, EventIndexerAssumption DEF Restart, chainVars, TypeOK
  <2>2. TypeOK'
    BY <2>1 DEF TypeOK, StoreTypeOK
  <2>3. Covered(cursor)' /\ \A p \in Indexers : PassCovered(p)'
    BY <2>1 DEF PassCovered, Covered, Parsed, Idle
  <2>4. \A g \in Gifts : Progress(g)' = 7 /\ Progress(g) \in 0..7
    BY <2>1, ProgressType DEF Progress, TypeOK
  <2>5. Acted'
    BY <2>1, <2>4, ActedKept
  <2> QED
    BY <2>1, <2>2, <2>3, <2>5
<1> QED
  BY <1>1, <1>2

LEMMA StutterIInv ==
  ASSUME IInv, UNCHANGED vars
  PROVE  IInv'
<1> USE DEF IInv, CursorInv
<1>1. UNCHANGED <<status, deleted, due, phase, log, cursor, pass, seen, acts, faults>>
  BY DEF vars, storeVars, chainVars
<1>2. TypeOK'
  BY <1>1 DEF TypeOK, StoreTypeOK
<1>3. Covered(cursor)' /\ \A p \in Indexers : PassCovered(p)'
  BY <1>1 DEF Covered, PassCovered, Parsed
<1>4. Acted'
  BY <1>1, ActedUntouched
<1> QED
  BY <1>1, <1>2, <1>3, <1>4

-----------------------------------------------------------------------------
\* What a pass starts from, works at or will write never lies beyond what has
\* been read, and what has acted has moved its gift: indexEscrowEvents.
THEOREM Inductive == Spec => []IInv
<1>1. IInv /\ [Next]_vars => IInv'
  <2> SUFFICES ASSUME IInv, [Next]_vars PROVE IInv'
    OBVIOUS
  <2>1. ASSUME NEW p \in Indexers, Index(p) PROVE IInv'
    BY <2>1, ReadIInv, FetchIInv, ApplyIInv, FinishIInv DEF Index
  <2>2. ASSUME NEW g \in Gifts, ContractStep(g) \/ Elsewhere(g) PROVE IInv'
    BY <2>2, ContractIInv, ElsewhereIInv
  <2>3. CASE Restart \/ \E p \in Indexers : IndexerFails(p)
    BY <2>3, FaultIInv
  <2>4. CASE UNCHANGED vars
    BY <2>4, StutterIInv
  <2> QED
    BY <2>1, <2>2, <2>3, <2>4 DEF Next
<1> QED
  BY InitIInv, <1>1, PTL DEF Spec

\* Every variable of the indexer keeps its type: the cursor in Redis never runs
\* ahead of the chain's events.
THEOREM TypeCorrect == Spec => []TypeOK
<1>1. IInv => TypeOK
  BY DEF IInv, CursorInv
<1> QED
  BY Inductive, <1>1, PTL

\* No event the parser knows is left behind the cursor, though indexEscrowEvents
\* writes it last-writer-wins.
THEOREM NothingLeftBehind == Spec => []SeenBeforeCursor
<1>1. IInv => SeenBeforeCursor
  BY DEF IInv, CursorInv, Covered, SeenBeforeCursor
<1> QED
  BY Inductive, <1>1, PTL

\* However often updateGiftStatusIdempotent is handed an event, it changes the
\* gift once.
THEOREM Idempotent == Spec => []EventActsOnce
<1>1. IInv => EventActsOnce
  <2> SUFFICES ASSUME IInv, NEW i \in Positions PROVE acts[i] <= 1
    BY DEF EventActsOnce
  <2>1. i \in 1..Len(log) \/ i > Len(log)
    BY EventIndexerAssumption DEF IInv, CursorInv, TypeOK, Positions
  <2> QED
    BY <2>1 DEF IInv, Acted
<1> QED
  BY Inductive, <1>1, PTL

-----------------------------------------------------------------------------
\* What a pass is about to unlock is due, however long ago it was listed.
UnlocksDue ==
  \A s \in Passes : sweep[s].pc = "unlock" => \A g \in sweep[s].todo : due[g]

SweepInv == Sweep!TypeOK /\ UnlocksDue

\* What a pass may be.
Listed == [pc : {"unlock", "expire"}, todo : SUBSET Gifts]
Sweeps == {Sweep!Idle} \cup Listed \cup [pc : {"refund"}, todo : SUBSET Gifts, gift : Gifts]

-----------------------------------------------------------------------------
\* An update gives a gift a status of the table.
LEMMA UpdateType ==
  ASSUME Sweep!StoreTypeOK, NEW g \in Gifts, NEW s \in Sweep!Status, Sweep!updateGiftStatus(g, s)
  PROVE  status' \in [Gifts -> Sweep!Status \cup {Absent}]
  BY DEF Sweep!StoreTypeOK, Sweep!updateGiftStatus

\* What a pass holds at each of its stages.
LEMMA SweepStages ==
  ASSUME Sweep!TypeOK, NEW s \in Passes
  PROVE  /\ sweep[s].pc \in {"unlock", "expire"} => sweep[s] \in Listed
         /\ sweep[s].pc = "refund" =>
              sweep[s] \in [pc : {"refund"}, todo : SUBSET Gifts, gift : Gifts]
  BY DEF Sweep!TypeOK, Sweep!Idle, Listed

\* A pass becomes q, which may unlock only what is due; nothing stops being due.
LEMMA SweepStep ==
  ASSUME SweepInv, NEW s \in Passes, NEW q \in Sweeps,
         sweep' = [sweep EXCEPT ![s] = q],
         q.pc = "unlock" => \A h \in q.todo : due'[h],
         \A h \in Gifts : due[h] => due'[h]
  PROVE  sweep' \in [Passes -> Sweeps] /\ UnlocksDue'
<1>1. sweep \in [Passes -> Sweeps]
  BY DEF SweepInv, Sweep!TypeOK, Sweeps, Listed
<1>2. ASSUME NEW r \in Passes, sweep'[r].pc = "unlock" PROVE \A h \in sweep'[r].todo : due'[h]
  <2>1. CASE r = s
    BY <1>1, <1>2, <2>1
  <2>2. CASE r # s
    <3>1. sweep'[r] = sweep[r]
      BY <1>1, <2>2
    <3>2. sweep[r] \in Listed /\ \A h \in sweep[r].todo : due[h]
      BY <1>2, <3>1, SweepStages DEF SweepInv, UnlocksDue
    <3> QED
      BY <3>1, <3>2 DEF Listed
  <2> QED
    BY <2>1, <2>2
<1> QED
  BY <1>1, <1>2 DEF UnlocksDue

\* Steps that leave the passes alone, and what is due due.
LEMMA SweepsUntouched ==
  ASSUME SweepInv, UNCHANGED sweep, \A h \in Gifts : due[h] => due'[h]
  PROVE  sweep' \in [Passes -> Sweeps] /\ UnlocksDue'
<1>1. sweep' \in [Passes -> Sweeps]
  BY DEF SweepInv, Sweep!TypeOK, Sweeps, Listed
<1>2. ASSUME NEW r \in Passes, sweep[r].pc = "unlock" PROVE \A h \in sweep[r].todo : due'[h]
  BY <1>2, SweepStages DEF SweepInv, UnlocksDue, Listed
<1> QED
  BY <1>1, <1>2 DEF UnlocksDue

\* A pass that has dealt with one of its gifts, or with all.
LEMMA SweepGoesOn ==
  ASSUME SweepInv, NEW s \in Passes, NEW g \in Gifts, sweep[s].pc \in {"unlock", "expire"},
         sweep' = Sweep!Rest(s, g) \/ sweep' = Sweep!Over(s), UNCHANGED due
  PROVE  sweep' \in [Passes -> Sweeps] /\ UnlocksDue'
<1>1. sweep \in [Passes -> Sweeps] /\ sweep[s] \in Listed
  BY SweepStages DEF SweepInv, Sweep!TypeOK, Sweeps, Listed
<1>2. CASE sweep' = Sweep!Rest(s, g)
  <2> DEFINE q == [sweep[s] EXCEPT !.todo = @ \ {g}]
  <2>1. q \in Listed /\ q.pc = sweep[s].pc /\ q.todo \subseteq sweep[s].todo
    BY <1>1 DEF Listed
  <2>2. sweep' = [sweep EXCEPT ![s] = q]
    BY <1>1, <1>2 DEF Sweep!Rest
  <2> HIDE DEF q
  <2>3. q \in Sweeps /\ (q.pc = "unlock" => \A h \in q.todo : due'[h])
    BY <2>1 DEF Sweeps, SweepInv, UnlocksDue
  <2> QED
    BY <2>2, <2>3, SweepStep
<1>3. CASE sweep' = Sweep!Over(s)
  <2>1. Sweep!Idle \in Sweeps /\ Sweep!Idle.pc # "unlock"
    BY DEF Sweeps, Sweep!Idle
  <2> QED
    BY <1>3, <2>1, SweepStep DEF Sweep!Over
<1> QED
  BY <1>2, <1>3

-----------------------------------------------------------------------------
LEMMA InitSweepInv == Sweep!Init => SweepInv
<1>1. Sweep!Init => Sweep!TypeOK
  BY SchedulerAssumption DEF Sweep!Init, Sweep!TypeOK, Sweep!StoreTypeOK, Sweep!Status
<1>2. Sweep!Init => UnlocksDue
  BY DEF Sweep!Init, UnlocksDue, Sweep!Idle
<1> QED
  BY <1>1, <1>2 DEF SweepInv

LEMMA UnlockSweepInv ==
  ASSUME SweepInv, NEW s \in Passes, Sweep!UnlockStart(s) \/ \E g \in Gifts : Sweep!UnlockNext(s, g)
  PROVE  SweepInv'
<1>1. Sweep!TypeOK /\ Sweep!StoreTypeOK
  BY DEF SweepInv, Sweep!TypeOK
<1>2. CASE Sweep!UnlockStart(s)
  <2> DEFINE q == [pc |-> "unlock", todo |-> Sweep!UnlockList]
  <2>1. q \in Sweeps /\ \A h \in q.todo : due[h]
    BY DEF Sweeps, Listed, Sweep!UnlockList
  <2>2. sweep' = [sweep EXCEPT ![s] = q]
        /\ UNCHANGED <<Sweep!storeVars, row, lapsed, refunded, restarts>>
    BY <1>2 DEF Sweep!UnlockStart
  <2> HIDE DEF q
  <2>3. sweep' \in [Passes -> Sweeps] /\ UnlocksDue'
    BY <2>1, <2>2, SweepStep DEF Sweep!storeVars
  <2> QED
    BY <1>1, <2>2, <2>3 DEF SweepInv, Sweep!TypeOK, Sweep!StoreTypeOK, Sweep!storeVars,
       Sweeps, Listed
<1>3. ASSUME NEW g \in Gifts, Sweep!UnlockNext(s, g) PROVE SweepInv'
  <2>1. status' \in [Gifts -> Sweep!Status \cup {Absent}]
    BY <1>1, <1>3, UpdateType DEF Sweep!UnlockNext, Sweep!Status
  <2>2. sweep' \in [Passes -> Sweeps] /\ UnlocksDue'
    BY <1>3, SweepGoesOn DEF Sweep!UnlockNext
  <2> QED
    BY <1>1, <1>3, <2>1, <2>2 DEF Sweep!UnlockNext, SweepInv, Sweep!TypeOK,
       Sweep!StoreTypeOK, Sweeps, Listed
<1> QED
  BY <1>2, <1>3

LEMMA ExpirySweepInv ==
  ASSUME SweepInv, NEW s \in Passes, Sweep!ExpiryStart(s) \/ \E g \in Gifts : Sweep!ExpiryMark(s, g)
  PROVE  SweepInv'
<1>1. Sweep!TypeOK /\ Sweep!StoreTypeOK
  BY DEF SweepInv, Sweep!TypeOK
<1>2. CASE Sweep!ExpiryStart(s)
  <2> DEFINE q == [pc |-> "expire", todo |-> Sweep!ExpiryList]
  <2>1. q \in Sweeps /\ q.pc # "unlock"
    BY DEF Sweeps, Listed, Sweep!ExpiryList
  <2>2. sweep' = [sweep EXCEPT ![s] = q]
        /\ UNCHANGED <<Sweep!storeVars, row, lapsed, refunded, restarts>>
    BY <1>2 DEF Sweep!ExpiryStart
  <2> HIDE DEF q
  <2>3. sweep' \in [Passes -> Sweeps] /\ UnlocksDue'
    BY <2>1, <2>2, SweepStep DEF Sweep!storeVars
  <2> QED
    BY <1>1, <2>2, <2>3 DEF SweepInv, Sweep!TypeOK, Sweep!StoreTypeOK, Sweep!storeVars,
       Sweeps, Listed
<1>3. ASSUME NEW g \in Gifts, Sweep!ExpiryMark(s, g) PROVE SweepInv'
  <2>1. status' \in [Gifts -> Sweep!Status \cup {Absent}]
    BY <1>1, <1>3, UpdateType DEF Sweep!ExpiryMark, Sweep!Status
  <2>2. sweep' \in [Passes -> Sweeps] /\ UnlocksDue'
    <3>1. CASE Sweep!Outcomes(g, "expired") = {"throw"}
      BY <1>3, <3>1, SweepGoesOn DEF Sweep!ExpiryMark
    <3>2. CASE Sweep!Outcomes(g, "expired") # {"throw"}
      <4> DEFINE q == [pc |-> "refund", todo |-> sweep[s].todo \ {g}, gift |-> g]
      <4>1. sweep' = [sweep EXCEPT ![s] = q]
        BY <1>1, <1>3, <3>2 DEF Sweep!ExpiryMark, Sweep!TypeOK
      <4>2. sweep[s] \in Listed
        BY <1>1, <1>3, SweepStages DEF Sweep!ExpiryMark
      <4>3. q \in Sweeps /\ q.pc # "unlock"
        BY <4>2 DEF Sweeps, Listed
      <4> HIDE DEF q
      <4> QED
        BY <1>3, <4>1, <4>3, SweepStep DEF Sweep!ExpiryMark
    <3> QED
      BY <3>1, <3>2
  <2> QED
    BY <1>1, <1>3, <2>1, <2>2 DEF Sweep!ExpiryMark, SweepInv, Sweep!TypeOK,
       Sweep!StoreTypeOK, Sweeps, Listed
<1> QED
  BY <1>2, <1>3

LEMMA FinishSweepInv ==
  ASSUME SweepInv, NEW s \in Passes, Sweep!ExpiryRefund(s) \/ Sweep!SweepEnd(s)
  PROVE  SweepInv'
<1>1. Sweep!TypeOK /\ Sweep!StoreTypeOK
  BY DEF SweepInv, Sweep!TypeOK
<1>2. CASE Sweep!ExpiryRefund(s)
  <2> DEFINE q == [pc |-> "expire", todo |-> sweep[s].todo]
  <2>1. sweep[s].gift \in Gifts /\ q \in Sweeps /\ q.pc # "unlock"
    BY <1>1, <1>2, SweepStages DEF Sweep!ExpiryRefund, Sweeps, Listed
  <2>2. sweep' = [sweep EXCEPT ![s] = q]
    BY <1>1, <1>2 DEF Sweep!ExpiryRefund, Sweep!TypeOK
  <2> HIDE DEF q
  <2>3. sweep' \in [Passes -> Sweeps] /\ UnlocksDue'
    BY <1>2, <2>1, <2>2, SweepStep DEF Sweep!ExpiryRefund, Sweep!storeVars
  <2>4. refunded' \subseteq Gifts
    BY <1>1, <1>2, <2>1 DEF Sweep!ExpiryRefund, Sweep!TypeOK
  <2> QED
    BY <1>1, <1>2, <2>3, <2>4 DEF Sweep!ExpiryRefund, SweepInv, Sweep!TypeOK,
       Sweep!StoreTypeOK, Sweep!storeVars, Sweeps, Listed
<1>3. CASE Sweep!SweepEnd(s)
  <2>1. Sweep!Idle \in Sweeps /\ Sweep!Idle.pc # "unlock"
    BY DEF Sweeps, Sweep!Idle
  <2>2. sweep' \in [Passes -> Sweeps] /\ UnlocksDue'
    BY <1>3, <2>1, SweepStep DEF Sweep!SweepEnd, Sweep!Over, Sweep!storeVars
  <2> QED
    BY <1>1, <1>3, <2>2 DEF Sweep!SweepEnd, SweepInv, Sweep!TypeOK, Sweep!StoreTypeOK,
       Sweep!storeVars, Sweeps, Listed
<1> QED
  BY <1>2, <1>3

LEMMA WorldSweepInv ==
  ASSUME SweepInv, NEW g \in Gifts,
         Sweep!Elsewhere(g) \/ Sweep!TimePasses(g) \/ Sweep!WriteRow(g)
  PROVE  SweepInv'
<1>1. Sweep!TypeOK /\ Sweep!StoreTypeOK
  BY DEF SweepInv, Sweep!TypeOK
<1>2. Sweep!StoreTypeOK'
  <2>1. ASSUME NEW s \in Sweep!Status, Sweep!updateGiftStatus(g, s), UNCHANGED <<deleted, due>>
        PROVE  Sweep!StoreTypeOK'
    BY <1>1, <2>1, UpdateType DEF Sweep!StoreTypeOK
  <2>2. ASSUME Sweep!cancelGift(g), Sweep!softDeleteGift(g), UNCHANGED due
        PROVE  Sweep!StoreTypeOK'
    BY <1>1, <2>2 DEF Sweep!StoreTypeOK, Sweep!cancelGift, Sweep!softDeleteGift, Sweep!Status
  <2>3. ASSUME Sweep!hardDeleteGift(g) PROVE Sweep!StoreTypeOK'
    BY <1>1, <2>3 DEF Sweep!StoreTypeOK, Sweep!hardDeleteGift
  <2>4. ASSUME Sweep!UnlockTimePasses(g) \/ UNCHANGED Sweep!storeVars PROVE Sweep!StoreTypeOK'
    BY <1>1, <2>4 DEF Sweep!StoreTypeOK, Sweep!UnlockTimePasses, Sweep!storeVars
  <2> QED
    BY <2>1, <2>2, <2>3, <2>4 DEF Sweep!Elsewhere, Sweep!TimePasses, Sweep!WriteRow
<1>3. UNCHANGED <<sweep, refunded, restarts>> /\ \A h \in Gifts : due[h] => due'[h]
  BY <1>1 DEF Sweep!Elsewhere, Sweep!TimePasses, Sweep!WriteRow, Sweep!UnlockTimePasses,
     Sweep!StoreTypeOK, Sweep!storeVars
<1>4. row' \in [Gifts -> Sweep!Status] /\ lapsed' \subseteq Gifts
  BY <1>1 DEF Sweep!Elsewhere, Sweep!TimePasses, Sweep!WriteRow, Sweep!TypeOK, Sweep!StoreTypeOK
<1>5. sweep' \in [Passes -> Sweeps] /\ UnlocksDue'
  BY <1>3, SweepsUntouched
<1> QED
  BY <1>1, <1>2, <1>3, <1>4, <1>5 DEF SweepInv, Sweep!TypeOK, Sweeps, Listed

LEMMA RestartSweepInv ==
  ASSUME SweepInv, Sweep!Restart
  PROVE  SweepInv'
<1>1. sweep' = [s \in Passes |-> Sweep!Idle] /\ status' = [g \in Gifts |-> Absent]
  BY DEF Sweep!Restart
<1>2. UnlocksDue'
  BY <1>1 DEF UnlocksDue, Sweep!Idle
<1> QED
  BY <1>1, <1>2, SchedulerAssumption DEF Sweep!Restart, SweepInv, Sweep!TypeOK,
     Sweep!StoreTypeOK

LEMMA StepSweepInv ==
  ASSUME SweepInv, [Sweep!Next]_(Sweep!vars)
  PROVE  SweepInv'
<1>1. ASSUME NEW s \in Passes, Sweep!UnlockStart(s) \/ Sweep!ExpiryStart(s) \/ Sweep!Proceed(s)
      PROVE  SweepInv'
  BY <1>1, UnlockSweepInv, ExpirySweepInv, FinishSweepInv DEF Sweep!Proceed
<1>2. ASSUME NEW g \in Gifts, Sweep!Elsewhere(g) \/ Sweep!TimePasses(g) \/ Sweep!WriteRow(g)
      PROVE  SweepInv'
  BY <1>2, WorldSweepInv
<1>3. CASE Sweep!Restart
  BY <1>3, RestartSweepInv
<1>4. CASE UNCHANGED Sweep!vars
  <2>1. sweep' \in [Passes -> Sweeps] /\ UnlocksDue'
    BY <1>4, SweepsUntouched DEF Sweep!vars, Sweep!storeVars
  <2> QED
    BY <1>4, <2>1 DEF Sweep!vars, Sweep!storeVars, SweepInv, Sweep!TypeOK,
       Sweep!StoreTypeOK, Sweeps, Listed
<1> QED
  BY <1>1, <1>2, <1>3, <1>4 DEF Sweep!Next

\* The inductive invariant: types, and what the passes are about to unlock.
THEOREM SweepsInductive == Sweep!Spec => []SweepInv
<1>1. Sweep!Init => SweepInv
  BY InitSweepInv
<1>2. SweepInv /\ [Sweep!Next]_(Sweep!vars) => SweepInv'
  BY StepSweepInv
<1> QED
  BY <1>1, <1>2, PTL DEF Sweep!Spec

\* Every variable keeps its type.
THEOREM SweepTypes == Sweep!Spec => []Sweep!TypeOK
<1>1. SweepInv => Sweep!TypeOK
  BY DEF SweepInv
<1> QED
  BY SweepsInductive, <1>1, PTL

\* processUnlocks unlocks nothing before its time, however long ago its list was
\* made and whatever became of the gifts and their rows since.
THEOREM UnlockedWhenDue ==
  Sweep!Spec => [][\A g \in Gifts : status'[g] = "unlocked" => status[g] = "unlocked" \/ due[g]]_status
<1>1. SweepInv /\ [Sweep!Next]_(Sweep!vars) =>
        [\A g \in Gifts : status'[g] = "unlocked" => status[g] = "unlocked" \/ due[g]]_status
  <2> SUFFICES ASSUME SweepInv, [Sweep!Next]_(Sweep!vars), status' # status,
                      NEW g \in Gifts, status'[g] = "unlocked", status[g] # "unlocked"
               PROVE  due[g]
    OBVIOUS
  <2>1. status \in [Gifts -> Sweep!Status \cup {Absent}]
    BY DEF SweepInv, Sweep!TypeOK, Sweep!StoreTypeOK
  <2>2. ASSUME NEW h \in Gifts, NEW t \in Sweep!Status, Sweep!updateGiftStatus(h, t)
        PROVE  h = g /\ t = "unlocked"
    BY <2>1, <2>2 DEF Sweep!updateGiftStatus
  <2>3. PICK s \in Passes : Sweep!UnlockNext(s, g)
    <3> "unlocked" \in Sweep!Status /\ "unlocked" # Absent
      BY AbsentAssumption DEF Sweep!Status, Status
    <3>1. ~Sweep!Restart
      BY DEF Sweep!Restart
    <3>2. ASSUME NEW h \in Gifts, Sweep!Elsewhere(h) PROVE FALSE
      <4>1. ~\E t \in Sweep!Status \ {"unlocked"} : Sweep!updateGiftStatus(h, t)
        BY <2>2
      <4>2. ~Sweep!cancelGift(h) /\ ~Sweep!hardDeleteGift(h)
        BY <2>1 DEF Sweep!cancelGift, Sweep!hardDeleteGift
      <4> QED
        BY <3>2, <4>1, <4>2 DEF Sweep!Elsewhere
    <3>3. ASSUME NEW h \in Gifts, Sweep!TimePasses(h) \/ Sweep!WriteRow(h) PROVE status' = status
      BY <3>3 DEF Sweep!TimePasses, Sweep!UnlockTimePasses, Sweep!WriteRow, Sweep!storeVars
    <3>4. ASSUME NEW s \in Passes,
                 \/ Sweep!UnlockStart(s) \/ Sweep!ExpiryStart(s)
                 \/ Sweep!ExpiryRefund(s) \/ Sweep!SweepEnd(s)
          PROVE  status' = status
      BY <3>4 DEF Sweep!UnlockStart, Sweep!ExpiryStart, Sweep!ExpiryRefund, Sweep!SweepEnd,
         Sweep!storeVars
    <3>5. ASSUME NEW s \in Passes, NEW h \in Gifts, Sweep!ExpiryMark(s, h) PROVE FALSE
      <4>1. "expired" \in Sweep!Status
        BY DEF Sweep!Status
      <4> QED
        BY <2>2, <3>5, <4>1 DEF Sweep!ExpiryMark
    <3>6. ASSUME NEW s \in Passes, NEW h \in Gifts, Sweep!UnlockNext(s, h) PROVE h = g
      BY <2>2, <3>6 DEF Sweep!UnlockNext
    <3> QED
      BY <3>1, <3>2, <3>3, <3>4, <3>5, <3>6 DEF Sweep!Next, Sweep!Proceed, Sweep!vars,
         Sweep!storeVars
  <2> QED
    BY <2>3 DEF Sweep!UnlockNext, SweepInv, UnlocksDue
<1> QED
  BY SweepsInductive, <1>1, PTL DEF Sweep!Spec, Sweep!vars, Sweep!storeVars
=============================================================================
