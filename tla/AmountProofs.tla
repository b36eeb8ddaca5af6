---------------------------- MODULE AmountProofs ----------------------------
(***************************************************************************)
(* Theorems about sums of money: what a sender gives in a day              *)
(* (GiftCreation) and what a group gift collects (GroupGift, here as       *)
(* Group), for every number of requests and visits and every amount.       *)
(*                                                                         *)
(* How far overlapping requests can exceed the daily limit.  The argument: *)
(* of the requests of a sender that have passed their check and wait to    *)
(* insert, one still fits into the limit plus one largest gift for each    *)
(* request that does not wait.  A check leaves the request just checked as *)
(* that one; an insertion, or a request that gives up, frees a request,    *)
(* which makes room for any of those that still wait; midnight resets the  *)
(* sum, and what was checked fits an empty day; a hard delete only makes   *)
(* more room.                                                              *)
(*                                                                         *)
(* That a group gift collects what was paid.  The argument: a visit whose  *)
(* answer is counted saw the payment made, and is over with that, so the   *)
(* naira that served visits stand for grow by as much as what is collected *)
(* does; they never shrink, because no payment is taken back.              *)
(***************************************************************************)
EXTENDS GiftCreation, GroupGiftState, TLAPS, FiniteSetTheorems

Group == INSTANCE GroupGift

\* The requests of a sender that wait to insert.
Pending(s) == {r \in Requests : request[r].pc = "insert" /\ request[r].sender = s}

\* The limit, and one largest gift for every request but k.
Room(k) == DailyLimit + (Cardinality(Requests) - k) * MaxAmount

FitsADay == \A r \in Requests : request[r].pc = "insert" => request[r].amount <= DailyLimit
OneStillFits ==
  \A s \in Senders : Pending(s) # {} =>
    \E r \in Pending(s) : givenToday[s] + request[r].amount <= Room(Cardinality(Pending(s)))

IInv == TypeOK /\ FitsADay /\ OneStillFits /\ OvershootBounded

-----------------------------------------------------------------------------
\* Room(k) shrinks by a largest gift with every request, down to the limit.
LEMMA RoomShrinks ==
  ASSUME NEW k \in 1..Cardinality(Requests)
  PROVE  /\ Room(k) \in Int /\ Room(k - 1) \in Int /\ Room(1) \in Int
         /\ DailyLimit <= Room(k)
         /\ Room(k - 1) = Room(k) + MaxAmount
         /\ Room(k) <= Room(1)
         /\ k > 1 => Room(k) + MaxAmount <= Room(1)
<1>1. Cardinality(Requests) \in Nat /\ MaxAmount \in Nat /\ DailyLimit \in Nat
  BY CreationAssumption, FS_CardinalityType
<1> DEFINE c == Cardinality(Requests)
<1> HIDE DEF c
<1>2. \A a, b \in Nat : a * b \in Nat
  OBVIOUS
<1>3. \A a, b \in Int, m \in Nat : (a + b) * m = a * m + b * m
  OBVIOUS
<1>4. c \in Nat /\ k \in 1..c
  BY <1>1 DEF c
<1>5. (c - k) * MaxAmount \in Nat /\ (k - 1) * MaxAmount \in Nat
  BY <1>1, <1>2, <1>4
<1>6. (c - 1) * MaxAmount = (c - k) * MaxAmount + (k - 1) * MaxAmount
  <2>1. c - 1 = (c - k) + (k - 1) /\ c - k \in Int /\ k - 1 \in Int
    BY <1>4
  <2> QED
    BY <1>1, <1>3, <2>1
<1>7. (c - (k - 1)) * MaxAmount = (c - k) * MaxAmount + MaxAmount
  <2>1. c - (k - 1) = (c - k) + 1 /\ c - k \in Int
    BY <1>4
  <2>2. 1 * MaxAmount = MaxAmount
    BY <1>1
  <2> QED
    BY <1>1, <1>3, <2>1, <2>2
<1>8. k > 1 => (k - 1) * MaxAmount = (k - 2) * MaxAmount + MaxAmount /\ (k - 2) * MaxAmount \in Nat
  <2>1. k > 1 => k - 1 = (k - 2) + 1 /\ k - 2 \in Nat
    BY <1>4
  <2>2. 1 * MaxAmount = MaxAmount
    BY <1>1
  <2> QED
    BY <1>1, <1>2, <1>3, <2>1, <2>2
<1>9. \A j : Room(j) = DailyLimit + (c - j) * MaxAmount
  BY DEF Room, c
<1> QED
  BY <1>1, <1>5, <1>6, <1>7, <1>8, <1>9

\* A request that waits has a sender and an amount, and is counted.
LEMMA PendingRequest ==
  ASSUME TypeOK, FitsADay, NEW s \in Senders, NEW r \in Pending(s)
  PROVE  /\ request[r].amount \in Nat /\ request[r].amount <= MaxAmount
         /\ request[r].amount <= DailyLimit
         /\ givenToday[s] \in Nat
         /\ IsFiniteSet(Pending(s))
         /\ Cardinality(Pending(s)) \in 1..Cardinality(Requests)
<1>1. r \in Requests /\ request[r].pc = "insert" /\ Pending(s) \subseteq Requests
  BY DEF Pending
<1>2. request[r] \in [pc : {"insert", "open"}, sender : Senders, amount : Amounts]
  BY <1>1 DEF TypeOK, Idle
<1>3. request[r].amount \in Nat /\ request[r].amount <= MaxAmount
  BY <1>2, CreationAssumption DEF Amounts
<1>4. IsFiniteSet(Pending(s)) /\ Cardinality(Pending(s)) <= Cardinality(Requests)
  BY <1>1, CreationAssumption, FS_Subset
<1>5. Cardinality(Pending(s)) \in Nat /\ Cardinality(Requests) \in Nat
  BY <1>4, CreationAssumption, FS_CardinalityType
<1>6. Cardinality(Pending(s)) # 0
  BY <1>4, FS_EmptySet
<1> QED
  BY <1>1, <1>3, <1>4, <1>5, <1>6 DEF FitsADay, TypeOK

\* When a request of a sender stops waiting, any other that waits fits: the sum
\* has grown by at most its amount, and there is room for one largest gift more.
LEMMA RoomForTheRest ==
  ASSUME IInv, NEW s \in Senders, NEW r \in Pending(s), NEW q \in Pending(s), q # r
  PROVE  /\ Cardinality(Pending(s) \ {r}) = Cardinality(Pending(s)) - 1
         /\ givenToday[s] + request[r].amount <= Room(1)
         /\ \E t \in Pending(s) \ {r} :
              givenToday[s] + request[r].amount + request[t].amount
                <= Room(Cardinality(Pending(s)) - 1)
<1> DEFINE k == Cardinality(Pending(s))
<1>1. PICK w \in Pending(s) : givenToday[s] + request[w].amount <= Room(k)
  BY DEF IInv, OneStillFits
<1>2. \A t \in Pending(s) : request[t].amount \in Nat /\ request[t].amount <= MaxAmount
  BY PendingRequest DEF IInv
<1>3. IsFiniteSet(Pending(s)) /\ k \in 1..Cardinality(Requests) /\ givenToday[s] \in Nat
  BY PendingRequest DEF IInv
<1>4. Cardinality(Pending(s) \ {r}) = k - 1
  BY <1>3, FS_RemoveElement
<1>5. k > 1
  <2>1. IsFiniteSet(Pending(s) \ {r}) /\ Pending(s) \ {r} # {}
    BY <1>3, FS_RemoveElement
  <2>2. Cardinality(Pending(s) \ {r}) # 0 /\ Cardinality(Requests) \in Nat
    BY <2>1, FS_EmptySet, CreationAssumption, FS_CardinalityType
  <2> QED
    BY <1>3, <1>4, <2>2
<1> HIDE DEF k
<1>6. /\ Room(k) \in Int /\ Room(k - 1) \in Int /\ Room(1) \in Int
      /\ Room(k - 1) = Room(k) + MaxAmount /\ Room(k) + MaxAmount <= Room(1)
  BY <1>3, <1>5, RoomShrinks
<1>7. MaxAmount \in Nat
  BY CreationAssumption
<1>8. givenToday[s] + request[r].amount <= Room(1)
  BY <1>1, <1>2, <1>3, <1>6, <1>7
<1>9. CASE w = r
  BY <1>1, <1>2, <1>3, <1>4, <1>6, <1>7, <1>8, <1>9 DEF k
<1>10. CASE w # r
  BY <1>1, <1>2, <1>3, <1>4, <1>6, <1>7, <1>8, <1>10 DEF k
<1> QED
  BY <1>9, <1>10

\* The only request of a sender that waits fits.
LEMMA TheLastFits ==
  ASSUME IInv, NEW s \in Senders, NEW r \in Pending(s), Pending(s) = {r}
  PROVE  givenToday[s] + request[r].amount <= Room(1)
<1>1. PICK w \in Pending(s) :
        givenToday[s] + request[w].amount <= Room(Cardinality(Pending(s)))
  BY DEF IInv, OneStillFits
<1>2. w = r /\ Cardinality(Pending(s)) = 1
  BY FS_Singleton
<1> QED
  BY <1>1, <1>2

-----------------------------------------------------------------------------
LEMMA InitIInv == Init => IInv
<1> SUFFICES ASSUME Init PROVE IInv
  OBVIOUS
<1>1. TypeOK /\ FitsADay /\ OneStillFits
  BY DEF Init, TypeOK, FitsADay, OneStillFits, Pending, Idle
<1>2. 1 \in 1..Cardinality(Requests)
  BY CreationAssumption, FS_EmptySet, FS_CardinalityType
<1>3. DailyLimit <= Room(1) /\ Room(1) \in Int /\ DailyLimit \in Nat
  BY <1>2, RoomShrinks, CreationAssumption
<1>4. OvershootBounded
  BY <1>3 DEF Init, OvershootBounded, Room
<1> QED
  BY <1>1, <1>4 DEF IInv

\* A request that passes its check is the one that fits.
LEMMA CheckIInv ==
  ASSUME IInv, NEW r \in Requests, NEW s \in Senders, NEW n \in Amounts, Check(r, s, n)
  PROVE  IInv'
<1>1. n \in Nat /\ givenToday[s] \in Nat /\ DailyLimit \in Nat
  BY CreationAssumption DEF Amounts, IInv, TypeOK
<1>2. givenToday[s] + n <= DailyLimit
  BY DEF Check, WithinLimit
<1>3. TypeOK'
  BY DEF Check, IInv, TypeOK
<1>4. request' = [request EXCEPT ![r] = [pc |-> "insert", sender |-> s, amount |-> n]]
      /\ request \in [Requests -> {Idle} \cup
                        [pc : {"insert", "open"}, sender : Senders, amount : Amounts]]
      /\ givenToday' = givenToday /\ request[r].pc = "idle"
  BY DEF Check, IInv, TypeOK, Idle
<1>5. FitsADay'
  BY <1>1, <1>2, <1>4 DEF IInv, FitsADay
<1>6. ASSUME NEW t \in Senders, t # s PROVE Pending(t)' = Pending(t)
  BY <1>4, <1>6 DEF Pending
<1>7. r \in Pending(s)' /\ request'[r].amount = n
  BY <1>4 DEF Pending
<1>8. Cardinality(Pending(s)') \in 1..Cardinality(Requests)
  <2>1. IsFiniteSet(Pending(s)') /\ Cardinality(Pending(s)') <= Cardinality(Requests)
    BY CreationAssumption, FS_Subset DEF Pending
  <2> QED
    BY <1>7, <2>1, FS_EmptySet, FS_CardinalityType, CreationAssumption
<1>9. givenToday'[s] + request'[r].amount <= Room(Cardinality(Pending(s)'))
  <2>1. DailyLimit <= Room(Cardinality(Pending(s)')) /\ Room(Cardinality(Pending(s)')) \in Int
    BY <1>8, RoomShrinks
  <2> QED
    BY <1>1, <1>2, <1>4, <1>7, <2>1
<1>10. ASSUME NEW t \in Senders, t # s, Pending(t)' # {}
       PROVE  \E q \in Pending(t)' :
                givenToday'[t] + request'[q].amount <= Room(Cardinality(Pending(t)'))
  <2>1. PICK q \in Pending(t) : givenToday[t] + request[q].amount <= Room(Cardinality(Pending(t)))
    BY <1>6, <1>10 DEF IInv, OneStillFits
  <2>2. q # r /\ q \in Requests
    BY <1>4 DEF Pending
  <2> QED
    BY <1>4, <1>6, <1>10, <2>1, <2>2
<1>11. OneStillFits'
  BY <1>7, <1>9, <1>10 DEF OneStillFits, Room
<1>12. OvershootBounded'
  BY <1>4 DEF IInv, OvershootBounded
<1> QED
  BY <1>3, <1>5, <1>11, <1>12 DEF IInv

\* A request that waited inserts its gift, or gives up: the others have the room.
LEMMA LeaveIInv ==
  ASSUME IInv, NEW r \in Requests, Insert(r) \/ GiveUp(r)
  PROVE  IInv'
<1> DEFINE Staged == [pc : {"insert", "open"}, sender : Senders, amount : Amounts]
<1>1. request[r] \in Staged /\ request[r].pc = "insert"
  BY DEF Insert, GiveUp, IInv, TypeOK, Idle
<1>2. PICK s \in Senders, n \in Nat :
        s = request[r].sender /\ n = request[r].amount /\ r \in Pending(s)
  BY <1>1, CreationAssumption DEF Amounts, Pending
<1>3. /\ request'[r].pc # "insert" /\ request'[r] \in {Idle} \cup Staged
      /\ \A q \in Requests \ {r} : request'[q] = request[q]
      /\ request' \in [Requests -> {Idle} \cup Staged]
  <2>1. CASE Insert(r)
    <3>1. request' = [request EXCEPT ![r] = [request[r] EXCEPT !.pc = "open"]]
      BY <2>1 DEF Insert
    <3>2. [request[r] EXCEPT !.pc = "open"] \in Staged /\ [request[r] EXCEPT !.pc = "open"].pc = "open"
      BY <1>1
    <3> QED
      BY <3>1, <3>2 DEF IInv, TypeOK
  <2>2. CASE GiveUp(r)
    BY <2>2 DEF GiveUp, IInv, TypeOK, Idle
  <2> QED
    BY <2>1, <2>2
<1>4. /\ givenToday' \in [Senders -> Nat]
      /\ givenToday[s] <= givenToday'[s] /\ givenToday'[s] <= givenToday[s] + n
      /\ \A t \in Senders \ {s} : givenToday'[t] = givenToday[t]
  <2>1. givenToday \in [Senders -> Nat]
    BY DEF IInv, TypeOK
  <2>2. givenToday' = [givenToday EXCEPT ![s] = @ + n] \/ givenToday' = givenToday
    BY <1>2 DEF Insert, GiveUp
  <2> QED
    BY <1>2, <2>1, <2>2
<1>5. TypeOK'
  BY <1>3, <1>4 DEF TypeOK
<1>6. FitsADay'
  BY <1>3 DEF IInv, FitsADay
<1>7. Pending(s)' = Pending(s) \ {r} /\ \A t \in Senders \ {s} : Pending(t)' = Pending(t)
  BY <1>1, <1>2, <1>3 DEF Pending
<1>8. Room(1) \in Int
  BY <1>2, PendingRequest, RoomShrinks DEF IInv
<1>9. givenToday[s] + n <= Room(1) /\
        (Pending(s)' # {} => \E t \in Pending(s)' :
           givenToday'[s] + request'[t].amount <= Room(Cardinality(Pending(s)')))
  <2>1. CASE Pending(s) = {r}
    BY <1>2, <1>7, <2>1, TheLastFits
  <2>2. CASE Pending(s) # {r}
    <3>1. PICK q \in Pending(s) : q # r
      BY <1>2, <2>2
    <3>2. /\ Cardinality(Pending(s) \ {r}) = Cardinality(Pending(s)) - 1
          /\ givenToday[s] + n <= Room(1)
      BY <1>2, <3>1, RoomForTheRest
    <3>3. PICK t \in Pending(s) \ {r} :
            givenToday[s] + n + request[t].amount <= Room(Cardinality(Pending(s)) - 1)
      BY <1>2, <3>1, RoomForTheRest
    <3>4. request'[t].amount = request[t].amount /\ request[t].amount \in Nat
      BY <1>2, <1>3, <3>3, PendingRequest DEF IInv, Pending
    <3>5. Room(Cardinality(Pending(s)) - 1) \in Int
      BY <1>2, PendingRequest, RoomShrinks DEF IInv
    <3>6. givenToday[s] \in Nat /\ givenToday'[s] \in Nat
      BY <1>2, <1>4 DEF IInv, TypeOK
    <3>7. givenToday'[s] + request'[t].amount <= Room(Cardinality(Pending(s)) - 1)
      BY <1>2, <1>4, <3>3, <3>4, <3>5, <3>6
    <3> QED
      BY <1>7, <3>2, <3>3, <3>7
  <2> QED
    BY <2>1, <2>2
<1>10. ASSUME NEW t \in Senders, t # s, Pending(t)' # {}
       PROVE  \E q \in Pending(t)' :
                givenToday'[t] + request'[q].amount <= Room(Cardinality(Pending(t)'))
  <2>1. PICK q \in Pending(t) : givenToday[t] + request[q].amount <= Room(Cardinality(Pending(t)))
    BY <1>7, <1>10 DEF IInv, OneStillFits
  <2>2. q # r /\ q \in Requests
    BY <1>2, <1>10, <2>1 DEF Pending
  <2> QED
    BY <1>3, <1>4, <1>7, <1>10, <2>1, <2>2
<1>11. OneStillFits'
  BY <1>9, <1>10 DEF OneStillFits, Room
<1>12. OvershootBounded'
  <2>1. givenToday'[s] <= Room(1)
    BY <1>2, <1>4, <1>8, <1>9 DEF IInv, TypeOK
  <2> QED
    BY <1>4, <2>1 DEF IInv, OvershootBounded, Room
<1> QED
  BY <1>5, <1>6, <1>11, <1>12 DEF IInv

\* A request that had inserted its gift ends.
LEMMA OpenIInv == ASSUME IInv, NEW r \in Requests, Open(r) PROVE IInv'
<1>1. /\ givenToday' = givenToday /\ request' = [request EXCEPT ![r] = Idle]
      /\ request[r].pc = "open" /\ request'[r] = Idle
      /\ \A q \in Requests \ {r} : request'[q] = request[q]
  BY DEF Open, IInv, TypeOK
<1>2. TypeOK' /\ FitsADay' /\ OvershootBounded'
  BY <1>1 DEF IInv, TypeOK, FitsADay, OvershootBounded, Idle
<1>3. \A t \in Senders : Pending(t)' = Pending(t)
  BY <1>1 DEF Pending, Idle
<1>4. \A t \in Senders : \A q \in Pending(t) : request'[q] = request[q]
  BY <1>1 DEF Pending
<1>5. OneStillFits'
  BY <1>1, <1>3, <1>4 DEF IInv, OneStillFits, Room
<1> QED
  BY <1>2, <1>5 DEF IInv

\* Midnight: what had passed its check fits the new day.
LEMMA NewDayIInv == ASSUME IInv, NewDay PROVE IInv'
<1>1. request' = request /\ \A s \in Senders : givenToday'[s] = 0 /\ Pending(s)' = Pending(s)
  BY DEF NewDay, Pending
<1>2. TypeOK' /\ FitsADay'
  BY DEF NewDay, IInv, TypeOK, FitsADay
<1>3. ASSUME NEW s \in Senders, NEW r \in Pending(s)
      PROVE  0 + request[r].amount <= Room(Cardinality(Pending(s)))
  <2>1. request[r].amount \in Nat /\ request[r].amount <= DailyLimit
        /\ Cardinality(Pending(s)) \in 1..Cardinality(Requests)
    BY PendingRequest DEF IInv
  <2>2. DailyLimit <= Room(Cardinality(Pending(s))) /\ Room(Cardinality(Pending(s))) \in Int
    BY <2>1, RoomShrinks
  <2> QED
    BY <2>1, <2>2, CreationAssumption
<1>4. OneStillFits'
  BY <1>1, <1>3 DEF OneStillFits, Room
<1>5. OvershootBounded'
  <2>1. 1 \in 1..Cardinality(Requests)
    BY CreationAssumption, FS_EmptySet, FS_CardinalityType
  <2>2. 0 <= Room(1)
    BY <2>1, RoomShrinks, CreationAssumption
  <2> QED
    BY <1>1, <2>2 DEF OvershootBounded, Room
<1> QED
  BY <1>2, <1>4, <1>5 DEF IInv

\* A hard delete makes more room for those that wait.
LEMMA HardDeleteIInv ==
  ASSUME IInv, NEW s \in Senders, NEW n \in Amounts, HardDelete(s, n)
  PROVE  IInv'
<1>1. request' = request /\ \A t \in Senders : Pending(t)' = Pending(t)
  BY DEF HardDelete, Pending
<1>2. givenToday' \in [Senders -> Nat] /\ \A t \in Senders : givenToday'[t] <= givenToday[t]
  BY CreationAssumption DEF HardDelete, IInv, TypeOK, Amounts
<1>3. TypeOK' /\ FitsADay'
  BY <1>1, <1>2 DEF IInv, TypeOK, FitsADay
<1>4. ASSUME NEW t \in Senders, Pending(t) # {}
      PROVE  \E r \in Pending(t) :
               givenToday'[t] + request[r].amount <= Room(Cardinality(Pending(t)))
  <2>1. PICK r \in Pending(t) : givenToday[t] + request[r].amount <= Room(Cardinality(Pending(t)))
    BY <1>4 DEF IInv, OneStillFits
  <2>2. /\ request[r].amount \in Nat /\ givenToday[t] \in Nat /\ givenToday'[t] \in Nat
        /\ Room(Cardinality(Pending(t))) \in Int
    BY <1>2, PendingRequest, RoomShrinks DEF IInv
  <2> QED
    BY <1>2, <2>1, <2>2
<1>5. OneStillFits'
  BY <1>1, <1>4 DEF OneStillFits, Room
<1>6. OvershootBounded'
  <2>1. Room(1) \in Int /\ givenToday \in [Senders -> Nat]
    <3>1. 1 \in 1..Cardinality(Requests)
      BY CreationAssumption, FS_EmptySet, FS_CardinalityType
    <3> QED
      BY <3>1, RoomShrinks DEF IInv, TypeOK
  <2> QED
    BY <1>2, <2>1 DEF IInv, OvershootBounded, Room
<1> QED
  BY <1>3, <1>5, <1>6 DEF IInv

\* After a restart nothing is given and nothing waits.
LEMMA RestartIInv == ASSUME IInv, Restart PROVE IInv'
<1>1. \A s \in Senders : givenToday'[s] = 0 /\ Pending(s)' = {}
  BY DEF Restart, Pending, Idle
<1>2. TypeOK' /\ FitsADay'
  BY DEF Restart, TypeOK, FitsADay, Idle
<1>3. OvershootBounded'
  <2>1. 1 \in 1..Cardinality(Requests)
    BY CreationAssumption, FS_EmptySet, FS_CardinalityType
  <2>2. 0 <= Room(1)
    BY <2>1, RoomShrinks, CreationAssumption
  <2> QED
    BY <1>1, <2>2 DEF OvershootBounded, Room
<1> QED
  BY <1>1, <1>2, <1>3 DEF IInv, OneStillFits

LEMMA NextIInv == IInv /\ [Next]_vars => IInv'
<1> SUFFICES ASSUME IInv, [Next]_vars PROVE IInv'
  OBVIOUS
<1>1. CASE \E r \in Requests : Insert(r) \/ GiveUp(r)
  BY <1>1, LeaveIInv
<1>2. CASE \E r \in Requests : Open(r)
  BY <1>2, OpenIInv
<1>3. CASE \E r \in Requests, s \in Senders, n \in Amounts : Check(r, s, n)
  BY <1>3, CheckIInv
<1>4. CASE NewDay
  BY <1>4, NewDayIInv
<1>5. CASE UNCHANGED vars
  BY <1>5 DEF vars, IInv, TypeOK, FitsADay, OneStillFits, OvershootBounded, Pending, Room
<1>6. CASE \E s \in Senders, n \in Amounts : HardDelete(s, n)
  BY <1>6, HardDeleteIInv
<1>7. CASE Restart
  BY <1>7, RestartIInv
<1> QED
  BY <1>1, <1>2, <1>3, <1>4, <1>5, <1>6, <1>7 DEF Next

-----------------------------------------------------------------------------
\* The gifts in the Map that a sender created on one day exceed the limit by at
\* most one largest gift for each overlapping request but one, whatever their
\* number, the limit and the amounts.
THEOREM Overshoot == Spec => []OvershootBounded
<1>1. IInv => OvershootBounded
  BY DEF IInv
<1> QED
  BY InitIInv, NextIInv, <1>1, PTL DEF Spec

\* Requests handled one after the other keep what the Map holds of every sender's
\* day within the limit.
THEOREM LimitRespected ==
  ASSUME Cardinality(Requests) = 1
  PROVE  Spec => [](\A s \in Senders : givenToday[s] <= DailyLimit)
<1>1. IInv => \A s \in Senders : givenToday[s] <= DailyLimit
  <2>1. DailyLimit \in Nat /\ (1 - 1) * MaxAmount = 0
    BY CreationAssumption
  <2> QED
    BY <2>1 DEF IInv, OvershootBounded
<1> QED
  BY InitIInv, NextIInv, <1>1, PTL DEF Spec

-----------------------------------------------------------------------------
\* The visits whose payment can have been counted, and what they stand for.
Served == {v \in Visits : visit[v].pc = "done" /\ charge[visit[v].of] = "paid"}
SeenIsPaid == \A v \in Visits : visit[v].pc = "success" => charge[visit[v].of] = "paid"
CollectedIsServed ==
  /\ collected <= Cardinality(Naira(Served))
  /\ gift = "funded" => Cardinality(Naira(Served)) >= Target
GroupInv == GroupTypeOK /\ SeenIsPaid /\ CollectedIsServed

Sessions == {[pc |-> "ready"]} \cup [pc : Answers \cup {"done"}, of : Contributions]
Begun == [pc : Answers \cup {"done"}, of : Contributions]

\* What has been begun names its contribution.
LEMMA VisitStages ==
  ASSUME GroupTypeOK, NEW v \in Visits
  PROVE  /\ visit[v] \in Sessions
         /\ visit[v].pc # "ready" => visit[v] \in Begun /\ visit[v].of \in Contributions
  BY DEF GroupTypeOK, Sessions, Begun

\* The naira that visits S stand for, when visit v is about contribution h[v]: they
\* can be counted, and each further visit adds its amount.
Units(S, h) == UNION {{v} \X (1..Amount[h[v]]) : v \in S}

\* One visit stands for the amount of its contribution ...
LEMMA UnitsOfOne ==
  ASSUME NEW v \in Visits, NEW c \in Contributions
  PROVE  /\ IsFiniteSet({v} \X (1..Amount[c])) /\ Amount[c] \in Nat
         /\ Cardinality({v} \X (1..Amount[c])) = Amount[c]
<1> DEFINE n == Amount[c]
<1>1. n \in Nat /\ n > 0
  BY GroupAssumption
<1> HIDE DEF n
<1>2. IsFiniteSet(1..n) /\ Cardinality(1..n) = n
  BY <1>1, FS_Interval
<1>3. IsFiniteSet({v}) /\ Cardinality({v}) = 1
  BY FS_Singleton
<1>4. IsFiniteSet({v} \X (1..n)) /\ Cardinality({v} \X (1..n)) = 1 * n
  BY <1>2, <1>3, FS_Product
<1>5. 1 * n = n
  BY <1>1
<1> QED
  BY <1>1, <1>4, <1>5 DEF n

\* ... finitely many for finitely many naira ...
LEMMA UnitsFinite ==
  ASSUME NEW S \in SUBSET Visits, NEW h \in [S -> Contributions]
  PROVE  IsFiniteSet(Units(S, h)) /\ Cardinality(Units(S, h)) \in Nat
<1> DEFINE f == [v \in S |-> {v} \X (1..Amount[h[v]])]
           T == {{v} \X (1..Amount[h[v]]) : v \in S}
<1>1. IsFiniteSet(S)
  BY FS_Subset, GroupAssumption
<1>2. f \in Surjection(S, T)
  BY DEF Surjection
<1>3. \A U \in T : IsFiniteSet(U)
  BY UnitsOfOne
<1>4. Units(S, h) = UNION T
  BY DEF Units
<1> HIDE DEF f, T
<1>5. IsFiniteSet(T)
  BY <1>1, <1>2, FS_Surjection
<1>6. IsFiniteSet(UNION T)
  BY <1>3, <1>5, FS_UNION
<1> QED
  BY <1>4, <1>6, FS_CardinalityType

\* ... and more visits for more, each by its amount.
LEMMA UnitsGrow ==
  ASSUME NEW S \in SUBSET Visits, NEW T \in SUBSET Visits,
         NEW h \in [S -> Contributions], NEW k \in [T -> Contributions],
         \A v \in S : v \in T /\ k[v] = h[v]
  PROVE  /\ Cardinality(Units(S, h)) <= Cardinality(Units(T, k))
         /\ \A v \in T \ S :
              Cardinality(Units(S, h)) + Amount[k[v]] <= Cardinality(Units(T, k))
<1>1. /\ IsFiniteSet(Units(S, h)) /\ Cardinality(Units(S, h)) \in Nat
      /\ IsFiniteSet(Units(T, k)) /\ Cardinality(Units(T, k)) \in Nat
  BY UnitsFinite
<1>2. Units(S, h) \subseteq Units(T, k)
  BY DEF Units
<1>3. ASSUME NEW v \in T \ S
      PROVE  Cardinality(Units(S, h)) + Amount[k[v]] <= Cardinality(Units(T, k))
  <2> DEFINE A == Units(S, h)
             B == {v} \X (1..Amount[k[v]])
             C == Units(T, k)
  <2>1. IsFiniteSet(B) /\ Cardinality(B) = Amount[k[v]] /\ Amount[k[v]] \in Nat
    BY UnitsOfOne
  <2>2. A \cap B = {} /\ A \cup B \subseteq C
    BY <1>2 DEF Units
  <2> HIDE DEF A, B, C
  <2>3. IsFiniteSet(A) /\ IsFiniteSet(C) /\ Cardinality(A) \in Nat /\ Cardinality(C) \in Nat
    BY <1>1 DEF A, C
  <2>4. Cardinality(A \cap B) = 0
    BY <2>2, FS_EmptySet
  <2>5. Cardinality(A \cup B) = Cardinality(A) + Cardinality(B) - Cardinality(A \cap B)
    BY <2>1, <2>3, FS_Union
  <2>6. Cardinality(A \cup B) <= Cardinality(C)
    BY <2>2, <2>3, FS_Subset
  <2> QED
    BY <2>1, <2>3, <2>4, <2>5, <2>6 DEF A, C
<1> QED
  BY <1>1, <1>2, <1>3, FS_Subset

-----------------------------------------------------------------------------
\* Served visits stay served, with the contribution they are about.
Of(S) == [v \in S |-> visit[v].of]

\* The naira of visits that have begun, as a set that the lemmas above count.
LEMMA NairaAreUnits ==
  ASSUME GroupTypeOK, NEW S \in SUBSET Visits, \A v \in S : visit[v].pc # "ready"
  PROVE  Of(S) \in [S -> Contributions] /\ Naira(S) = Units(S, Of(S))
  BY VisitStages DEF Of, Naira, Units

\* What was served is part of what was paid and visited.
LEMMA ServedIsCounted ==
  ASSUME GroupTypeOK
  PROVE  /\ Cardinality(Naira(Served)) \in Nat
         /\ Cardinality(Naira(PaidVisits)) \in Nat
         /\ Cardinality(Naira(Served)) <= Cardinality(Naira(PaidVisits))
<1>1. /\ Served \in SUBSET Visits /\ PaidVisits \in SUBSET Visits
      /\ \A v \in Served : v \in PaidVisits /\ visit[v].pc # "ready"
      /\ \A v \in PaidVisits : visit[v].pc # "ready"
  BY DEF Served, PaidVisits
<1>2. /\ Of(Served) \in [Served -> Contributions]
      /\ Of(PaidVisits) \in [PaidVisits -> Contributions]
      /\ Naira(Served) = Units(Served, Of(Served))
      /\ Naira(PaidVisits) = Units(PaidVisits, Of(PaidVisits))
  BY <1>1, NairaAreUnits
<1>3. \A v \in Served : v \in PaidVisits /\ Of(PaidVisits)[v] = Of(Served)[v]
  BY <1>1 DEF Of
<1> QED
  BY <1>1, <1>2, <1>3, UnitsGrow, UnitsFinite

-----------------------------------------------------------------------------
\* Types first: the visits ...
LEMMA VisitTypes ==
  ASSUME GroupTypeOK, [Group!Next]_(Group!vars)
  PROVE  /\ visit' \in [Visits -> Sessions]
         /\ \A v \in Visits : visit[v].pc = "done" => visit'[v] = visit[v]
<1> DEFINE Goal == /\ visit' \in [Visits -> Sessions]
                   /\ \A v \in Visits : visit[v].pc = "done" => visit'[v] = visit[v]
<1>1. visit \in [Visits -> Sessions]
  BY DEF GroupTypeOK, Sessions
<1>2. ASSUME NEW v \in Visits, NEW c \in Contributions, Group!Visit(v, c) \/ Group!VisitThrows(v, c)
      PROVE  Goal
  BY <1>1, <1>2 DEF Group!Visit, Group!VisitThrows, Sessions, Answers
<1>3. ASSUME NEW v \in Visits, Group!Serve(v) PROVE Goal
  <2>1. visit[v].pc # "ready" /\ visit[v].pc # "done" /\ Group!Leave(v)
    BY <1>3 DEF Group!Serve, Group!Confirm, Group!Fail
  <2>2. visit[v] \in Begun
    BY <2>1, VisitStages
  <2>3. [visit[v] EXCEPT !.pc = "done"] \in Sessions
    BY <2>2 DEF Begun, Sessions
  <2>4. visit' = [visit EXCEPT ![v] = [visit[v] EXCEPT !.pc = "done"]]
    BY <1>1, <2>1 DEF Group!Leave
  <2> QED
    BY <1>1, <2>1, <2>3, <2>4
<1>4. ASSUME Group!Restart PROVE Goal
  <2>1. ASSUME NEW v \in Visits
        PROVE  visit'[v] \in Sessions /\ (visit[v].pc = "done" => visit'[v] = visit[v])
    <3>1. CASE visit[v].pc = "ready"
      BY <1>1, <1>4, <3>1 DEF Group!Restart
    <3>2. CASE visit[v].pc # "ready"
      <4>1. visit'[v] = [visit[v] EXCEPT !.pc = "done"] /\ visit[v] \in Begun
        BY <1>4, <3>2, VisitStages DEF Group!Restart
      <4> QED
        BY <4>1 DEF Begun, Sessions
    <3> QED
      BY <3>1, <3>2
  <2> QED
    BY <1>4, <2>1 DEF Group!Restart
<1>5. CASE UNCHANGED visit
  BY <1>1, <1>5
<1> QED
  BY <1>2, <1>3, <1>4, <1>5 DEF Group!Next, Group!vars, Group!Create, Group!DeadlinePasses,
     Group!Contribute, Group!OpenCharge, Group!Pay

\* ... the payments, of which none is taken back ...
LEMMA ChargeTypes ==
  ASSUME GroupTypeOK, [Group!Next]_(Group!vars)
  PROVE  /\ charge' \in [Contributions -> {"none", "open", "paid"}]
         /\ \A c \in Contributions : charge[c] = "paid" => charge'[c] = "paid"
<1> DEFINE Goal == /\ charge' \in [Contributions -> {"none", "open", "paid"}]
                   /\ \A c \in Contributions : charge[c] = "paid" => charge'[c] = "paid"
<1>1. ASSUME NEW c \in Contributions, Group!OpenCharge(c) \/ Group!Pay(c) PROVE Goal
  BY <1>1 DEF Group!OpenCharge, Group!Pay, GroupTypeOK
<1>2. CASE UNCHANGED charge
  BY <1>2 DEF GroupTypeOK
<1> QED
  BY <1>1, <1>2 DEF Group!Next, Group!vars, Group!Create, Group!DeadlinePasses, Group!Restart,
     Group!Contribute, Group!Serve, Group!Confirm, Group!Fail, Group!Visit, Group!VisitThrows

\* ... and the gift in the server's memory.
LEMMA GiftTypes ==
  ASSUME GroupTypeOK, [Group!Next]_(Group!vars)
  PROVE  /\ gift' \in {"none", "open", "funded", "expired", "lost"}
         /\ collected' \in Nat /\ late' \in BOOLEAN
         /\ contribution' \in [Contributions -> {"none", "pending", "success", "failed"}]
<1> DEFINE Goal ==
      /\ gift' \in {"none", "open", "funded", "expired", "lost"}
      /\ collected' \in Nat /\ late' \in BOOLEAN
      /\ contribution' \in [Contributions -> {"none", "pending", "success", "failed"}]
<1>1. /\ gift \in {"none", "open", "funded", "expired", "lost"}
      /\ collected \in Nat /\ late \in BOOLEAN
      /\ contribution \in [Contributions -> {"none", "pending", "success", "failed"}]
  BY DEF GroupTypeOK
<1>2. ASSUME NEW v \in Visits, Group!Confirm(v) \/ Group!Fail(v) PROVE Goal
  <2>1. visit[v].of \in Contributions /\ Amount[visit[v].of] \in Nat
    BY <1>2, VisitStages, GroupAssumption DEF Group!Confirm, Group!Fail
  <2>2. contribution' \in [Contributions -> {"none", "pending", "success", "failed"}]
    BY <1>1, <1>2, <2>1 DEF Group!Confirm, Group!Fail
  <2>3. /\ late' = late /\ (gift' = gift \/ gift' = "funded")
        /\ (collected' = collected \/ collected' = collected + Amount[visit[v].of])
    BY <1>2 DEF Group!Confirm, Group!Fail
  <2>4. collected' \in Nat
    BY <1>1, <2>1, <2>3
  <2>5. late' \in BOOLEAN
    BY <1>1, <2>3
  <2>6. gift' \in {"none", "open", "funded", "expired", "lost"}
    BY <1>1, <2>3
  <2> QED
    BY <2>2, <2>4, <2>5, <2>6
<1>3. ASSUME NEW c \in Contributions, Group!Contribute(c) PROVE Goal
  BY <1>1, <1>3 DEF Group!Contribute
<1>4. CASE Group!Create \/ Group!DeadlinePasses \/ Group!Restart
  <2>1. /\ gift' \in {gift, "open", "lost"} /\ late' \in {late, TRUE}
        /\ collected' \in {collected, 0}
        /\ contribution' \in {contribution, [c \in Contributions |-> "none"]}
    BY <1>4 DEF Group!Create, Group!DeadlinePasses, Group!Restart
  <2>2. collected' \in Nat
    BY <1>1, <2>1
  <2>3. late' \in BOOLEAN
    BY <1>1, <2>1
  <2>4. contribution' \in [Contributions -> {"none", "pending", "success", "failed"}]
    BY <1>1, <2>1
  <2>5. gift' \in {"none", "open", "funded", "expired", "lost"}
    BY <1>1, <2>1
  <2> QED
    BY <2>2, <2>3, <2>4, <2>5
<1>5. CASE UNCHANGED <<gift, collected, contribution, late>>
  BY <1>1, <1>5
<1> QED
  BY <1>2, <1>3, <1>4, <1>5 DEF Group!Next, Group!vars, Group!OpenCharge, Group!Pay,
     Group!Serve, Group!Visit, Group!VisitThrows

\* Hence every variable keeps its type.
LEMMA GroupTypeStep ==
  ASSUME GroupTypeOK, [Group!Next]_(Group!vars) PROVE GroupTypeOK'
  BY VisitTypes, ChargeTypes, GiftTypes DEF GroupTypeOK, Sessions

-----------------------------------------------------------------------------
\* What was seen paid is paid.
LEMMA SeenStep ==
  ASSUME GroupTypeOK, SeenIsPaid, [Group!Next]_(Group!vars) PROVE SeenIsPaid'
<1>1. ASSUME NEW v \in Visits, visit'[v].pc = "success" PROVE charge'[visit'[v].of] = "paid"
  <2>1. CASE visit'[v] = visit[v]
    BY <1>1, <2>1, VisitStages, ChargeTypes DEF SeenIsPaid
  <2>2. ASSUME visit'[v] # visit[v], NEW w \in Visits, NEW c \in Contributions,
               Group!Visit(w, c) \/ Group!VisitThrows(w, c)
        PROVE  charge'[visit'[v].of] = "paid"
    BY <1>1, <2>2 DEF Group!Visit, Group!VisitThrows, GroupTypeOK
  <2>3. ASSUME visit'[v] # visit[v], NEW w \in Visits, Group!Serve(w) PROVE FALSE
    <3>1. visit' = [visit EXCEPT ![w].pc = "done"] /\ visit[w].pc # "ready"
      BY <2>3 DEF Group!Serve, Group!Confirm, Group!Fail, Group!Leave
    <3>2. w = v /\ visit[v] \in Begun
      BY <2>3, <3>1, VisitStages DEF GroupTypeOK
    <3>3. visit'[v].pc = "done"
      BY <3>1, <3>2 DEF GroupTypeOK, Begun
    <3> QED
      BY <1>1, <3>3
  <2>4. ASSUME visit'[v] # visit[v], Group!Restart PROVE FALSE
    <3>1. visit'[v] = [visit[v] EXCEPT !.pc = "done"] /\ visit[v] \in Begun
      BY <2>4, VisitStages DEF Group!Restart
    <3> QED
      BY <1>1, <3>1 DEF Begun
  <2> QED
    BY <2>1, <2>2, <2>3, <2>4 DEF Group!Next, Group!vars, Group!Create, Group!DeadlinePasses,
       Group!Contribute, Group!OpenCharge, Group!Pay
<1> QED
  BY <1>1 DEF SeenIsPaid

\* The naira served grow, by the amount of each visit that is served.
LEMMA ServedStep ==
  ASSUME GroupTypeOK, [Group!Next]_(Group!vars)
  PROVE  /\ Cardinality(Naira(Served)) <= Cardinality(Naira(Served)')
         /\ \A v \in Visits : v \notin Served /\ v \in Served' =>
              Cardinality(Naira(Served)) + Amount[visit'[v].of] <= Cardinality(Naira(Served)')
         /\ Cardinality(Naira(Served)) \in Nat /\ Cardinality(Naira(Served)') \in Nat
<1> DEFINE h == [v \in Served |-> visit[v].of]
           k == [v \in Served' |-> visit'[v].of]
<1>1. /\ h \in [Served -> Contributions] /\ Served \in SUBSET Visits
      /\ Naira(Served) = Units(Served, h)
  BY VisitStages DEF Served, Naira, Units
<1>2. GroupTypeOK'
  BY GroupTypeStep
<1>3. \A v \in Served' : visit'[v].of \in Contributions
  BY <1>2 DEF Served, GroupTypeOK
<1>4. /\ k \in [Served' -> Contributions] /\ Served' \in SUBSET Visits
      /\ Naira(Served)' = Units(Served', k)
  BY <1>3 DEF Served, Naira, Units
<1>5. \A v \in Served : v \in Served' /\ visit'[v].of = visit[v].of
  BY VisitTypes, ChargeTypes, VisitStages DEF Served
<1>6. \A v \in Served : v \in Served' /\ k[v] = h[v]
  BY <1>5
<1>7. \A v \in Served' : k[v] = visit'[v].of
  OBVIOUS
<1> HIDE DEF h, k
<1>8. /\ Cardinality(Units(Served, h)) <= Cardinality(Units(Served', k))
      /\ \A v \in Served' \ Served :
           Cardinality(Units(Served, h)) + Amount[k[v]] <= Cardinality(Units(Served', k))
  BY <1>1, <1>4, <1>6, UnitsGrow
<1>9. Cardinality(Units(Served, h)) \in Nat /\ Cardinality(Units(Served', k)) \in Nat
  BY <1>1, <1>4, UnitsFinite
<1> QED
  BY <1>1, <1>4, <1>7, <1>8, <1>9

\* What is collected is covered by the visits served.
LEMMA CollectedStep ==
  ASSUME GroupTypeOK, SeenIsPaid, CollectedIsServed, [Group!Next]_(Group!vars)
  PROVE  CollectedIsServed'
<1> DEFINE m == Cardinality(Naira(Served))
           n == Cardinality(Naira(Served)')
<1>1. m <= n /\ m \in Nat /\ n \in Nat /\ collected \in Nat /\ Target \in Nat
  BY ServedStep, GroupAssumption DEF GroupTypeOK
<1>2. collected <= m /\ (gift = "funded" => m >= Target)
  BY DEF CollectedIsServed
<1>3. SUFFICES collected' <= n /\ (gift' = "funded" => n >= Target)
  BY DEF CollectedIsServed
<1>4. ASSUME NEW v \in Visits, Group!Confirm(v), Group!Listed(visit[v].of)
      PROVE  collected' <= n /\ (gift' = "funded" => n >= Target)
  <2>1. visit[v].pc = "success" /\ visit[v] \in Begun /\ charge[visit[v].of] = "paid"
    BY <1>4, VisitStages DEF Group!Confirm, SeenIsPaid
  <2>2. visit' = [visit EXCEPT ![v].pc = "done"] /\ charge' = charge
    BY <1>4 DEF Group!Confirm, Group!Leave
  <2>3. visit'[v].pc = "done" /\ visit'[v].of = visit[v].of
    BY <2>1, <2>2 DEF GroupTypeOK, Begun
  <2>4. v \notin Served /\ v \in Served'
    BY <2>1, <2>2, <2>3 DEF Served
  <2>5. m + Amount[visit[v].of] <= n
    BY <2>3, <2>4, ServedStep
  <2>6. Amount[visit[v].of] \in Nat
    BY <2>1, GroupAssumption DEF Begun
  <2>7. /\ collected' = collected + Amount[visit[v].of]
        /\ gift' = IF collected' >= Target THEN "funded" ELSE gift
    BY <1>4 DEF Group!Confirm
  <2> HIDE DEF m, n
  <2>8. collected' <= n /\ collected' \in Nat
    BY <1>1, <1>2, <2>5, <2>6, <2>7
  <2>9. CASE collected' >= Target
    BY <1>1, <2>8, <2>9
  <2>10. CASE ~(collected' >= Target)
    BY <1>1, <1>2, <2>7, <2>8, <2>10
  <2> QED
    BY <2>9, <2>10
<1>5. CASE gift' # "funded" /\ collected' = 0
  BY <1>1, <1>5
<1>6. CASE collected' = collected /\ (gift' = gift \/ gift' # "funded")
  <2> HIDE DEF m, n
  <2> QED
    BY <1>1, <1>2, <1>6
<1>7. \/ \E v \in Visits : Group!Confirm(v) /\ Group!Listed(visit[v].of)
      \/ gift' # "funded" /\ collected' = 0
      \/ collected' = collected /\ (gift' = gift \/ gift' # "funded")
  BY DEF Group!Next, Group!vars, Group!Create, Group!DeadlinePasses, Group!Restart,
     Group!Contribute, Group!OpenCharge, Group!Pay, Group!Serve, Group!Confirm, Group!Fail,
     Group!Visit, Group!VisitThrows
<1> QED
  BY <1>4, <1>5, <1>6, <1>7

\* The invariant of group gifts holds in every reachable state.
LEMMA GroupInductive == Group!Spec => []GroupInv
<1>1. ASSUME Group!Init PROVE GroupInv
  <2>1. GroupTypeOK
    BY <1>1 DEF Group!Init, GroupTypeOK
  <2>2. SeenIsPaid /\ Served = {}
    BY <1>1 DEF Group!Init, SeenIsPaid, Served
  <2>3. Naira(Served) = {}
    BY <2>2 DEF Naira
  <2>4. Cardinality(Naira(Served)) = 0
    BY <2>3, FS_EmptySet
  <2>5. collected = 0 /\ gift # "funded"
    BY <1>1 DEF Group!Init
  <2>6. CollectedIsServed
    BY <2>4, <2>5 DEF CollectedIsServed
  <2> QED
    BY <2>1, <2>2, <2>6 DEF GroupInv
<1>2. GroupInv /\ [Group!Next]_(Group!vars) => GroupInv'
  BY GroupTypeStep, SeenStep, CollectedStep DEF GroupInv
<1> QED
  BY <1>1, <1>2, PTL DEF Group!Spec

\* Every variable of a group gift keeps its type.
THEOREM GroupTypes == Group!Spec => []GroupTypeOK
<1>1. GroupInv => GroupTypeOK
  BY DEF GroupInv
<1> QED
  BY <1>1, GroupInductive, PTL

\* A group gift says it collected, and is funded with, no more than the visits of
\* pages whose payment was made stand for: what is declined, pending or answered
\* late adds nothing.
THEOREM CollectedWasPaid == Group!Spec => []CollectedIsPaid
<1>1. GroupInv => CollectedIsPaid
  <2> SUFFICES ASSUME GroupInv PROVE CollectedIsPaid
    OBVIOUS
  <2> DEFINE m == Cardinality(Naira(Served))
             n == Cardinality(Naira(PaidVisits))
  <2>1. m \in Nat /\ n \in Nat /\ m <= n /\ collected \in Nat /\ Target \in Nat
    BY ServedIsCounted, GroupAssumption DEF GroupInv, GroupTypeOK
  <2>2. collected <= m /\ (gift = "funded" => m >= Target)
    BY DEF GroupInv, CollectedIsServed
  <2>3. collected <= n /\ (gift = "funded" => n >= Target)
    <3> HIDE DEF m, n
    <3> QED
      BY <2>1, <2>2
  <2> QED
    BY <2>3 DEF CollectedIsPaid
<1> QED
  BY <1>1, GroupInductive, PTL

\* No deadline and no late answer takes a funded gift back: only a restart, which
\* loses it, does.
THEOREM FundedForGood == Group!Spec => FundedStaysFunded
<1>1. [Group!Next]_(Group!vars) => [gift = "funded" => gift' \in {"funded", "lost"}]_gift
  BY DEF Group!Next, Group!vars, Group!Create, Group!DeadlinePasses, Group!Restart,
     Group!Contribute, Group!OpenCharge, Group!Pay, Group!Serve, Group!Confirm, Group!Fail,
     Group!Visit, Group!VisitThrows
<1> QED
  BY <1>1, PTL DEF Group!Spec, FundedStaysFunded
=============================================================================
