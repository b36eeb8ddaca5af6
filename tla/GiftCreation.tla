---------------------------- MODULE GiftCreation ----------------------------
(***************************************************************************)
(* The daily sending limit of createGift, src/server/services/             *)
(* gift.service.ts: the gifts a sender made today are summed up before the *)
(* exchange rate and the phone check are awaited, and the new gift enters  *)
(* the store after.  Requests of one sender can overlap in between, and a  *)
(* gift that leaves the Map is no longer in the sum.                       *)
(***************************************************************************)
EXTENDS Integers, FiniteSets

CONSTANTS Senders,
          Requests,   \* requests the server works on at a time
          MinAmount, MaxAmount,  \* amounts the request schema accepts
          DailyLimit  \* giftLimits.dailyLimitNgn

ASSUME CreationAssumption ==
  /\ IsFiniteSet(Requests) /\ Requests # {}
  /\ MinAmount \in Nat \ {0} /\ MaxAmount \in Nat /\ DailyLimit \in Nat

VARIABLES givenToday,  \* what the gifts in the Map that a sender created today sum up to
          request      \* requests that have passed their check

vars == <<givenToday, request>>

Amounts == MinAmount..MaxAmount
Idle == [pc |-> "idle"]

Init ==
  /\ givenToday = [s \in Senders |-> 0]
  /\ request = [r \in Requests |-> Idle]

\* Mutant: only what was given before is compared with the limit.
WithinLimit_Before(s, n) == givenToday[s] <= DailyLimit

\* Cancelled and softly deleted gifts, and those whose payment page failed, count too.
WithinLimit(s, n) == givenToday[s] + n <= DailyLimit

Check(r, s, n) ==
  /\ request[r] = Idle /\ WithinLimit(s, n)
  /\ request' = [request EXCEPT ![r] = [pc |-> "insert", sender |-> s, amount |-> n]]
  /\ UNCHANGED givenToday

\* The exchange rate, or the phone check, fails: no gift.
GiveUp(r) ==
  /\ request[r].pc = "insert" /\ request' = [request EXCEPT ![r] = Idle]
  /\ UNCHANGED givenToday

Insert(r) ==
  /\ request[r].pc = "insert" /\ request' = [request EXCEPT ![r].pc = "open"]
  /\ givenToday' = [givenToday EXCEPT ![request[r].sender] = @ + request[r].amount]

\* The fraud check, the rate lock, the audit log and initializePayment follow;
\* the gift stays whether or not one of them throws.
Open(r) ==
  /\ request[r].pc = "open" /\ request' = [request EXCEPT ![r] = Idle]
  /\ UNCHANGED givenToday

\* Midnight: todayStart moves past every gift there is.
NewDay ==
  /\ givenToday' = [s \in Senders |-> 0]
  /\ UNCHANGED request

\* An administrator's hard delete takes a gift out of the Map.  The sum does not
\* tell what it consists of: any amount the schema accepts may have been in it.
HardDelete(s, n) ==
  /\ n <= givenToday[s] /\ givenToday' = [givenToday EXCEPT ![s] = @ - n]
  /\ UNCHANGED request

\* The server restarts with an empty Map, and its requests are over.
Restart ==
  /\ givenToday' = [s \in Senders |-> 0]
  /\ request' = [r \in Requests |-> Idle]

Next ==
  \/ \E r \in Requests : \/ GiveUp(r) \/ Insert(r) \/ Open(r)
                         \/ \E s \in Senders, n \in Amounts : Check(r, s, n)
  \/ \E s \in Senders, n \in Amounts : HardDelete(s, n)
  \/ NewDay \/ Restart

Spec == Init /\ [][Next]_vars

-----------------------------------------------------------------------------
TypeOK ==
  /\ givenToday \in [Senders -> Nat]
  /\ request \in [Requests ->
       {Idle} \cup [pc : {"insert", "open"}, sender : Senders, amount : Amounts]]

\* What overlapping requests can add to the limit is bounded: all of them but
\* one, with the largest gift each.  This is about the gifts in the Map: a restart
\* or a hard delete frees the limit for the rest of the day, and with them a sender
\* can have given more than this.
OvershootBounded ==
  \A s \in Senders : givenToday[s] <= DailyLimit + (Cardinality(Requests) - 1) * MaxAmount
=============================================================================
