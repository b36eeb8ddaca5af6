---------------------------- MODULE AccountProofs ----------------------------
(***************************************************************************)
(* Theorems about the ways into an account: one-time passwords (Otp), and  *)
(* registration, invitations and deletion (Registration, here as Invite),  *)
(* for any number of requests, codes, attempts, gifts, phones and crashes. *)
(*                                                                         *)
(* The argument about passwords: every call of Redis moves what it counts  *)
(* from one place to another, and the sums stay.  A guess that was         *)
(* compared, or is about to be, is in the present count of attempts or in  *)
(* one that was dropped; a strike stands for MAX_ATTEMPTS attempts from    *)
(* the moment its verifier has counted the last of them, and what was      *)
(* counted is compared, about to be, or died with its request; and a       *)
(* request that can still accept a code has read it before it was deleted. *)
(*                                                                         *)
(* The argument about invitations: a phone is one account until it is      *)
(* deleted, so the request that registered with a token is the only one    *)
(* that will accept its invitation, and until it does so nobody can claim  *)
(* with it.                                                                *)
(***************************************************************************)
EXTENDS Otp, RegistrationState, TLAPS, FiniteSetTheorems

Invite == INSTANCE Registration

\* The attempts of the present count that may be compared.
Present == IF attempts < MAX_ATTEMPTS THEN attempts ELSE MAX_ATTEMPTS
GuessesCounted == guesses + Cardinality(Counted) <= MAX_ATTEMPTS * renewed + Present

\* Verifiers that have the last attempt of a count, whose strike is yet to be
\* counted, and the attempts all strikes stand for.  An unfinished count of attempts
\* is not part of any strike.
Last(v) == verifier[v].pc \in {"ttl", "compare"} /\ verifier[v].n = MAX_ATTEMPTS
Strikers == {v \in Verifiers : \/ Last(v)
                               \/ verifier[v].pc = "expire" /\ MAX_ATTEMPTS = 1
                               \/ verifier[v].pc \in {"strike", "count"}}
Unstruck == IF attempts < MAX_ATTEMPTS THEN attempts ELSE 0
Tallied == guesses + Cardinality(Counted) + crashes
StrikesPaid == Tallied >= MAX_ATTEMPTS * (failures + Cardinality(Strikers)) + Unstruck
Locking == {v \in Verifiers : \/ verifier[v].pc \in {"clear", "lock"}
                              \/ verifier[v].pc = "term" /\ MAX_SESSION_FAILURES = 1}
LocksPaid == lock \/ Locking # {} => Tallied >= MAX_ATTEMPTS * MAX_SESSION_FAILURES

\* While a code is there, who accepted it is about to delete it or has died; once
\* it is gone, nobody but who had read it before can accept it.
Spenders == {v \in Verifiers : verifier[v].pc = "spend"}
Reading == {"incr", "ttl", "expire", "compare"}
Holders(c) == {v \in Verifiers : verifier[v].pc \in Reading /\ verifier[v].code = c}
AcceptedOnce ==
  \A c \in Codes :
    /\ accepted[c] + Cardinality(Holders(c)) <= Cardinality(Verifiers) + crashes
    /\ otp = c => accepted[c] <= Cardinality(Spenders) + crashes
    /\ c > issued => accepted[c] = 0
HeldWereIssued == \A v \in Verifiers : verifier[v].pc \in Reading => verifier[v].code <= issued

SpendInv == TypeOK /\ HeldWereIssued /\ AcceptedOnce

-----------------------------------------------------------------------------
\* What a verifier may be, and what stays of it from one call to the next.
Stages == {"get", "drop", "strike", "count", "term", "clear", "lock", "spend", "forget", "forgive"}
Shapes == {Idle} \cup [pc : {"incr"}, code : Codes]
            \cup [pc : {"ttl", "compare"}, code : Codes, n : 1..MAX_ATTEMPTS]
            \cup [pc : {"expire"}, code : Codes, ttl : Codes]
            \cup [pc : Stages]

LEMMA GotoType ==
  ASSUME TypeOK, NEW v \in Verifiers, NEW pc \in Stages, Goto(v, pc) \/ Answer(v)
  PROVE  /\ verifier' \in [Verifiers -> Shapes]
         /\ \A w \in Verifiers \ {v} : verifier'[w] = verifier[w]
         /\ Goto(v, pc) => verifier'[v].pc = pc
         /\ Answer(v) => verifier'[v].pc = "idle"
BY DEF TypeOK, Goto, Answer, Stages, Shapes, Idle

\* A verifier that has read a code keeps it on its way to the comparison.
LEMMA WithType ==
  ASSUME TypeOK, NEW v \in Verifiers, NEW pc \in {"ttl", "compare"}, NEW n \in 1..MAX_ATTEMPTS,
         verifier[v].pc \in {"incr", "ttl", "expire"}, With(v, pc, n)
  PROVE  /\ verifier' \in [Verifiers -> Shapes] /\ verifier[v].code \in Codes
         /\ \A w \in Verifiers \ {v} : verifier'[w] = verifier[w]
         /\ verifier'[v] = [pc |-> pc, code |-> verifier[v].code, n |-> n]
<1>1. verifier[v].code \in Codes /\ verifier \in [Verifiers -> Shapes]
  BY DEF TypeOK, Stages, Shapes, Idle
<1>2. verifier' = [verifier EXCEPT ![v] = [pc |-> pc, code |-> verifier[v].code, n |-> n]]
  BY DEF With
<1>3. [pc |-> pc, code |-> verifier[v].code, n |-> n] \in Shapes
  BY <1>1 DEF Shapes
<1> QED
  BY <1>1, <1>2, <1>3

\* One call of a verifier, up to the comparison: what it reads and what it carries.
LEMMA IncrMoves ==
  ASSUME TypeOK, NEW v \in Verifiers, VerifyIncr(v)
  PROVE  /\ verifier' \in [Verifiers -> Shapes] /\ verifier[v].pc = "incr"
         /\ \A w \in Verifiers \ {v} : verifier'[w] = verifier[w]
         /\ attempts' = attempts + 1 /\ UNCHANGED <<otp, until, failures, failuresEnd, lock>>
         /\ UNCHANGED <<sends, window, sender, issued, guesses, accepted, renewed, crashes>>
         /\ \/ attempts + 1 > MAX_ATTEMPTS /\ verifier'[v].pc = "drop"
            \/ /\ attempts + 1 <= MAX_ATTEMPTS /\ verifier'[v].pc \in {"ttl", "compare"}
               /\ verifier'[v].code = verifier[v].code /\ verifier'[v].n = attempts + 1
<1>1. /\ attempts \in Nat /\ MAX_ATTEMPTS \in Nat \ {0} /\ verifier[v].pc = "incr"
  BY OtpAssumption DEF TypeOK, VerifyIncr, At
<1>2. CASE attempts + 1 <= MAX_ATTEMPTS
  <2>1. attempts + 1 \in 1..MAX_ATTEMPTS
    BY <1>1, <1>2
  <2>2. PICK pc \in {"ttl", "compare"} : With(v, pc, attempts + 1)
    BY <1>1, <1>2 DEF VerifyIncr
  <2>3. /\ verifier' \in [Verifiers -> Shapes]
        /\ \A w \in Verifiers \ {v} : verifier'[w] = verifier[w]
        /\ verifier'[v] = [pc |-> pc, code |-> verifier[v].code, n |-> attempts + 1]
    BY <1>1, <2>1, <2>2, WithType
  <2> QED
    BY <1>1, <1>2, <2>3 DEF VerifyIncr, failureVars, limitVars, history
<1>3. CASE ~(attempts + 1 <= MAX_ATTEMPTS)
  <2>1. Goto(v, "drop")
    BY <1>1, <1>3 DEF VerifyIncr
  <2>2. /\ verifier' \in [Verifiers -> Shapes] /\ verifier'[v].pc = "drop"
        /\ \A w \in Verifiers \ {v} : verifier'[w] = verifier[w]
    BY <2>1, GotoType DEF Stages
  <2> QED
    BY <1>1, <1>3, <2>2 DEF VerifyIncr, failureVars, limitVars, history
<1> QED
  BY <1>2, <1>3

\* The first attempt of a count gives it an expiry.
Aging(v) == VerifyTtl(v) \/ VerifyExpire(v)

LEMMA AgingMoves ==
  ASSUME TypeOK, NEW v \in Verifiers, Aging(v)
  PROVE  /\ verifier' \in [Verifiers -> Shapes] /\ verifier[v].pc \in {"ttl", "expire"}
         /\ \A w \in Verifiers \ {v} : verifier'[w] = verifier[w]
         /\ verifier'[v].code = verifier[v].code
         /\ \/ verifier[v].pc = "ttl" /\ verifier'[v].pc = "expire"
            \/ verifier'[v].pc = "compare" /\ verifier'[v].n = 1
         /\ until' \in 0..MaxCodes /\ UNCHANGED <<otp, attempts, failures, failuresEnd, lock>>
         /\ UNCHANGED <<sends, window, sender, issued, guesses, accepted, renewed, crashes>>
<1>1. /\ 1 \in 1..MAX_ATTEMPTS /\ verifier \in [Verifiers -> Shapes] /\ until \in 0..MaxCodes
      /\ otp \in 0..MaxCodes
  BY OtpAssumption DEF TypeOK, Shapes, Stages
<1>2. CASE VerifyTtl(v) /\ otp # 0
  <2>1. verifier[v].pc = "ttl" /\ verifier[v].code \in Codes /\ otp \in Codes
    BY <1>1, <1>2 DEF VerifyTtl, At, Shapes, Idle, Stages, Codes
  <2>2. verifier' = [verifier EXCEPT ![v] = [pc |-> "expire", code |-> verifier[v].code, ttl |-> otp]]
    BY <1>2 DEF VerifyTtl
  <2>3. [pc |-> "expire", code |-> verifier[v].code, ttl |-> otp] \in Shapes
    BY <2>1 DEF Shapes
  <2> QED
    BY <1>1, <1>2, <2>1, <2>2, <2>3
       DEF VerifyTtl, keys, attemptVars, failureVars, limitVars, history
<1>3. CASE (VerifyTtl(v) /\ otp = 0) \/ VerifyExpire(v)
  <2>1. verifier[v].pc \in {"ttl", "expire"} /\ With(v, "compare", 1)
    BY <1>3 DEF VerifyTtl, VerifyExpire, At
  <2>2. /\ verifier' \in [Verifiers -> Shapes]
        /\ \A w \in Verifiers \ {v} : verifier'[w] = verifier[w]
        /\ verifier'[v] = [pc |-> "compare", code |-> verifier[v].code, n |-> 1]
    BY <1>1, <2>1, WithType
  <2>3. until' \in 0..MaxCodes
    <3>1. VerifyExpire(v) => verifier[v].ttl \in 1..MaxCodes
      BY <1>1 DEF VerifyExpire, At, Shapes, Idle, Stages, Codes
    <3> QED
      BY <1>1, <1>3, <3>1, OtpAssumption DEF VerifyTtl, VerifyExpire, keys, attemptVars
  <2> QED
    BY <1>3, <2>1, <2>2, <2>3
       DEF VerifyTtl, VerifyExpire, keys, attemptVars, failureVars, limitVars, history
<1> QED
  BY <1>2, <1>3 DEF Aging

LEMMA CompareMoves ==
  ASSUME TypeOK, NEW v \in Verifiers, VerifyCompare(v)
  PROVE  /\ verifier' \in [Verifiers -> Shapes] /\ verifier[v].pc = "compare"
         /\ verifier[v].code \in Codes
         /\ \A w \in Verifiers \ {v} : verifier'[w] = verifier[w]
         /\ guesses' = guesses + 1
         /\ \/ /\ verifier'[v].pc = "spend"
               /\ accepted' = [accepted EXCEPT ![verifier[v].code] = @ + 1]
            \/ Last(v) /\ verifier'[v].pc = "strike" /\ accepted' = accepted
            \/ verifier'[v].pc = "idle" /\ accepted' = accepted
         /\ UNCHANGED <<otp, attempts, until, failures, failuresEnd, lock>>
         /\ UNCHANGED <<sends, window, sender, issued, renewed, crashes>>
<1>1. verifier[v].pc = "compare" /\ verifier[v].code \in Codes
  BY DEF VerifyCompare, At, TypeOK, Idle
<1>2. CASE Goto(v, "spend") /\ accepted' = [accepted EXCEPT ![verifier[v].code] = @ + 1]
  BY <1>1, <1>2, GotoType DEF VerifyCompare, Stages, keys, attemptVars, failureVars, limitVars
<1>3. CASE verifier[v].n = MAX_ATTEMPTS /\ Goto(v, "strike") /\ UNCHANGED accepted
  BY <1>1, <1>3, GotoType DEF VerifyCompare, Last, Stages, keys, attemptVars, failureVars, limitVars
<1>4. CASE Answer(v) /\ UNCHANGED accepted
  <2>1. "get" \in Stages
    BY DEF Stages
  <2> QED
    BY <1>1, <1>4, <2>1, GotoType DEF VerifyCompare, keys, attemptVars, failureVars, limitVars
<1> QED
  BY <1>2, <1>3, <1>4 DEF VerifyCompare

LEMMA GetMoves ==
  ASSUME TypeOK, NEW v \in Verifiers, VerifyGet(v)
  PROVE  /\ verifier' \in [Verifiers -> Shapes] /\ verifier[v].pc = "get"
         /\ \A w \in Verifiers \ {v} : verifier'[w] = verifier[w]
         /\ \/ otp # 0 /\ verifier'[v] = [pc |-> "incr", code |-> otp]
            \/ otp = 0 /\ verifier'[v].pc = "idle"
         /\ UNCHANGED <<keys, limitVars, sender, history, crashes>>
<1>1. otp \in 0..MaxCodes /\ verifier \in [Verifiers -> Shapes]
  BY OtpAssumption DEF TypeOK, Shapes, Stages
<1>2. otp # 0 => [pc |-> "incr", code |-> otp] \in Shapes
  BY <1>1 DEF Shapes, Codes
<1> QED
  BY <1>1, <1>2 DEF VerifyGet, At, Answer, Idle, Shapes

\* The other calls: from the answer to the deletions.
Ends(v) ==
  \/ VerifyBegin(v) \/ VerifyDrop(v) \/ VerifyStrike(v) \/ VerifyCount(v) \/ VerifyTerm(v)
  \/ VerifyClear(v) \/ VerifyLock(v) \/ VerifySpend(v) \/ VerifyForget(v) \/ VerifyForgive(v)

LEMMA EndMoves ==
  ASSUME TypeOK, NEW v \in Verifiers, Ends(v)
  PROVE  /\ verifier' \in [Verifiers -> Shapes]
         /\ \A w \in Verifiers \ {v} : verifier'[w] = verifier[w]
         /\ verifier[v].pc \in Stages \cup {"idle"} /\ verifier'[v].pc \in Stages \cup {"idle"}
         /\ verifier'[v].pc \in {"strike", "count"} => VerifyStrike(v)
         /\ otp' = 0 \/ (otp' = otp /\ verifier[v].pc # "spend")
         /\ failures' \in {failures, 0} \/ VerifyCount(v)
         /\ verifier'[v].pc \in {"clear", "lock", "term"} \/ lock' # lock =>
              VerifyCount(v) \/ VerifyTerm(v) \/ VerifyClear(v) \/ VerifyLock(v)
         /\ (UNCHANGED <<attempts, until, renewed>> \/ DropAttempts)
         /\ UNCHANGED <<sends, window, sender, issued, guesses, accepted, crashes>>
<1>1. \E pc \in Stages : Goto(v, pc) \/ Answer(v)
  BY DEF Ends, VerifyBegin, VerifyDrop, VerifyStrike, VerifyCount, VerifyTerm, VerifyClear,
         VerifyLock, VerifySpend, VerifyForget, VerifyForgive, Stages
<1>2. /\ verifier' \in [Verifiers -> Shapes]
      /\ \A w \in Verifiers \ {v} : verifier'[w] = verifier[w]
      /\ verifier'[v].pc \in Stages \cup {"idle"}
  BY <1>1, GotoType
<1>3. verifier[v].pc \in Stages \cup {"idle"}
  BY DEF Ends, VerifyBegin, VerifyDrop, VerifyStrike, VerifyCount, VerifyTerm, VerifyClear,
         VerifyLock, VerifySpend, VerifyForget, VerifyForgive, At, Idle, Stages
<1>4. /\ verifier'[v].pc \in {"strike", "count"} => VerifyStrike(v)
      /\ verifier'[v].pc \in {"clear", "lock", "term"} \/ lock' # lock =>
              VerifyCount(v) \/ VerifyTerm(v) \/ VerifyClear(v) \/ VerifyLock(v)
  BY DEF Ends, VerifyBegin, VerifyDrop, VerifyStrike, VerifyCount, VerifyTerm, VerifyClear,
         VerifyLock, VerifySpend, VerifyForget, VerifyForgive, Goto, Answer, Idle, TypeOK, keys
<1>5. /\ otp' = 0 \/ (otp' = otp /\ verifier[v].pc # "spend")
      /\ failures' \in {failures, 0} \/ VerifyCount(v)
  BY DEF Ends, VerifyBegin, VerifyDrop, VerifyStrike, VerifyCount, VerifyTerm, VerifyClear,
         VerifyLock, VerifySpend, VerifyForget, VerifyForgive, At, Idle, keys, failureVars
<1>6. /\ (UNCHANGED <<attempts, until, renewed>> \/ DropAttempts)
      /\ UNCHANGED <<sends, window, sender, issued, guesses, accepted, crashes>>
  BY DEF Ends, VerifyBegin, VerifyDrop, VerifyStrike, VerifyCount, VerifyTerm, VerifyClear,
         VerifyLock, VerifySpend, VerifyForget, VerifyForgive, keys, attemptVars, limitVars, history
<1> QED
  BY <1>2, <1>3, <1>4, <1>5, <1>6

LEMMA VerifyCases ==
  ASSUME NEW v \in Verifiers, Verify(v)
  PROVE  VerifyIncr(v) \/ Aging(v) \/ VerifyCompare(v) \/ VerifyGet(v) \/ Ends(v)
BY DEF Verify, Aging, Ends

LEMMA SenderType ==
  ASSUME TypeOK, NEW s \in Senders, Send(s)
  PROVE  TypeOK'
<1>1. CASE SendCount(s)
  BY <1>1 DEF SendCount, TypeOK, keys, attemptVars, failureVars, history
<1>2. CASE SendExpire(s)
  BY <1>2 DEF SendExpire, TypeOK, keys, attemptVars, failureVars, history
<1>3. CASE SendSet(s)
  <2>1. issued' = issued + 1 /\ issued' \in 0..MaxCodes /\ otp' \in 0..issued'
    BY <1>3, OtpAssumption DEF SendSet, TypeOK
  <2> QED
    BY <1>3, <2>1 DEF SendSet, TypeOK, limitVars, attemptVars, failureVars
<1>4. CASE SendReset(s)
  BY <1>4, OtpAssumption DEF SendReset, DropAttempts, TypeOK, limitVars, failureVars
<1> QED
  BY <1>1, <1>2, <1>3, <1>4 DEF Send

LEMMA VerifierType ==
  ASSUME TypeOK, NEW v \in Verifiers, Verify(v)
  PROVE  TypeOK'
<1> USE DEF Shapes, Stages
<1>1. CASE VerifyIncr(v)
  BY <1>1, IncrMoves DEF TypeOK
<1>2. CASE Aging(v)
  BY <1>2, AgingMoves DEF TypeOK
<1>3. CASE VerifyCompare(v)
  <2>1. accepted' \in [Codes -> Nat]
    BY <1>3, CompareMoves DEF TypeOK
  <2> QED
    BY <1>3, <2>1, CompareMoves DEF TypeOK
<1>4. CASE VerifyGet(v)
  BY <1>4, GetMoves DEF TypeOK, keys, attemptVars, failureVars, limitVars, history
<1>5. CASE Ends(v)
  <2>1. /\ verifier' \in [Verifiers -> Shapes]
        /\ otp' \in {otp, 0} /\ UNCHANGED <<sends, window, sender, issued, guesses, accepted, crashes>>
        /\ (UNCHANGED <<attempts, until, renewed>> \/ DropAttempts)
    BY <1>5, EndMoves
  <2>2. attempts' \in Nat /\ until' \in 0..MaxCodes /\ renewed' \in Nat
    BY <2>1, OtpAssumption DEF DropAttempts, TypeOK
  <2>3. failures' \in Nat
    BY <1>5, EndMoves DEF VerifyCount, TypeOK
  <2>4. lock' \in BOOLEAN
    <3>1. lock' = lock \/ lock' = TRUE
      BY <1>5 DEF Ends, VerifyBegin, VerifyDrop, VerifyStrike, VerifyCount, VerifyTerm, VerifyClear,
         VerifyLock, VerifySpend, VerifyForget, VerifyForgive, keys
    <3> QED
      BY <3>1 DEF TypeOK
  <2>5. failuresEnd' \in BOOLEAN
    <3>1. CASE VerifyTerm(v)
      BY <3>1 DEF VerifyTerm
    <3>2. CASE ~VerifyTerm(v)
      <4>1. failuresEnd' = failuresEnd \/ failuresEnd' = FALSE
        BY <1>5, <3>2 DEF Ends, VerifyBegin, VerifyDrop, VerifyStrike, VerifyCount, VerifyClear,
           VerifyLock, VerifySpend, VerifyForget, VerifyForgive, keys, failureVars
      <4> QED
        BY <4>1 DEF TypeOK
    <3> QED
      BY <3>1, <3>2
  <2>6. otp' \in 0..issued'
    BY <2>1 DEF TypeOK
  <2> QED
    BY <2>1, <2>2, <2>3, <2>4, <2>5, <2>6 DEF TypeOK
<1> QED
  BY <1>1, <1>2, <1>3, <1>4, <1>5, VerifyCases

LEMMA InitTypeOK == Init => TypeOK
<1> SUFFICES ASSUME Init PROVE TypeOK
  OBVIOUS
<1>1. 0 \in 0..MaxCodes /\ 0 \in 0..MaxCrashes
  BY OtpAssumption
<1>2. lock \in BOOLEAN /\ window \in BOOLEAN /\ failuresEnd \in BOOLEAN
  BY DEF Init
<1>3. 0 \in 0..issued /\ 0 \in Nat
  BY DEF Init
<1> QED
  BY <1>1, <1>2, <1>3 DEF Init, TypeOK

LEMMA NextTypeOK ==
  ASSUME TypeOK, [Next]_vars
  PROVE  TypeOK'
<1>1. CASE KeysExpire
  <2>1. UNCHANGED <<sender, verifier, issued, guesses, accepted, crashes>>
    BY <1>1 DEF KeysExpire
  <2>2. /\ otp' \in 0..issued /\ until' \in 0..MaxCodes /\ attempts' \in Nat /\ renewed' \in Nat
        /\ failures' \in Nat /\ sends' \in Nat
    BY <1>1, OtpAssumption
       DEF KeysExpire, DropAttempts, TypeOK, keys, attemptVars, failureVars, limitVars
  <2>3. lock' \in BOOLEAN /\ window' \in BOOLEAN /\ failuresEnd' \in BOOLEAN
    BY <1>1 DEF KeysExpire, TypeOK, keys, failureVars, limitVars
  <2> QED
    BY <2>1, <2>2, <2>3 DEF TypeOK
<1>2. CASE Crash
  <2>1. crashes' \in 0..MaxCrashes
    BY <1>2, OtpAssumption DEF Crash, TypeOK
  <2> QED
    BY <1>2, <2>1 DEF Crash, Answer, TypeOK, keys, attemptVars, failureVars, limitVars, history
<1>3. CASE UNCHANGED vars
  BY <1>3 DEF vars, TypeOK, keys, attemptVars, failureVars, limitVars, history
<1> QED
  BY <1>1, <1>2, <1>3, SenderType, VerifierType DEF Next

\* Every variable of the passwords keeps its type, whatever overlaps or dies: in
\* particular a code that is compared is one that was issued.
THEOREM PasswordTypes == Spec => []TypeOK
BY InitTypeOK, NextTypeOK, PTL DEF Spec

-----------------------------------------------------------------------------
\* Verifiers are finitely many, those at a stage too.
LEMMA StagesAreFinite ==
  /\ IsFiniteSet(Counted) /\ Cardinality(Counted) \in Nat
  /\ IsFiniteSet(Counted') /\ Cardinality(Counted') \in Nat
  /\ IsFiniteSet(Strikers) /\ Cardinality(Strikers) \in Nat
  /\ IsFiniteSet(Strikers') /\ Cardinality(Strikers') \in Nat
BY OtpAssumption, FS_Subset, FS_CardinalityType DEF Counted, Strikers

\* What a step does to the attempts and the guesses: one call counts an attempt,
\* one compares it, a crash may keep one from being compared, and the others leave
\* both as they are or drop the count.
LEMMA CountSteps ==
  ASSUME TypeOK, [Next]_vars
  PROVE  \/ /\ \E v \in Verifiers : VerifyIncr(v)
            /\ attempts' = attempts + 1 /\ UNCHANGED <<guesses, crashes, renewed>>
            /\ \/ attempts + 1 > MAX_ATTEMPTS /\ Counted' = Counted
               \/ /\ attempts + 1 <= MAX_ATTEMPTS
                  /\ \E v \in Verifiers \ Counted : Counted' = Counted \cup {v}
         \/ /\ guesses' = guesses + 1 /\ \E v \in Counted : Counted' = Counted \ {v}
            /\ UNCHANGED <<attempts, renewed, crashes>>
         \/ /\ crashes' = crashes + 1 /\ UNCHANGED <<guesses, attempts, renewed>>
            /\ Counted' \subseteq Counted /\ \E v : Counted \ {v} \subseteq Counted'
         \/ /\ UNCHANGED <<guesses, crashes>> /\ Counted' = Counted
            /\ DropAttempts \/ UNCHANGED <<attempts, renewed>>
<1> DEFINE Rest == /\ UNCHANGED <<guesses, crashes>> /\ Counted' = Counted
                   /\ DropAttempts \/ UNCHANGED <<attempts, renewed>>
<1>1. ASSUME NEW s \in Senders, Send(s) PROVE Rest
  BY <1>1 DEF Send, SendCount, SendExpire, SendSet, SendReset, Counted, keys, attemptVars, history
<1>2. ASSUME NEW v \in Verifiers, VerifyIncr(v)
      PROVE  /\ attempts' = attempts + 1 /\ UNCHANGED <<guesses, crashes, renewed>>
             /\ \/ attempts + 1 > MAX_ATTEMPTS /\ Counted' = Counted
                \/ attempts + 1 <= MAX_ATTEMPTS /\ v \notin Counted /\ Counted' = Counted \cup {v}
  BY <1>2, IncrMoves DEF Counted
<1>3. ASSUME NEW v \in Verifiers, Aging(v) PROVE Rest
  <2>1. /\ \A w \in Verifiers \ {v} : verifier'[w] = verifier[w]
        /\ verifier[v].pc \in {"ttl", "expire"} /\ verifier'[v].pc \in {"expire", "compare"}
        /\ UNCHANGED <<guesses, crashes, attempts, renewed>>
    BY <1>3, AgingMoves
  <2> QED
    BY <2>1 DEF Counted
<1>4. ASSUME NEW v \in Verifiers, VerifyCompare(v)
      PROVE  /\ guesses' = guesses + 1 /\ v \in Counted /\ Counted' = Counted \ {v}
             /\ UNCHANGED <<attempts, renewed, crashes>>
  <2>1. /\ verifier[v].pc = "compare" /\ verifier'[v].pc \in {"spend", "strike", "idle"}
        /\ \A w \in Verifiers \ {v} : verifier'[w] = verifier[w]
        /\ guesses' = guesses + 1 /\ UNCHANGED <<attempts, renewed, crashes>>
    BY <1>4, CompareMoves
  <2> QED
    BY <2>1 DEF Counted
<1>5. ASSUME NEW v \in Verifiers, VerifyGet(v) PROVE Rest
  <2>1. /\ \A w \in Verifiers \ {v} : verifier'[w] = verifier[w]
        /\ verifier[v].pc = "get" /\ verifier'[v].pc \in {"incr", "idle"}
        /\ UNCHANGED <<guesses, crashes, attempts, renewed>>
    BY <1>5, GetMoves DEF keys, attemptVars, history
  <2> QED
    BY <2>1 DEF Counted
<1>6. ASSUME NEW v \in Verifiers, Ends(v) PROVE Rest
  <2>1. /\ \A w \in Verifiers \ {v} : verifier'[w] = verifier[w]
        /\ verifier[v].pc \in Stages \cup {"idle"} /\ verifier'[v].pc \in Stages \cup {"idle"}
        /\ UNCHANGED <<guesses, crashes>> /\ (DropAttempts \/ UNCHANGED <<attempts, renewed>>)
    BY <1>6, EndMoves
  <2> QED
    BY <2>1 DEF Counted, Stages
<1>7. ASSUME KeysExpire PROVE Rest
  BY <1>7 DEF KeysExpire, Counted, keys, attemptVars
<1>8. ASSUME Crash
      PROVE  /\ crashes' = crashes + 1 /\ UNCHANGED <<guesses, attempts, renewed>>
             /\ Counted' \subseteq Counted /\ \E v : Counted \ {v} \subseteq Counted'
  <2>1. crashes' = crashes + 1 /\ UNCHANGED <<guesses, attempts, renewed>>
    BY <1>8 DEF Crash, keys, attemptVars, history
  <2>2. CASE UNCHANGED verifier
    BY <2>1, <2>2 DEF Counted
  <2>3. ASSUME NEW v \in Verifiers, Answer(v)
        PROVE  Counted' \subseteq Counted /\ Counted \ {v} \subseteq Counted'
    BY <2>3 DEF Answer, Idle, Counted, TypeOK
  <2> QED
    BY <1>8, <2>1, <2>2, <2>3 DEF Crash
<1>9. ASSUME UNCHANGED vars PROVE Rest
  BY <1>9 DEF vars, Counted, keys, attemptVars, history
<1> QED
  BY <1>1, <1>2, <1>3, <1>4, <1>5, <1>6, <1>7, <1>8, <1>9, VerifyCases DEF Next

\* The sums: guesses compared or about to be, and those with what crashes lost.
LEMMA SumSteps ==
  ASSUME TypeOK, [Next]_vars
  PROVE  /\ Tallied \in Nat /\ Tallied' \in Nat /\ Tallied <= Tallied'
         /\ guesses + Cardinality(Counted) \in Nat
         /\ \/ /\ \E v \in Verifiers : VerifyIncr(v)
               /\ attempts' = attempts + 1 /\ renewed' = renewed
               /\ attempts + 1 <= MAX_ATTEMPTS => Tallied' = Tallied + 1
               /\ guesses' + Cardinality(Counted') =
                    guesses + Cardinality(Counted) + IF attempts + 1 <= MAX_ATTEMPTS THEN 1 ELSE 0
            \/ /\ DropAttempts \/ UNCHANGED <<attempts, renewed>>
               /\ guesses' + Cardinality(Counted') <= guesses + Cardinality(Counted)
<1> DEFINE c == Cardinality(Counted)
           d == Cardinality(Counted')
<1>1. /\ guesses \in Nat /\ crashes \in Nat /\ c \in Nat /\ d \in Nat /\ IsFiniteSet(Counted)
      /\ IsFiniteSet(Counted') /\ attempts \in Nat /\ MAX_ATTEMPTS \in Nat
  BY StagesAreFinite, OtpAssumption DEF TypeOK
<1>2. ASSUME NEW v, v \notin Counted, Counted' = Counted \cup {v} PROVE d = c + 1
  BY <1>1, <1>2, FS_AddElement
<1>3. ASSUME NEW v, v \in Counted, Counted' = Counted \ {v} PROVE d = c - 1
  BY <1>1, <1>3, FS_RemoveElement
<1>4. ASSUME Counted' \subseteq Counted, NEW v, Counted \ {v} \subseteq Counted'
      PROVE  d <= c /\ c <= d + 1
  <2>1. d <= c
    BY <1>1, <1>4, FS_Subset
  <2>2. /\ IsFiniteSet(Counted \ {v}) /\ Cardinality(Counted \ {v}) \in {c - 1, c}
    BY <1>1, FS_RemoveElement
  <2>3. Cardinality(Counted \ {v}) <= d
    BY <1>1, <1>4, FS_Subset
  <2> QED
    BY <1>1, <2>1, <2>2, <2>3
<1> DEFINE Goal ==
      /\ Tallied \in Nat /\ Tallied' \in Nat /\ Tallied <= Tallied'
      /\ guesses + c \in Nat
      /\ \/ /\ \E v \in Verifiers : VerifyIncr(v)
            /\ attempts' = attempts + 1 /\ renewed' = renewed
            /\ attempts + 1 <= MAX_ATTEMPTS => Tallied' = Tallied + 1
            /\ guesses' + d = guesses + c + IF attempts + 1 <= MAX_ATTEMPTS THEN 1 ELSE 0
         \/ /\ DropAttempts \/ UNCHANGED <<attempts, renewed>>
            /\ guesses' + d <= guesses + c
<1>5. Tallied = guesses + c + crashes /\ Tallied' = guesses' + d + crashes'
  BY DEF Tallied
<1>6. ASSUME \E v \in Verifiers : VerifyIncr(v),
             attempts' = attempts + 1, UNCHANGED <<guesses, crashes, renewed>>,
             \/ attempts + 1 > MAX_ATTEMPTS /\ Counted' = Counted
             \/ /\ attempts + 1 <= MAX_ATTEMPTS
                /\ \E v \in Verifiers \ Counted : Counted' = Counted \cup {v}
      PROVE  Goal
  <2>1. d = c + IF attempts + 1 <= MAX_ATTEMPTS THEN 1 ELSE 0
    <3>1. CASE attempts + 1 <= MAX_ATTEMPTS
      BY <1>1, <1>2, <1>6, <3>1
    <3>2. CASE ~(attempts + 1 <= MAX_ATTEMPTS)
      BY <1>1, <1>6, <3>2
    <3> QED
      BY <3>1, <3>2
  <2> HIDE DEF c, d
  <2> QED
    BY <1>1, <1>5, <1>6, <2>1
<1>7. ASSUME guesses' = guesses + 1, \E v \in Counted : Counted' = Counted \ {v},
             UNCHANGED <<attempts, renewed, crashes>>
      PROVE  Goal
  <2>1. d = c - 1
    BY <1>3, <1>7
  <2> HIDE DEF c, d
  <2> QED
    BY <1>1, <1>5, <1>7, <2>1
<1>8. ASSUME crashes' = crashes + 1, UNCHANGED <<guesses, attempts, renewed>>,
             Counted' \subseteq Counted, \E v : Counted \ {v} \subseteq Counted'
      PROVE  Goal
  <2>1. d <= c /\ c <= d + 1
    BY <1>4, <1>8
  <2> HIDE DEF c, d
  <2> QED
    BY <1>1, <1>5, <1>8, <2>1
<1>9. ASSUME UNCHANGED <<guesses, crashes>>, Counted' = Counted,
             DropAttempts \/ UNCHANGED <<attempts, renewed>>
      PROVE  Goal
  <2>1. d = c
    BY <1>9
  <2> HIDE DEF c, d
  <2> QED
    BY <1>1, <1>5, <1>9, <2>1
<1> QED
  BY <1>6, <1>7, <1>8, <1>9, CountSteps

\* A guess is in the present count of attempts, or in one that was dropped.
LEMMA GuessStep ==
  ASSUME TypeOK, GuessesCounted, [Next]_vars
  PROVE  GuessesCounted'
<1> DEFINE M == MAX_ATTEMPTS
           g == guesses + Cardinality(Counted)
           h == guesses' + Cardinality(Counted')
<1>1. /\ M \in Nat \ {0} /\ attempts \in Nat /\ renewed \in Nat /\ g \in Nat /\ h \in Nat
  BY OtpAssumption, SumSteps, NextTypeOK, StagesAreFinite DEF TypeOK
<1>2. M * renewed \in Nat /\ M * (renewed + 1) = M * renewed + M
  BY <1>1
<1>3. /\ g <= M * renewed + Present
      /\ GuessesCounted' <=> h <= M * renewed' + Present'
      /\ Present = IF attempts < M THEN attempts ELSE M
      /\ Present' = IF attempts' < M THEN attempts' ELSE M
  BY DEF GuessesCounted, Present
<1>4. \/ /\ attempts' = attempts + 1 /\ renewed' = renewed
         /\ h = g + IF attempts + 1 <= M THEN 1 ELSE 0
      \/ (DropAttempts \/ UNCHANGED <<attempts, renewed>>) /\ h <= g
  BY SumSteps
<1> HIDE DEF M, g, h
<1>5. CASE /\ attempts' = attempts + 1 /\ renewed' = renewed
           /\ h = g + IF attempts + 1 <= M THEN 1 ELSE 0
  BY <1>1, <1>2, <1>3, <1>5
<1>6. CASE DropAttempts /\ h <= g
  <2>1. CASE attempts = 0
    BY <1>1, <1>2, <1>3, <1>6, <2>1 DEF DropAttempts
  <2>2. CASE attempts # 0
    <3>1. attempts' = 0 /\ renewed' = renewed + 1
      BY <1>6, <2>2 DEF DropAttempts
    <3> QED
      BY <1>1, <1>2, <1>3, <1>6, <3>1
  <2> QED
    BY <2>1, <2>2
<1>7. CASE UNCHANGED <<attempts, renewed>> /\ h <= g
  BY <1>1, <1>2, <1>3, <1>7
<1> QED
  BY <1>4, <1>5, <1>6, <1>7

\* Whatever overlaps, MAX_ATTEMPTS guesses are compared for each count of
\* attempts, however many requests, codes and crashes there are.
THEOREM GuessingIsBounded == Spec => []GuessBudget
<1>1. Init => GuessesCounted
  <2> SUFFICES ASSUME Init PROVE GuessesCounted
    OBVIOUS
  <2>1. Counted = {}
    BY DEF Init, Counted, Idle
  <2>2. Cardinality(Counted) = 0
    BY <2>1, FS_EmptySet
  <2> QED
    BY <2>2, OtpAssumption DEF Init, GuessesCounted, Present
<1>2. TypeOK /\ GuessesCounted => GuessBudget
  <2> SUFFICES ASSUME TypeOK, GuessesCounted PROVE GuessBudget
    OBVIOUS
  <2>1. /\ MAX_ATTEMPTS \in Nat /\ renewed \in Nat /\ guesses \in Nat /\ attempts \in Nat
        /\ Cardinality(Counted) \in Nat
    BY OtpAssumption, StagesAreFinite DEF TypeOK
  <2>2. MAX_ATTEMPTS * (1 + renewed) = MAX_ATTEMPTS * renewed + MAX_ATTEMPTS
    BY <2>1
  <2>3. guesses <= MAX_ATTEMPTS * renewed + Present
    BY <2>1 DEF GuessesCounted, Present
  <2> QED
    BY <2>1, <2>2, <2>3 DEF Present, GuessBudget
<1> QED
  BY <1>1, <1>2, InitTypeOK, NextTypeOK, GuessStep, PTL DEF Spec

-----------------------------------------------------------------------------
\* What a step does to the strikes: the last attempt of a count may add one, the
\* counting of a strike moves it from its verifier to the count, and nothing else
\* adds any.
LEMMA StrikeSteps ==
  ASSUME TypeOK, [Next]_vars
  PROVE  \/ \E v \in Verifiers : VerifyIncr(v)
         \/ \E v \in Verifiers : VerifyCount(v)
         \/ /\ failures' \in {failures, 0} /\ attempts' \in {attempts, 0}
            /\ Strikers' \subseteq Strikers
<1> DEFINE Rest == /\ failures' \in {failures, 0} /\ attempts' \in {attempts, 0}
                   /\ Strikers' \subseteq Strikers
<1>1. ASSUME NEW v \in Verifiers, Aging(v) PROVE Rest
  <2>1. /\ \A w \in Verifiers \ {v} : verifier'[w] = verifier[w]
        /\ \/ verifier[v].pc = "ttl" /\ verifier'[v].pc = "expire"
           \/ verifier'[v].pc = "compare" /\ verifier'[v].n = 1
        /\ verifier[v].pc \in {"ttl", "expire"} /\ UNCHANGED <<failures, attempts>>
    BY <1>1, AgingMoves
  <2>2. verifier[v].pc = "ttl" => verifier[v].n \in 1..MAX_ATTEMPTS
    BY DEF TypeOK, Idle
  <2>3. MAX_ATTEMPTS = 1 /\ verifier[v].pc = "ttl" => Last(v)
    BY <2>2 DEF Last
  <2>4. v \in Strikers' => v \in Strikers
    BY <2>1, <2>3 DEF Strikers, Last
  <2>5. Strikers' \subseteq Strikers
    BY <2>1, <2>4 DEF Strikers, Last
  <2> QED
    BY <2>1, <2>5
<1>2. ASSUME NEW v \in Verifiers, VerifyCompare(v) PROVE Rest
  <2>1. /\ \A w \in Verifiers \ {v} : verifier'[w] = verifier[w]
        /\ (verifier'[v].pc = "strike" /\ Last(v)) \/ verifier'[v].pc \in {"spend", "idle"}
        /\ UNCHANGED <<failures, attempts>>
    BY <1>2, CompareMoves
  <2> QED
    BY <2>1 DEF Strikers, Last
<1>3. ASSUME NEW v \in Verifiers, VerifyGet(v) PROVE Rest
  <2>1. /\ \A w \in Verifiers \ {v} : verifier'[w] = verifier[w]
        /\ verifier'[v].pc \in {"incr", "idle"} /\ UNCHANGED <<failures, attempts>>
    BY <1>3, GetMoves DEF keys, attemptVars, failureVars
  <2> QED
    BY <2>1 DEF Strikers, Last
<1>4. ASSUME NEW v \in Verifiers, Ends(v), ~VerifyCount(v) PROVE Rest
  <2>1. /\ \A w \in Verifiers \ {v} : verifier'[w] = verifier[w]
        /\ verifier'[v].pc \in {"strike", "count"} => VerifyStrike(v)
        /\ verifier'[v].pc \in Stages \cup {"idle"}
        /\ failures' \in {failures, 0}
        /\ UNCHANGED <<attempts, until, renewed>> \/ DropAttempts
    BY <1>4, EndMoves
  <2>2. VerifyStrike(v) => verifier[v].pc = "strike"
    BY DEF VerifyStrike, At
  <2> QED
    BY <2>1, <2>2 DEF Strikers, Last, Stages, DropAttempts
<1>5. ASSUME NEW s \in Senders, Send(s) PROVE Rest
  BY <1>5 DEF Send, SendCount, SendExpire, SendSet, SendReset, DropAttempts, Strikers, Last, keys,
              attemptVars, failureVars, history
<1>6. ASSUME KeysExpire PROVE Rest
  BY <1>6 DEF KeysExpire, DropAttempts, Strikers, Last, keys, attemptVars, failureVars
<1>7. ASSUME Crash PROVE Rest
  <2>1. Strikers' \subseteq Strikers
    BY <1>7 DEF Crash, Answer, Idle, Strikers, Last, TypeOK
  <2> QED
    BY <1>7, <2>1 DEF Crash, keys, attemptVars, failureVars
<1>8. ASSUME UNCHANGED vars PROVE Rest
  BY <1>8 DEF vars, Strikers, Last, keys, attemptVars, failureVars
<1> QED
  BY <1>1, <1>2, <1>3, <1>4, <1>5, <1>6, <1>7, <1>8, VerifyCases DEF Next

\* A verifier has a strike only with the last attempt of a count.
LEMMA StrikeTakesCount ==
  ASSUME TypeOK, NEW v \in Verifiers, VerifyIncr(v)
  PROVE  /\ Cardinality(Strikers') <= Cardinality(Strikers) + 1
         /\ attempts + 1 # MAX_ATTEMPTS => Cardinality(Strikers') <= Cardinality(Strikers)
<1>1. /\ \A w \in Verifiers \ {v} : verifier'[w] = verifier[w]
      /\ \/ verifier'[v].pc = "drop"
         \/ verifier'[v].pc \in {"ttl", "compare"} /\ verifier'[v].n = attempts + 1
  BY IncrMoves
<1>2. Strikers' \subseteq Strikers \cup {v}
  BY <1>1 DEF Strikers, Last
<1>3. attempts + 1 # MAX_ATTEMPTS => Strikers' \subseteq Strikers
  BY <1>1 DEF Strikers, Last
<1>4. /\ IsFiniteSet(Strikers) /\ Cardinality(Strikers) \in Nat /\ Cardinality(Strikers') \in Nat
      /\ IsFiniteSet(Strikers \cup {v})
      /\ Cardinality(Strikers \cup {v}) \in {Cardinality(Strikers), Cardinality(Strikers) + 1}
  BY StagesAreFinite, FS_AddElement
<1>5. Cardinality(Strikers') <= Cardinality(Strikers \cup {v})
  BY <1>2, <1>4, FS_Subset
<1>6. Cardinality(Strikers') <= Cardinality(Strikers) + 1
  BY <1>4, <1>5
<1>7. attempts + 1 # MAX_ATTEMPTS => Cardinality(Strikers') <= Cardinality(Strikers)
  BY <1>3, <1>4, FS_Subset
<1> QED
  BY <1>6, <1>7

LEMMA CountMovesStrike ==
  ASSUME TypeOK, NEW v \in Verifiers, VerifyCount(v)
  PROVE  Cardinality(Strikers') = Cardinality(Strikers) - 1
<1>1. v \in Strikers
  BY DEF VerifyCount, At, Strikers
<1>2. /\ verifier'[v].pc \in {"term", "clear", "idle"}
      /\ \A w \in Verifiers \ {v} : verifier'[w] = verifier[w]
  BY DEF VerifyCount, Goto, Answer, Idle, TypeOK
<1>3. Strikers' = Strikers \ {v}
  BY <1>2 DEF Strikers, Last
<1> QED
  BY <1>1, <1>3, StagesAreFinite, FS_RemoveElement

LEMMA StrikeStep ==
  ASSUME TypeOK, StrikesPaid, [Next]_vars
  PROVE  StrikesPaid'
<1> DEFINE M == MAX_ATTEMPTS
           k == Cardinality(Strikers)
           l == Cardinality(Strikers')
<1>1. /\ M \in Nat \ {0} /\ attempts \in Nat /\ failures \in Nat
      /\ k \in Nat /\ l \in Nat /\ Tallied \in Nat /\ Tallied' \in Nat /\ Tallied <= Tallied'
  BY OtpAssumption, StagesAreFinite, SumSteps DEF TypeOK
<1>2. /\ Tallied >= M * (failures + k) + Unstruck
      /\ StrikesPaid' <=> Tallied' >= M * (failures' + l) + Unstruck'
      /\ Unstruck = IF attempts < M THEN attempts ELSE 0
      /\ Unstruck' = IF attempts' < M THEN attempts' ELSE 0
  BY DEF StrikesPaid, Unstruck
<1>3. ASSUME NEW v \in Verifiers, VerifyIncr(v)
      PROVE  /\ attempts' = attempts + 1 /\ failures' = failures
             /\ attempts + 1 <= M => Tallied' = Tallied + 1
             /\ l <= k + 1
             /\ attempts + 1 # M => l <= k
  <2>1. attempts' = attempts + 1 /\ failures' = failures /\ renewed' = renewed
    BY <1>3, IncrMoves
  <2>2. ~(DropAttempts \/ UNCHANGED <<attempts, renewed>>)
    BY <1>1, <2>1 DEF DropAttempts
  <2>3. attempts + 1 <= M => Tallied' = Tallied + 1
    BY <2>2, SumSteps
  <2> QED
    BY <1>3, <2>1, <2>3, StrikeTakesCount
<1>4. ASSUME NEW v \in Verifiers, VerifyCount(v)
      PROVE  failures' = failures + 1 /\ l = k - 1 /\ attempts' = attempts
  BY <1>4, CountMovesStrike DEF VerifyCount, attemptVars
<1>5. ASSUME Strikers' \subseteq Strikers
      PROVE  l <= k
  BY <1>5, StagesAreFinite, FS_Subset
<1> HIDE DEF M, k, l
<1>6. \A a, b \in Nat : /\ M * a \in Nat /\ M * (a + 1) = M * a + M
                        /\ a <= b => M * a <= M * b
  BY <1>1
<1>7. CASE \E v \in Verifiers : VerifyIncr(v)
  <2>1. CASE attempts + 1 = M
    <3>1. M * (failures + l) <= M * (failures + k) + M
      <4>1. failures + l <= (failures + k) + 1 /\ failures + l \in Nat /\ failures + k \in Nat
        BY <1>1, <1>3, <1>7
      <4> QED
        BY <1>6, <4>1
    <3> QED
      BY <1>1, <1>2, <1>3, <1>6, <1>7, <2>1, <3>1
  <2>2. CASE attempts + 1 # M
    <3>1. M * (failures + l) <= M * (failures + k)
      BY <1>1, <1>3, <1>6, <1>7, <2>2
    <3> QED
      BY <1>1, <1>2, <1>3, <1>6, <1>7, <2>2, <3>1
  <2> QED
    BY <2>1, <2>2
<1>8. CASE \E v \in Verifiers : VerifyCount(v)
  <2>1. failures' = failures + 1 /\ l = k - 1 /\ attempts' = attempts
    BY <1>4, <1>8
  <2>2. failures' + l = failures + k
    BY <1>1, <2>1
  <2>3. Unstruck' = Unstruck /\ Unstruck \in Nat
    BY <1>1, <1>2, <2>1
  <2>4. M * (failures + k) \in Nat
    BY <1>1, <1>6
  <2> QED
    BY <1>1, <1>2, <2>2, <2>3, <2>4
<1>9. CASE /\ failures' \in {failures, 0} /\ attempts' \in {attempts, 0}
           /\ Strikers' \subseteq Strikers
  <2>1. failures' + l <= failures + k /\ failures' + l \in Nat /\ failures + k \in Nat
    <3>1. l <= k
      BY <1>5, <1>9
    <3>2. failures' = failures \/ failures' = 0
      BY <1>9
    <3> QED
      BY <1>1, <3>1, <3>2
  <2>2. Unstruck' <= Unstruck /\ Unstruck \in Nat /\ Unstruck' \in Nat
    BY <1>1, <1>2, <1>9
  <2>3. M * (failures' + l) <= M * (failures + k)
    BY <1>6, <2>1
  <2>4. M * (failures' + l) \in Nat /\ M * (failures + k) \in Nat
    BY <1>6, <2>1
  <2> QED
    BY <1>1, <1>2, <2>2, <2>3, <2>4
<1> QED
  BY <1>7, <1>8, <1>9, StrikeSteps

\* Who is about to lock the phone has counted the last strike.
LEMMA LockStep ==
  ASSUME TypeOK, StrikesPaid, LocksPaid, [Next]_vars
  PROVE  LocksPaid'
<1> DEFINE Enough == Tallied >= MAX_ATTEMPTS * MAX_SESSION_FAILURES
<1>1. MAX_ATTEMPTS * MAX_SESSION_FAILURES \in Nat
  BY OtpAssumption
<1>2. Enough => Enough'
  BY <1>1, SumSteps
<1>3. ASSUME NEW v \in Verifiers, VerifyCount(v), failures + 1 >= MAX_SESSION_FAILURES PROVE Enough
  <2>1. v \in Strikers
    BY <1>3 DEF VerifyCount, At, Strikers
  <2>2. Cardinality(Strikers) # 0
    BY <2>1, StagesAreFinite, FS_EmptySet
  <2>3. /\ failures \in Nat /\ Cardinality(Strikers) \in Nat /\ attempts \in Nat
        /\ Tallied \in Nat
    BY StagesAreFinite, SumSteps DEF TypeOK
  <2>4. MAX_ATTEMPTS \in Nat /\ MAX_SESSION_FAILURES \in Nat
    BY OtpAssumption
  <2>5. MAX_SESSION_FAILURES <= failures + Cardinality(Strikers)
    BY <1>3, <2>2, <2>3, <2>4
  <2>6. \A m, a, b \in Nat : a <= b => m * a <= m * b
    OBVIOUS
  <2>7. MAX_ATTEMPTS * MAX_SESSION_FAILURES <= MAX_ATTEMPTS * (failures + Cardinality(Strikers))
    BY <2>3, <2>4, <2>5, <2>6
  <2>8. Unstruck \in Nat /\ MAX_ATTEMPTS * (failures + Cardinality(Strikers)) \in Nat
    BY <2>3, <2>4 DEF Unstruck
  <2> QED
    BY <1>1, <2>3, <2>7, <2>8 DEF StrikesPaid
<1>4. ASSUME lock' \/ Locking' # {}
      PROVE  \/ lock \/ Locking # {}
             \/ \E v \in Verifiers : VerifyCount(v) /\ failures + 1 >= MAX_SESSION_FAILURES
  <2>1. ASSUME NEW v \in Verifiers, Ends(v), ~lock, Locking = {}
        PROVE  VerifyCount(v) /\ failures + 1 >= MAX_SESSION_FAILURES
    <3>1. /\ \A w \in Verifiers \ {v} : verifier'[w] = verifier[w]
          /\ verifier'[v].pc \in {"clear", "lock", "term"} \/ lock' # lock =>
               VerifyCount(v) \/ VerifyTerm(v) \/ VerifyClear(v) \/ VerifyLock(v)
      BY <2>1, EndMoves
    <3>2. \A w \in Verifiers \ {v} : w \notin Locking'
      BY <2>1, <3>1 DEF Locking
    <3>3. lock' # lock \/ v \in Locking'
      BY <1>4, <2>1, <3>2 DEF Locking
    <3>4. ~VerifyClear(v) /\ ~VerifyLock(v)
      BY <2>1 DEF VerifyClear, VerifyLock, At, Locking
    <3>5. VerifyTerm(v) => lock' = lock /\ v \notin Locking'
      BY <2>1 DEF VerifyTerm, At, Answer, Idle, Locking, TypeOK
    <3>6. VerifyCount(v)
      BY <3>1, <3>3, <3>4, <3>5 DEF Locking
    <3>7. v \in Locking'
      BY <3>3, <3>6 DEF VerifyCount
    <3>8. failures \in Nat /\ MAX_SESSION_FAILURES \in Nat \ {0}
      BY OtpAssumption DEF TypeOK
    <3>9. CASE failures > 0 /\ failures + 1 < MAX_SESSION_FAILURES
      BY <3>6, <3>7, <3>9 DEF VerifyCount, Answer, Idle, Locking, TypeOK
    <3>10. CASE failures = 0
      <4>1. verifier'[v].pc = "term"
        BY <3>6, <3>10 DEF VerifyCount, Goto, TypeOK
      <4> QED
        BY <3>6, <3>7, <3>8, <3>10, <4>1 DEF Locking
    <3> QED
      BY <3>6, <3>8, <3>9, <3>10
  <2>2. ASSUME NEW v \in Verifiers, VerifyIncr(v) \/ Aging(v) \/ VerifyCompare(v) \/ VerifyGet(v)
        PROVE  UNCHANGED lock /\ Locking' \subseteq Locking
    <3>1. /\ \A w \in Verifiers \ {v} : verifier'[w] = verifier[w]
          /\ verifier'[v].pc \notin {"clear", "lock", "term"}
          /\ UNCHANGED lock
      BY <2>2, IncrMoves, AgingMoves, CompareMoves, GetMoves DEF keys
    <3> QED
      BY <3>1 DEF Locking
  <2>3. ASSUME NEW s \in Senders, Send(s) PROVE UNCHANGED <<lock, verifier>>
    BY <2>3 DEF Send, SendCount, SendExpire, SendSet, SendReset, keys
  <2>4. ASSUME KeysExpire PROVE (lock' => lock) /\ UNCHANGED verifier
    BY <2>4 DEF KeysExpire, keys
  <2>5. ASSUME Crash PROVE UNCHANGED lock /\ Locking' \subseteq Locking
    BY <2>5 DEF Crash, Answer, Idle, Locking, TypeOK, keys
  <2>6. (UNCHANGED verifier) => Locking' = Locking
    BY DEF Locking
  <2> QED
    BY <1>4, <2>1, <2>2, <2>3, <2>4, <2>5, <2>6, VerifyCases DEF Next, vars, keys
<1>5. lock \/ Locking # {} => Enough
  BY DEF LocksPaid
<1>6. lock' \/ Locking' # {} => Enough'
  BY <1>2, <1>3, <1>4, <1>5
<1> QED
  BY <1>6 DEF LocksPaid

\* A phone is never locked for fewer attempts than MAX_ATTEMPTS for each of
\* MAX_SESSION_FAILURES strikes, whatever verifiers overlap, die, and however the
\* keys expire between their calls: all of them have been compared, but for those
\* of requests still on the way from the count to the comparison or dead before it.
THEOREM LocksAreEarned == Spec => []LockTakesGuesses
<1>1. Init => StrikesPaid /\ LocksPaid
  <2> SUFFICES ASSUME Init PROVE StrikesPaid /\ LocksPaid
    OBVIOUS
  <2>1. Strikers = {} /\ Counted = {} /\ Locking = {}
    BY DEF Init, Strikers, Last, Counted, Locking, Idle
  <2>2. Cardinality(Strikers) = 0 /\ Cardinality(Counted) = 0
    BY <2>1, FS_EmptySet
  <2>3. StrikesPaid
    BY <2>2, OtpAssumption DEF Init, StrikesPaid, Unstruck, Tallied
  <2> QED
    BY <2>1, <2>3 DEF Init, LocksPaid
<1>2. LocksPaid => LockTakesGuesses
  BY DEF LocksPaid, LockTakesGuesses, Tallied
<1> QED
  BY <1>1, <1>2, InitTypeOK, NextTypeOK, StrikeStep, LockStep, PTL DEF Spec

-----------------------------------------------------------------------------
\* Verifiers at one stage and at another are no more than there are.
LEMMA SizesAdd ==
  ASSUME NEW S \in SUBSET Verifiers, NEW T \in SUBSET Verifiers, S \cap T = {}
  PROVE  /\ IsFiniteSet(S) /\ IsFiniteSet(T)
         /\ Cardinality(S) \in Nat /\ Cardinality(T) \in Nat /\ Cardinality(Verifiers) \in Nat
         /\ Cardinality(S) + Cardinality(T) <= Cardinality(Verifiers)
<1>1. IsFiniteSet(S) /\ IsFiniteSet(T) /\ IsFiniteSet(Verifiers)
  BY OtpAssumption, FS_Subset
<1>2. Cardinality(S) \in Nat /\ Cardinality(T) \in Nat /\ Cardinality(Verifiers) \in Nat
  BY <1>1, FS_CardinalityType
<1>3. Cardinality(S \cup T) = Cardinality(S) + Cardinality(T)
  <2>1. Cardinality(S \cap T) = 0
    BY FS_EmptySet
  <2>2. Cardinality(S \cup T) = Cardinality(S) + Cardinality(T) - Cardinality(S \cap T)
    BY <1>1, FS_Union
  <2> QED
    BY <1>2, <2>1, <2>2
<1>4. Cardinality(S \cup T) <= Cardinality(Verifiers)
  BY <1>1, FS_Subset
<1> QED
  BY <1>1, <1>2, <1>3, <1>4

LEMMA HoldersAndSpenders ==
  ASSUME NEW c \in Codes
  PROVE  /\ Holders(c) \in SUBSET Verifiers /\ Spenders \in SUBSET Verifiers
         /\ Holders(c) \cap Spenders = {}
         /\ Holders(c)' \in SUBSET Verifiers /\ Spenders' \in SUBSET Verifiers
         /\ Holders(c)' \cap Spenders' = {}
BY DEF Holders, Spenders, Reading

\* What a step does to a code and those who hold it.
Kept(c) ==
  /\ UNCHANGED <<accepted, crashes, issued>> /\ Holders(c)' \subseteq Holders(c)
  /\ otp' = 0 \/ (otp' = otp /\ Spenders \subseteq Spenders')

LEMMA SpendSteps ==
  ASSUME TypeOK, [Next]_vars, NEW c \in Codes
  PROVE  \/ \E v \in Verifiers : VerifyCompare(v)
         \/ \E v \in Verifiers : VerifyGet(v) /\ otp # 0
         \/ \E s \in Senders : SendSet(s)
         \/ Crash
         \/ Kept(c)
<1>1. ASSUME NEW s \in Senders, Send(s), ~SendSet(s) PROVE Kept(c)
  BY <1>1 DEF Send, SendCount, SendExpire, SendReset, Kept, Holders, Spenders, keys, history
<1>2. ASSUME NEW v \in Verifiers, Ends(v) PROVE Kept(c)
  <2>1. /\ UNCHANGED <<accepted, crashes, issued>>
        /\ \A w \in Verifiers \ {v} : verifier'[w] = verifier[w]
        /\ verifier'[v].pc \in Stages \cup {"idle"}
        /\ otp' = 0 \/ (otp' = otp /\ verifier[v].pc # "spend")
    BY <1>2, EndMoves
  <2>2. Holders(c)' \subseteq Holders(c)
    BY <2>1 DEF Holders, Reading, Stages
  <2>3. verifier[v].pc # "spend" => Spenders \subseteq Spenders'
    BY <2>1 DEF Spenders
  <2> QED
    BY <2>1, <2>2, <2>3 DEF Kept
<1>3. ASSUME NEW v \in Verifiers, VerifyIncr(v) \/ Aging(v) PROVE Kept(c)
  <2>1. /\ UNCHANGED <<otp, accepted, crashes, issued>>
        /\ \A w \in Verifiers \ {v} : verifier'[w] = verifier[w]
        /\ verifier[v].pc \in Reading
        /\ \/ verifier'[v].pc = "drop"
           \/ verifier'[v].pc \in Reading /\ verifier'[v].code = verifier[v].code
    BY <1>3, IncrMoves, AgingMoves DEF Reading
  <2>2. Holders(c)' \subseteq Holders(c) /\ Spenders \subseteq Spenders'
    BY <2>1 DEF Holders, Spenders, Reading
  <2> QED
    BY <2>1, <2>2 DEF Kept
<1>4. ASSUME NEW v \in Verifiers, VerifyGet(v), otp = 0 PROVE Kept(c)
  <2>1. /\ UNCHANGED <<otp, accepted, crashes, issued>>
        /\ \A w \in Verifiers \ {v} : verifier'[w] = verifier[w]
        /\ verifier[v].pc = "get" /\ verifier'[v].pc = "idle"
    BY <1>4, GetMoves DEF keys, history
  <2> QED
    BY <2>1 DEF Kept, Holders, Spenders, Reading
<1>5. ASSUME KeysExpire PROVE Kept(c)
  BY <1>5 DEF KeysExpire, Kept, Holders, Spenders, keys
<1>6. ASSUME UNCHANGED vars PROVE Kept(c)
  BY <1>6 DEF vars, Kept, Holders, Spenders, keys, history
<1> QED
  BY <1>1, <1>2, <1>3, <1>4, <1>5, <1>6, VerifyCases DEF Next

LEMMA SpendStep ==
  ASSUME SpendInv, [Next]_vars, NEW c \in Codes
  PROVE  /\ accepted'[c] + Cardinality(Holders(c)') <= Cardinality(Verifiers) + crashes'
         /\ otp' = c => accepted'[c] <= Cardinality(Spenders') + crashes'
         /\ c > issued' => accepted'[c] = 0
<1> DEFINE a == accepted[c]
           h == Cardinality(Holders(c))
           i == Cardinality(Holders(c)')
           s == Cardinality(Spenders)
           t == Cardinality(Spenders')
           n == Cardinality(Verifiers)
           Goal == /\ accepted'[c] + i <= n + crashes'
                   /\ otp' = c => accepted'[c] <= t + crashes'
                   /\ c > issued' => accepted'[c] = 0
<1>1. /\ a \in Nat /\ crashes \in Nat /\ c \in 1..MaxCodes /\ issued \in Nat /\ otp \in 0..issued
      /\ accepted \in [Codes -> Nat]
  BY OtpAssumption DEF SpendInv, TypeOK, Codes
<1>2. /\ h \in Nat /\ i \in Nat /\ s \in Nat /\ t \in Nat /\ n \in Nat
      /\ h + s <= n /\ i + t <= n
  BY HoldersAndSpenders, SizesAdd
<1>3. /\ IsFiniteSet(Holders(c)) /\ IsFiniteSet(Spenders)
      /\ IsFiniteSet(Holders(c)') /\ IsFiniteSet(Spenders')
  BY HoldersAndSpenders, SizesAdd
<1>4. a + h <= n + crashes /\ (otp = c => a <= s + crashes) /\ (c > issued => a = 0)
  BY DEF SpendInv, AcceptedOnce
<1>5. ASSUME NEW v \in Verifiers, VerifyCompare(v) PROVE Goal
  <2>1. /\ verifier[v].pc = "compare" /\ verifier[v].code \in Codes /\ verifier[v].code <= issued
        /\ UNCHANGED <<otp, issued, crashes>>
    BY <1>5, CompareMoves DEF SpendInv, HeldWereIssued, Reading
  <2>2. \A w \in Verifiers \ {v} : verifier'[w] = verifier[w]
    BY <1>5, CompareMoves DEF SpendInv
  <2>3. /\ verifier'[v].pc \notin Reading /\ v \notin Spenders
        /\ accepted' = accepted \/ (verifier'[v].pc = "spend"
                                    /\ accepted' = [accepted EXCEPT ![verifier[v].code] = @ + 1])
    BY <1>5, <2>1, CompareMoves DEF Spenders, Reading, SpendInv
  <2>4. Holders(c)' = Holders(c) \ {v} /\ (v \in Holders(c) <=> verifier[v].code = c)
    BY <2>1, <2>2, <2>3 DEF Holders, Reading
  <2>5. i = IF verifier[v].code = c THEN h - 1 ELSE h
    BY <1>3, <2>4, FS_RemoveElement
  <2>6. Spenders \subseteq Spenders' /\ (verifier'[v].pc = "spend" => Spenders' = Spenders \cup {v})
    BY <2>2, <2>3 DEF Spenders
  <2>7. s <= t
    BY <1>3, <2>6, FS_Subset
  <2>8. verifier'[v].pc = "spend" => t = s + 1
    BY <1>3, <2>3, <2>6, FS_AddElement
  <2> HIDE DEF h, i, s, t, n
  <2>9. CASE accepted' = accepted
    BY <1>1, <1>2, <1>4, <2>1, <2>5, <2>7, <2>9
  <2>10. CASE /\ verifier'[v].pc = "spend"
              /\ accepted' = [accepted EXCEPT ![verifier[v].code] = @ + 1]
    <3>1. CASE verifier[v].code = c
      <4>1. accepted'[c] = a + 1
        BY <1>1, <2>10, <3>1
      <4> QED
        BY <1>1, <1>2, <1>4, <2>1, <2>5, <2>8, <2>10, <3>1, <4>1
    <3>2. CASE verifier[v].code # c
      <4>1. accepted'[c] = a
        BY <1>1, <2>10, <3>2
      <4> QED
        BY <1>1, <1>2, <1>4, <2>1, <2>5, <2>8, <2>10, <3>2, <4>1
    <3> QED
      BY <3>1, <3>2
  <2> QED
    BY <2>3, <2>9, <2>10
<1>6. ASSUME NEW v \in Verifiers, VerifyGet(v), otp # 0 PROVE Goal
  <2>1. /\ UNCHANGED <<otp, accepted, crashes, issued>>
        /\ \A w \in Verifiers \ {v} : verifier'[w] = verifier[w]
        /\ verifier[v].pc = "get" /\ verifier'[v] = [pc |-> "incr", code |-> otp]
    BY <1>6, GetMoves DEF SpendInv, keys, history
  <2>2. Spenders' = Spenders
    BY <2>1 DEF Spenders
  <2>3. CASE otp = c
    BY <1>1, <1>2, <1>4, <2>1, <2>2, <2>3
  <2>4. CASE otp # c
    <3>1. Holders(c)' = Holders(c)
      BY <2>1, <2>4 DEF Holders, Reading
    <3> QED
      BY <1>1, <1>2, <1>4, <2>1, <2>2, <2>4, <3>1
  <2> QED
    BY <2>3, <2>4
<1>7. ASSUME NEW q \in Senders, SendSet(q) PROVE Goal
  <2>1. /\ issued' = issued + 1 /\ otp' = issued + 1 /\ UNCHANGED <<accepted, crashes, verifier>>
    BY <1>7 DEF SendSet
  <2>2. i = h /\ t = s
    BY <2>1 DEF Holders, Spenders
  <2> HIDE DEF h, i, s, t, n
  <2> QED
    BY <1>1, <1>2, <1>4, <2>1, <2>2
<1>8. ASSUME Crash PROVE Goal
  <2>1. crashes' = crashes + 1 /\ UNCHANGED <<otp, accepted, issued>>
    BY <1>8 DEF Crash, keys, history
  <2>2. \E v : Spenders \ {v} \subseteq Spenders'
    <3>1. CASE UNCHANGED verifier
      BY <3>1 DEF Spenders
    <3>2. ASSUME NEW v \in Verifiers, Answer(v) PROVE Spenders \ {v} \subseteq Spenders'
      BY <3>2 DEF Answer, Spenders, SpendInv, TypeOK
    <3> QED
      BY <1>8, <3>1, <3>2 DEF Crash
  <2>3. PICK v : Spenders \ {v} \subseteq Spenders'
    BY <2>2
  <2>4. /\ IsFiniteSet(Spenders \ {v}) /\ Cardinality(Spenders \ {v}) \in {s - 1, s}
    BY <1>3, FS_RemoveElement
  <2>5. Cardinality(Spenders \ {v}) <= t
    BY <1>3, <2>3, FS_Subset
  <2>6. s <= t + 1
    BY <1>2, <2>4, <2>5
  <2>7. Holders(c)' \subseteq Holders(c)
    BY <1>8 DEF Crash, Answer, Idle, Holders, Reading, SpendInv, TypeOK
  <2>8. i <= h
    BY <1>3, <2>7, FS_Subset
  <2> HIDE DEF h, i, s, t, n
  <2> QED
    BY <1>1, <1>2, <1>4, <2>1, <2>6, <2>8
<1>9. ASSUME Kept(c) PROVE Goal
  <2>1. i <= h
    BY <1>3, <1>9, FS_Subset DEF Kept
  <2>2. otp' = c => otp = c /\ s <= t
    BY <1>1, <1>3, <1>9, FS_Subset DEF Kept
  <2> HIDE DEF h, i, s, t, n
  <2> QED
    BY <1>1, <1>2, <1>4, <1>9, <2>1, <2>2 DEF Kept
<1> QED
  BY <1>5, <1>6, <1>7, <1>8, <1>9, SpendSteps DEF SpendInv

\* Codes are read once they are issued.
LEMMA HeldStep ==
  ASSUME SpendInv, [Next]_vars
  PROVE  HeldWereIssued'
<1>1. ASSUME NEW v \in Verifiers, verifier'[v].pc \in Reading
      PROVE  /\ verifier'[v].code \in Codes
             /\ \/ verifier[v].pc \in Reading /\ verifier'[v].code = verifier[v].code
                \/ verifier'[v].code = otp
  <2>1. verifier'[v].code \in Codes
    BY <1>1, NextTypeOK DEF SpendInv, TypeOK, Reading, Idle
  <2>2. CASE verifier'[v] = verifier[v]
    BY <1>1, <2>1, <2>2
  <2>3. CASE verifier'[v] # verifier[v]
    <3>1. PICK w \in Verifiers : Verify(w)
      BY <1>1, <2>3 DEF Next, Send, SendCount, SendExpire, SendSet, SendReset, KeysExpire, Crash,
         Answer, Idle, Reading, vars, SpendInv, TypeOK
    <3>2. w = v
      BY <2>3, <3>1, IncrMoves, AgingMoves, CompareMoves, GetMoves, EndMoves, VerifyCases DEF SpendInv
    <3>3. ~Ends(v) /\ ~VerifyCompare(v)
      BY <1>1, EndMoves, CompareMoves DEF SpendInv, Stages, Reading
    <3>4. CASE VerifyIncr(v) \/ Aging(v)
      BY <1>1, <2>1, <3>4, IncrMoves, AgingMoves DEF SpendInv, Reading
    <3>5. CASE VerifyGet(v)
      BY <1>1, <2>1, <3>5, GetMoves DEF SpendInv, Reading
    <3> QED
      BY <3>1, <3>2, <3>3, <3>4, <3>5, VerifyCases
  <2> QED
    BY <2>2, <2>3
<1>2. issued' >= issued /\ issued \in Nat /\ issued' \in Nat /\ otp \in 0..issued
  <2>1. issued' = issued \/ issued' = issued + 1
    BY IncrMoves, AgingMoves, CompareMoves, GetMoves, EndMoves, VerifyCases
       DEF SpendInv, Next, Send, SendCount, SendExpire, SendSet, SendReset, KeysExpire, Crash, vars,
           history
  <2> QED
    BY <2>1, OtpAssumption DEF SpendInv, TypeOK
<1>3. ASSUME NEW v \in Verifiers, verifier'[v].pc \in Reading
      PROVE  verifier'[v].code <= issued'
  <2>1. verifier'[v].code \in Nat /\ verifier'[v].code <= issued
    BY <1>1, <1>2, <1>3 DEF SpendInv, HeldWereIssued, Codes
  <2> QED
    BY <1>2, <2>1
<1> QED
  BY <1>3 DEF HeldWereIssued

\* A code is accepted more than once only from requests that overlap, or after
\* one that died before it deleted the code.
THEOREM ReuseNeedsOverlap == Spec => []AcceptedByOverlap
<1>1. Init => SpendInv
  <2> SUFFICES ASSUME Init PROVE SpendInv
    OBVIOUS
  <2>1. HeldWereIssued
    BY DEF Init, HeldWereIssued, Reading, Idle
  <2>2. \A c \in Codes : Holders(c) = {}
    BY DEF Init, Holders, Reading, Idle
  <2>3. \A c \in Codes : accepted[c] = 0 /\ otp # c /\ Cardinality(Holders(c)) = 0
    <3>1. \A c \in Codes : Cardinality(Holders(c)) = 0
      BY <2>2, FS_EmptySet
    <3>2. \A c \in Codes : accepted[c] = 0 /\ c # 0
      BY OtpAssumption DEF Init, Codes
    <3> QED
      BY <3>1, <3>2 DEF Init
  <2>4. Cardinality(Verifiers) \in Nat /\ crashes = 0
    BY OtpAssumption, FS_CardinalityType DEF Init
  <2>5. AcceptedOnce
    BY <2>3, <2>4 DEF AcceptedOnce
  <2> QED
    BY <2>1, <2>5, InitTypeOK DEF SpendInv
<1>2. SpendInv /\ [Next]_vars => SpendInv'
  BY SpendStep, HeldStep, NextTypeOK DEF SpendInv, AcceptedOnce
<1>3. SpendInv => AcceptedByOverlap
  <2> SUFFICES ASSUME SpendInv, NEW c \in Codes
               PROVE  accepted[c] <= Cardinality(Verifiers) + crashes
    BY DEF AcceptedByOverlap
  <2>1. accepted[c] + Cardinality(Holders(c)) <= Cardinality(Verifiers) + crashes
    BY DEF SpendInv, AcceptedOnce
  <2>2. /\ accepted[c] \in Nat /\ Cardinality(Holders(c)) \in Nat
        /\ Cardinality(Verifiers) \in Nat /\ crashes \in Nat
    <3>1. Cardinality(Holders(c)) \in Nat /\ Cardinality(Verifiers) \in Nat
      BY HoldersAndSpenders, SizesAdd
    <3>2. accepted[c] \in Nat /\ crashes \in 0..MaxCrashes
      BY DEF SpendInv, TypeOK
    <3> QED
      BY <3>1, <3>2
  <2> QED
    BY <2>1, <2>2
<1> QED
  BY <1>1, <1>2, <1>3, PTL DEF Spec

-----------------------------------------------------------------------------
LEMMA WindowStep ==
  ASSUME TypeOK, BlockedByCrash, [Next]_vars
  PROVE  BlockedByCrash'
<1> DEFINE Window == sends > 0 /\ ~window =>
                       crashes > 0 \/ \E s \in Senders : sender[s].pc = "expire"
           Strikes == failures > 0 /\ ~failuresEnd =>
                        crashes > 0 \/ \E v \in Verifiers : verifier[v].pc = "term"
<1>1. Window /\ Strikes /\ (BlockedByCrash' <=> Window' /\ Strikes')
  BY DEF BlockedByCrash, At
<1>2. ASSUME NEW s \in Senders, Send(s) PROVE Window' /\ Strikes'
  <2>1. Strikes'
    BY <1>1, <1>2 DEF Send, SendCount, SendExpire, SendSet, SendReset, keys, failureVars
  <2>2. CASE SendCount(s)
    BY <1>1, <2>1, <2>2 DEF SendCount, TypeOK, Idle
  <2>3. CASE SendExpire(s)
    BY <1>1, <2>1, <2>3 DEF SendExpire, TypeOK
  <2>4. CASE SendSet(s) \/ SendReset(s)
    BY <1>1, <2>1, <2>4 DEF SendSet, SendReset, TypeOK, limitVars, Idle
  <2> QED
    BY <1>2, <2>2, <2>3, <2>4 DEF Send
<1>3. ASSUME NEW v \in Verifiers, VerifyIncr(v) \/ Aging(v) \/ VerifyCompare(v) \/ VerifyGet(v)
      PROVE  Window' /\ Strikes'
  <2>1. /\ \A w \in Verifiers \ {v} : verifier'[w] = verifier[w]
        /\ verifier[v].pc # "term"
        /\ UNCHANGED <<sends, window, sender, crashes, failures, failuresEnd>>
    BY <1>3, IncrMoves, AgingMoves, CompareMoves, GetMoves DEF keys, failureVars, limitVars
  <2> QED
    BY <1>1, <2>1
<1>4. ASSUME NEW v \in Verifiers, Ends(v) PROVE Window' /\ Strikes'
  <2>1. /\ UNCHANGED <<sends, window, sender, crashes>>
        /\ \A w \in Verifiers \ {v} : verifier'[w] = verifier[w]
    BY <1>4, EndMoves
  <2>2. CASE VerifyCount(v)
    <3>1. verifier[v].pc = "count" /\ failures \in Nat /\ UNCHANGED failuresEnd
      BY <2>2 DEF VerifyCount, At, TypeOK
    <3>2. CASE failures = 0
      <4>1. verifier'[v].pc = "term"
        BY <2>2, <3>2 DEF VerifyCount, Goto, TypeOK
      <4> QED
        BY <1>1, <2>1, <4>1
    <3>3. CASE failures > 0
      BY <1>1, <2>1, <3>1, <3>3
    <3> QED
      BY <3>1, <3>2, <3>3
  <2>3. CASE VerifyTerm(v)
    BY <1>1, <2>1, <2>3 DEF VerifyTerm
  <2>4. CASE VerifyClear(v) \/ VerifyForgive(v)
    BY <1>1, <2>1, <2>4 DEF VerifyClear, VerifyForgive
  <2>5. CASE ~VerifyCount(v) /\ ~VerifyTerm(v) /\ ~VerifyClear(v) /\ ~VerifyForgive(v)
    <3>1. UNCHANGED <<failures, failuresEnd>> /\ verifier[v].pc # "term"
      BY <1>4, <2>5 DEF Ends, VerifyBegin, VerifyDrop, VerifyStrike, VerifyLock, VerifySpend,
         VerifyForget, At, Idle, keys, failureVars
    <3> QED
      BY <1>1, <2>1, <3>1
  <2> QED
    BY <2>2, <2>3, <2>4, <2>5
<1>5. CASE Crash
  BY <1>1, <1>5 DEF Crash, TypeOK
<1>6. CASE KeysExpire
  BY <1>1, <1>6 DEF KeysExpire, limitVars, keys, failureVars
<1>7. CASE UNCHANGED vars
  BY <1>1, <1>7 DEF vars, limitVars, keys, failureVars
<1> QED
  BY <1>1, <1>2, <1>3, <1>4, <1>5, <1>6, <1>7, VerifyCases DEF Next

\* A count of requests, or of strikes, that never expires is left behind by a
\* crash only.
THEOREM BlockingNeedsCrash == Spec => []BlockedByCrash
<1>1. Init => BlockedByCrash
  BY DEF Init, BlockedByCrash
<1> QED
  BY <1>1, InitTypeOK, NextTypeOK, WindowStep, PTL DEF Spec

-----------------------------------------------------------------------------
\* Registration: the types of a request and of a claim, step by step; then the
\* invariant that ties the tokens, the accounts and the invitations together.

\* A token names a gift that was sent, and gets as far as the insertion only with
\* the phone the gift is for; a claim names such a gift too.
TokensFit ==
  \A r \in Requests :
    /\ request[r].pc = "validate" => request[r].token \in sent
    /\ request[r].pc \in {"insert", "accept"} /\ request[r].token # Invite!NoToken =>
         request[r].token \in sent /\ request[r].phone = Recipient[request[r].token]
ClaimsFit == \A c \in Claimers : claim[c] # Invite!Free => claim[c].gift \in sent
UnsentAreBlank == \A g \in Gifts \ sent : invitation[g] = "none"
PaidWereSent == \A g \in Gifts : paidTo[g] # Invite!Nobody => g \in sent

\* The account made with a token is there until it is deleted, so that one request
\* at most is about to accept the invitation, and nobody has accepted it before.
Accepting(g) == {r \in Requests : request[r].pc = "accept" /\ request[r].token = g}
OneAccount(g) ==
  /\ used[g] <= 1 /\ (used[g] = 1 => Recipient[g] \in users)
  /\ \A r, q \in Accepting(g) : r = q
  /\ Accepting(g) # {} => used[g] = 1 /\ invitation[g] \in {"none", "pending"}
  /\ used[g] = 0 => invitation[g] \in {"none", "pending"}

\* A claim of the recipient's that has passed the invitation has used it up, or was
\* free to.  Nothing is said of the claims of others: they need no invitation.
ClaimPassed(g) ==
  /\ \A c \in Claimers : claim[c].pc = "mark" /\ claim[c].gift = g =>
       invitation[g] \in {"none", "accepted", "claimed"}
  /\ \A c \in Claimers :
       claim[c].pc = "claim" /\ claim[c].gift = g /\ claim[c].phone = Recipient[g] =>
         g \in lapsed \/ invitation[g] \in {"none", "claimed"}
  /\ paidTo[g] = Recipient[g] => g \in lapsed \/ invitation[g] \in {"none", "claimed"}

Fits ==
  Invite!AccountsTypeOK /\ TokensFit /\ ClaimsFit /\ UnsentAreBlank /\ PaidWereSent
InviteInv ==
  Fits /\ \A g \in Gifts : Recipient[g] \notin erased => OneAccount(g) /\ ClaimPassed(g)

-----------------------------------------------------------------------------
\* The stages of a request and of a claim, and the types of the rest.
Registering == {Invite!Free} \cup [pc : {"validate", "accept"}, phone : Phones, token : Gifts]
                 \cup [pc : {"insert"}, phone : Phones, token : Gifts \cup {Invite!NoToken}]
Claiming == {Invite!Free} \cup [pc : {"mark", "claim"}, gift : Gifts, phone : Phones]
Statuses == {"none", "pending", "accepted", "claimed"}

Validated == [pc : {"validate", "accept"}, phone : Phones, token : Gifts]
Inserting == [pc : {"insert"}, phone : Phones, token : Gifts \cup {Invite!NoToken}]
Claims == [pc : {"mark", "claim"}, gift : Gifts, phone : Phones]

\* The stage of a request or a claim says what it carries.
LEMMA RequestStages ==
  ASSUME Invite!AccountsTypeOK, NEW r \in Requests
  PROVE  /\ request[r] \in Registering
         /\ request[r] = Invite!Free \/ request[r] \in Validated \/ request[r] \in Inserting
         /\ request[r].pc \in {"validate", "accept"} => request[r] \in Validated
         /\ request[r].pc = "insert" => request[r] \in Inserting
<1>1. request[r] = Invite!Free \/ request[r] \in Validated \/ request[r] \in Inserting
  BY DEF Invite!AccountsTypeOK, Validated, Inserting
<1>2. request[r] = Invite!Free => request[r].pc = "idle"
  BY DEF Invite!Free
<1>3. request[r] \in Validated => request[r].pc \in {"validate", "accept"}
  BY DEF Validated
<1>4. request[r] \in Inserting => request[r].pc = "insert"
  BY DEF Inserting
<1>5. request[r] \in Registering
  BY DEF Invite!AccountsTypeOK, Registering
<1> QED
  BY <1>1, <1>2, <1>3, <1>4, <1>5

\* The same of a claim.
LEMMA ClaimStages ==
  ASSUME Invite!AccountsTypeOK, NEW c \in Claimers
  PROVE  claim[c] \in Claiming /\ (claim[c].pc \in {"mark", "claim"} => claim[c] \in Claims)
<1>1. claim[c] = Invite!Free \/ claim[c] \in Claims
  BY DEF Invite!AccountsTypeOK, Claims
<1>2. claim[c] = Invite!Free => claim[c].pc = "idle"
  BY DEF Invite!Free
<1>3. claim[c] \in Claiming
  BY DEF Invite!AccountsTypeOK, Claiming
<1> QED
  BY <1>1, <1>2, <1>3

\* What is kept of a request as it goes on.
LEMMA Advance ==
  ASSUME Invite!AccountsTypeOK, NEW r \in Requests, NEW s \in {"insert", "accept"},
         \/ request[r].pc = "validate" /\ s = "insert"
         \/ request[r].pc = "insert" /\ s = "accept" /\ request[r].token # Invite!NoToken,
         request' = [request EXCEPT ![r].pc = s]
  PROVE  /\ request' \in [Requests -> Registering]
         /\ request'[r].pc = s /\ request'[r].phone = request[r].phone
         /\ request'[r].token = request[r].token
         /\ \A q \in Requests \ {r} : request'[q] = request[q]
<1>1. request \in [Requests -> Registering]
  BY DEF Invite!AccountsTypeOK, Registering
<1> DEFINE q == [request[r] EXCEPT !.pc = s]
<1>2. request' = [request EXCEPT ![r] = q]
  BY <1>1
<1>3. request[r] \in Validated \cup Inserting
  BY RequestStages
<1>4. /\ q.pc = s /\ q.phone = request[r].phone /\ q.token = request[r].token
      /\ q = [pc |-> s, phone |-> request[r].phone, token |-> request[r].token]
  BY <1>3 DEF Validated, Inserting
<1>5. request[r].phone \in Phones /\ request[r].token \in Gifts \cup {Invite!NoToken}
  BY <1>3 DEF Validated, Inserting
<1>6. s = "accept" => request[r].token \in Gifts
  BY <1>5
<1>7. q \in Registering
  BY <1>4, <1>5, <1>6 DEF Registering
<1> HIDE DEF q
<1> QED
  BY <1>1, <1>2, <1>4, <1>7

\* A request that ends.
LEMMA Ending ==
  ASSUME Invite!AccountsTypeOK, NEW r \in Requests, request' = [request EXCEPT ![r] = Invite!Free]
  PROVE  /\ request' \in [Requests -> Registering] /\ request'[r] = Invite!Free
         /\ \A q \in Requests \ {r} : request'[q] = request[q]
<1>1. request \in [Requests -> Registering] /\ Invite!Free \in Registering
  BY DEF Invite!AccountsTypeOK, Registering
<1> QED
  BY <1>1

\* A token goes on only with the phone its gift is for.
LEMMA Validating ==
  ASSUME Invite!AccountsTypeOK, NEW r \in Requests, Invite!RegisterValidate(r)
  PROVE  /\ request' \in [Requests -> Registering]
         /\ \A q \in Requests \ {r} : request'[q] = request[q]
         /\ \/ request'[r] = Invite!Free
            \/ /\ request'[r].pc = "insert" /\ request'[r].token = request[r].token
               /\ request'[r].phone = request[r].phone
               /\ Recipient[request[r].token] = request[r].phone
<1>1. CASE Invite!Valid(request[r].token) /\ Recipient[request[r].token] = request[r].phone
  <2>1. request' = [request EXCEPT ![r].pc = "insert"] /\ request[r].pc = "validate"
    BY <1>1 DEF Invite!RegisterValidate
  <2> QED
    BY <1>1, <2>1, Advance
<1>2. CASE ~(Invite!Valid(request[r].token) /\ Recipient[request[r].token] = request[r].phone)
  BY <1>2, Ending DEF Invite!RegisterValidate
<1> QED
  BY <1>1, <1>2

\* An account is counted for a token only when the phone had none.
LEMMA Inserted ==
  ASSUME Invite!AccountsTypeOK, NEW r \in Requests, Invite!RegisterInsert(r)
  PROVE  /\ request' \in [Requests -> Registering]
         /\ \A q \in Requests \ {r} : request'[q] = request[q]
         /\ \/ request'[r] = Invite!Free /\ used' = used
            \/ /\ request[r].phone \notin users /\ request[r].token \in Gifts
               /\ request'[r].pc = "accept" /\ request'[r].token = request[r].token
               /\ request'[r].phone = request[r].phone
               /\ used' = [used EXCEPT ![request[r].token] = @ + 1]
<1>1. CASE request[r].phone \in users \/ request[r].token = Invite!NoToken
  BY <1>1, Ending DEF Invite!RegisterInsert
<1>2. CASE ~(request[r].phone \in users \/ request[r].token = Invite!NoToken)
  <2>1. /\ request' = [request EXCEPT ![r].pc = "accept"] /\ request[r].pc = "insert"
        /\ used' = [used EXCEPT ![request[r].token] = @ + 1]
    BY <1>2 DEF Invite!RegisterInsert
  <2>2. request[r].token \in Gifts
    BY <1>2, <2>1, RequestStages DEF Inserting
  <2> QED
    BY <1>2, <2>1, <2>2, Advance
<1> QED
  BY <1>1, <1>2

\* An UPDATE of an invitation finds its row or changes nothing.
LEMMA Marked ==
  ASSUME Invite!AccountsTypeOK, NEW g \in Gifts, NEW s \in Statuses, Invite!Mark(g, s)
  PROVE  /\ invitation' \in [Gifts -> Statuses]
         /\ invitation'[g] = (IF invitation[g] = "none" THEN "none" ELSE s)
         /\ \A h \in Gifts \ {g} : invitation'[h] = invitation[h]
  BY DEF Invite!AccountsTypeOK, Statuses, Invite!Mark

\* A claim that goes on or ends.
LEMMA ClaimMoves ==
  ASSUME Invite!AccountsTypeOK, NEW c \in Claimers,
         Invite!ClaimMark(c) \/ claim' = [claim EXCEPT ![c] = Invite!Free]
  PROVE  /\ claim' \in [Claimers -> Claiming]
         /\ \A d \in Claimers \ {c} : claim'[d] = claim[d]
         /\ \/ claim'[c] = Invite!Free
            \/ /\ claim'[c].pc = "claim" /\ claim'[c].gift = claim[c].gift
               /\ claim'[c].phone = claim[c].phone
<1>1. claim \in [Claimers -> Claiming] /\ Invite!Free \in Claiming
  BY DEF Invite!AccountsTypeOK, Claiming
<1> DEFINE q == [pc |-> "claim", gift |-> claim[c].gift, phone |-> claim[c].phone]
<1>2. ASSUME Invite!ClaimMark(c)
      PROVE  claim' = [claim EXCEPT ![c] = q] /\ q \in Claiming
  <2>1. claim[c] \in Claims /\ claim' = [claim EXCEPT ![c].pc = "claim"]
    BY <1>2, ClaimStages DEF Invite!ClaimMark
  <2>2. [claim[c] EXCEPT !.pc = "claim"] = q /\ q \in Claiming
    BY <2>1 DEF Claims, Claiming
  <2> QED
    BY <1>1, <2>1, <2>2
<1>3. q.pc = "claim" /\ q.gift = claim[c].gift /\ q.phone = claim[c].phone
  OBVIOUS
<1> HIDE DEF q
<1> QED
  BY <1>1, <1>2, <1>3

-----------------------------------------------------------------------------
\* Each step keeps the types of the requests, the claims and the invitations ...
LEMMA RequestTypes ==
  ASSUME Invite!AccountsTypeOK, [Invite!Next]_(Invite!vars) PROVE request' \in [Requests -> Registering]
<1>1. request \in [Requests -> Registering]
  BY DEF Invite!AccountsTypeOK, Registering
<1>2. ASSUME NEW r \in Requests, NEW p \in Phones, NEW t \in Gifts \cup {Invite!NoToken},
             Invite!RegisterStart(r, p, t)
      PROVE  request' \in [Requests -> Registering]
  BY <1>1, <1>2 DEF Invite!RegisterStart, Registering
<1>3. ASSUME NEW r \in Requests, Invite!Register(r) \/ Invite!RegisterFails(r)
      PROVE  request' \in [Requests -> Registering]
  BY <1>3, Validating, Inserted, Ending DEF Invite!Register, Invite!RegisterAccept,
     Invite!RegisterFails
<1>4. CASE UNCHANGED request
  BY <1>1, <1>4
<1> QED
  BY <1>2, <1>3, <1>4 DEF Invite!Next, Invite!vars, Invite!CreateInvitation, Invite!Lapse,
     Invite!Unlock, Invite!ClaimStart, Invite!Claim, Invite!ClaimMark, Invite!ClaimGift,
     Invite!ClaimFails, Invite!Erase

\* The same of the claims ...
LEMMA ClaimTypes ==
  ASSUME Invite!AccountsTypeOK, [Invite!Next]_(Invite!vars) PROVE claim' \in [Claimers -> Claiming]
<1>1. claim \in [Claimers -> Claiming]
  BY DEF Invite!AccountsTypeOK, Claiming
<1>2. ASSUME NEW c \in Claimers, NEW g \in Gifts, NEW p \in Phones, Invite!ClaimStart(c, g, p)
      PROVE  claim' \in [Claimers -> Claiming]
  BY <1>1, <1>2 DEF Invite!ClaimStart, Claiming
<1>3. ASSUME NEW c \in Claimers, Invite!Claim(c) \/ Invite!ClaimFails(c)
      PROVE  claim' \in [Claimers -> Claiming]
  BY <1>3, ClaimMoves DEF Invite!Claim, Invite!ClaimGift, Invite!ClaimFails
<1>4. CASE UNCHANGED claim
  BY <1>1, <1>4
<1> QED
  BY <1>2, <1>3, <1>4 DEF Invite!Next, Invite!vars, Invite!CreateInvitation, Invite!Lapse,
     Invite!Unlock, Invite!Register, Invite!RegisterStart, Invite!RegisterValidate,
     Invite!RegisterInsert, Invite!RegisterAccept, Invite!RegisterFails, Invite!Erase

\* ... of the invitations ...
LEMMA InvitationTypes ==
  ASSUME Invite!AccountsTypeOK, [Invite!Next]_(Invite!vars) PROVE invitation' \in [Gifts -> Statuses]
<1>1. invitation \in [Gifts -> Statuses]
  BY DEF Invite!AccountsTypeOK, Statuses
<1>2. ASSUME NEW g \in Gifts, Invite!CreateInvitation(g) PROVE invitation' \in [Gifts -> Statuses]
  BY <1>1, <1>2 DEF Invite!CreateInvitation, Statuses
<1>3. ASSUME NEW r \in Requests, Invite!RegisterAccept(r) PROVE invitation' \in [Gifts -> Statuses]
  BY <1>3, RequestStages, Marked DEF Invite!RegisterAccept, Validated, Statuses
<1>4. ASSUME NEW c \in Claimers, Invite!ClaimMark(c) PROVE invitation' \in [Gifts -> Statuses]
  BY <1>4, ClaimStages, Marked DEF Invite!ClaimMark, Claims, Statuses
<1>5. ASSUME NEW p \in Phones, Invite!Erase(p) PROVE invitation' \in [Gifts -> Statuses]
  BY <1>1, <1>5 DEF Invite!Erase, Statuses
<1>6. CASE UNCHANGED invitation
  BY <1>1, <1>6
<1> QED
  BY <1>2, <1>3, <1>4, <1>5, <1>6 DEF Invite!Next, Invite!vars, Invite!Lapse, Invite!Unlock,
     Invite!gifts, Invite!ClaimStart, Invite!Claim, Invite!ClaimGift, Invite!ClaimFails,
     Invite!Register, Invite!RegisterStart, Invite!RegisterValidate, Invite!RegisterInsert,
     Invite!RegisterFails

\* ... of the accounts counted for a token ...
LEMMA UsedTypes ==
  ASSUME Invite!AccountsTypeOK, [Invite!Next]_(Invite!vars) PROVE used' \in [Gifts -> Nat]
<1>1. ASSUME NEW r \in Requests, Invite!RegisterInsert(r) PROVE used' \in [Gifts -> Nat]
  BY <1>1, Inserted DEF Invite!AccountsTypeOK
<1>2. CASE UNCHANGED used
  BY <1>2 DEF Invite!AccountsTypeOK
<1> QED
  BY <1>1, <1>2 DEF Invite!Next, Invite!vars, Invite!history, Invite!CreateInvitation,
     Invite!Lapse, Invite!Unlock, Invite!ClaimStart, Invite!Claim, Invite!ClaimMark,
     Invite!ClaimGift, Invite!ClaimFails, Invite!Register, Invite!RegisterStart,
     Invite!RegisterValidate, Invite!RegisterAccept, Invite!RegisterFails, Invite!Erase

\* The parts of TypeOK that the steps below need.
LEMMA SmallTypes ==
  ASSUME Invite!AccountsTypeOK
  PROVE  /\ erasures \in 0..MaxErasures /\ faults \in 0..MaxFaults
         /\ users \subseteq signedUp /\ signedUp \subseteq Phones /\ erased \subseteq Phones
         /\ sent \subseteq Gifts /\ lapsed \subseteq sent /\ unlocked \subseteq sent
         /\ paidTo \in [Gifts -> Phones \cup {Invite!Nobody}]
  BY Zenon DEF Invite!AccountsTypeOK

\* ... of the counts of deletions and faults ...
LEMMA CountTypes ==
  ASSUME Invite!AccountsTypeOK, [Invite!Next]_(Invite!vars)
  PROVE  erasures' \in 0..MaxErasures /\ faults' \in 0..MaxFaults
<1>1. erasures' = erasures \/ (erasures < MaxErasures /\ erasures' = erasures + 1)
  BY DEF Invite!Next, Invite!vars, Invite!history, Invite!CreateInvitation, Invite!Lapse,
     Invite!Unlock, Invite!ClaimStart, Invite!Claim, Invite!ClaimMark, Invite!ClaimGift,
     Invite!ClaimFails, Invite!Register, Invite!RegisterStart, Invite!RegisterValidate,
     Invite!RegisterInsert, Invite!RegisterAccept, Invite!RegisterFails, Invite!Erase
<1>2. faults' = faults \/ (faults < MaxFaults /\ faults' = faults + 1)
  BY DEF Invite!Next, Invite!vars, Invite!history, Invite!CreateInvitation, Invite!Lapse,
     Invite!Unlock, Invite!ClaimStart, Invite!Claim, Invite!ClaimMark, Invite!ClaimGift,
     Invite!ClaimFails, Invite!Register, Invite!RegisterStart, Invite!RegisterValidate,
     Invite!RegisterInsert, Invite!RegisterAccept, Invite!RegisterFails, Invite!Erase
<1> QED
  <2>1. MaxErasures \in Nat /\ MaxFaults \in Nat
    BY RegistrationAssumption
  <2>2. erasures \in 0..MaxErasures /\ faults \in 0..MaxFaults
    BY SmallTypes
  <2> QED
    BY <1>1, <1>2, <2>1, <2>2

\* ... and of the sets.
LEMMA SetTypes ==
  ASSUME Invite!AccountsTypeOK, [Invite!Next]_(Invite!vars)
  PROVE  /\ checked' \in BOOLEAN /\ users' \subseteq signedUp' /\ signedUp' \subseteq Phones
         /\ sent' \subseteq Gifts /\ lapsed' \subseteq sent' /\ unlocked' \subseteq sent'
         /\ erased' \subseteq Phones
<1>1. checked' = checked
  BY DEF Invite!Next, Invite!vars, Invite!history, Invite!CreateInvitation, Invite!Lapse,
     Invite!Unlock, Invite!ClaimStart, Invite!Claim, Invite!ClaimMark, Invite!ClaimGift,
     Invite!ClaimFails, Invite!Register, Invite!RegisterStart, Invite!RegisterValidate,
     Invite!RegisterInsert, Invite!RegisterAccept, Invite!RegisterFails, Invite!Erase
<1>2. ASSUME NEW r \in Requests, Invite!RegisterInsert(r)
      PROVE  users' \subseteq signedUp' /\ signedUp' \subseteq Phones
  BY <1>2, RequestStages DEF Invite!RegisterInsert, Inserting, Invite!AccountsTypeOK
<1>3. ASSUME NEW p \in Phones, Invite!Erase(p)
      PROVE  users' \subseteq signedUp' /\ signedUp' \subseteq Phones /\ erased' \subseteq Phones
  BY <1>3, SmallTypes DEF Invite!Erase
<1>4. ASSUME UNCHANGED <<users, signedUp>>
      PROVE  users' \subseteq signedUp' /\ signedUp' \subseteq Phones
  BY <1>4, SmallTypes
<1>5. users' \subseteq signedUp' /\ signedUp' \subseteq Phones
  BY <1>2, <1>3, <1>4 DEF Invite!Next, Invite!vars, Invite!CreateInvitation, Invite!Lapse,
     Invite!Unlock, Invite!ClaimStart, Invite!Claim, Invite!ClaimMark, Invite!ClaimGift,
     Invite!ClaimFails, Invite!Register, Invite!RegisterStart, Invite!RegisterValidate,
     Invite!RegisterAccept, Invite!RegisterFails
<1>6. ASSUME UNCHANGED erased PROVE erased' \subseteq Phones
  BY <1>6, SmallTypes
<1>7. erased' \subseteq Phones
  BY <1>3, <1>6 DEF Invite!Next, Invite!vars, Invite!history, Invite!CreateInvitation,
     Invite!Lapse, Invite!Unlock, Invite!ClaimStart, Invite!Claim, Invite!ClaimMark,
     Invite!ClaimGift, Invite!ClaimFails, Invite!Register, Invite!RegisterStart,
     Invite!RegisterValidate, Invite!RegisterInsert, Invite!RegisterAccept, Invite!RegisterFails
<1>8. sent' \subseteq Gifts /\ lapsed' \subseteq sent' /\ unlocked' \subseteq sent'
  <2>1. ASSUME NEW g \in Gifts, Invite!CreateInvitation(g) \/ Invite!Lapse(g) \/ Invite!Unlock(g)
        PROVE  <1>8!:
    BY <2>1, SmallTypes DEF Invite!CreateInvitation, Invite!Lapse, Invite!Unlock
  <2>2. CASE UNCHANGED Invite!gifts
    BY <2>2, SmallTypes DEF Invite!gifts
  <2>3. \/ \E g \in Gifts : Invite!CreateInvitation(g) \/ Invite!Lapse(g) \/ Invite!Unlock(g)
        \/ UNCHANGED Invite!gifts
    BY DEF Invite!Next, Invite!vars, Invite!ClaimStart, Invite!Claim, Invite!ClaimMark,
       Invite!ClaimGift, Invite!ClaimFails, Invite!Register, Invite!RegisterStart,
       Invite!RegisterValidate, Invite!RegisterInsert, Invite!RegisterAccept,
       Invite!RegisterFails, Invite!Erase
  <2> QED
    BY <2>1, <2>2, <2>3
<1> QED
  BY <1>1, <1>5, <1>7, <1>8 DEF Invite!AccountsTypeOK

\* A gift is paid by a claim that has passed the invitation, to whose claim it is,
\* and a lapse is for good.
LEMMA PaidStep ==
  ASSUME Invite!AccountsTypeOK, [Invite!Next]_(Invite!vars)
  PROVE  /\ lapsed \subseteq lapsed'
         /\ \/ paidTo' = paidTo
            \/ \E c \in Claimers :
                 /\ claim[c] \in Claims /\ claim[c].pc = "claim"
                 /\ paidTo' = [paidTo EXCEPT ![claim[c].gift] = claim[c].phone]
                 /\ UNCHANGED <<invitation, lapsed, sent>>
<1>1. ASSUME NEW c \in Claimers, Invite!ClaimGift(c), paidTo' # paidTo
      PROVE  /\ claim[c] \in Claims /\ claim[c].pc = "claim"
             /\ paidTo' = [paidTo EXCEPT ![claim[c].gift] = claim[c].phone]
             /\ UNCHANGED <<invitation, lapsed, sent>>
  BY <1>1, ClaimStages DEF Invite!ClaimGift, Invite!gifts
<1>2. ASSUME NEW c \in Claimers, Invite!ClaimGift(c) PROVE lapsed \subseteq lapsed'
  BY <1>2 DEF Invite!ClaimGift, Invite!gifts
<1> QED
  BY <1>1, <1>2 DEF Invite!Next, Invite!vars, Invite!gifts, Invite!CreateInvitation, Invite!Lapse,
     Invite!Unlock, Invite!ClaimStart, Invite!Claim, Invite!ClaimMark, Invite!ClaimFails,
     Invite!Register, Invite!RegisterStart, Invite!RegisterValidate, Invite!RegisterInsert,
     Invite!RegisterAccept, Invite!RegisterFails, Invite!Erase

\* ... of whom the gifts are paid to.
LEMMA PaidTypes ==
  ASSUME Invite!AccountsTypeOK, [Invite!Next]_(Invite!vars)
  PROVE  paidTo' \in [Gifts -> Phones \cup {Invite!Nobody}]
<1>1. paidTo \in [Gifts -> Phones \cup {Invite!Nobody}]
  BY SmallTypes
<1> QED
  BY <1>1, PaidStep DEF Claims

\* Hence every variable keeps its type ...
LEMMA InviteTypeStep ==
  ASSUME Invite!AccountsTypeOK, [Invite!Next]_(Invite!vars) PROVE Invite!AccountsTypeOK'
  BY RequestTypes, ClaimTypes, InvitationTypes, UsedTypes, CountTypes, SetTypes,
     PaidTypes DEF Invite!AccountsTypeOK, Registering, Claiming, Statuses

\* ... and has it to begin with.
LEMMA InviteTypeInit == ASSUME Invite!Init PROVE Invite!AccountsTypeOK
<1>1. {Sender[g] : g \in Gifts} \subseteq Phones
  BY RegistrationAssumption
<1>2. /\ invitation \in [Gifts -> Statuses] /\ request \in [Requests -> Registering]
      /\ claim \in [Claimers -> Claiming] /\ used \in [Gifts -> Nat]
      /\ paidTo \in [Gifts -> Phones \cup {Invite!Nobody}]
  BY DEF Invite!Init, Statuses, Registering, Claiming
<1>3. erasures \in 0..MaxErasures /\ faults \in 0..MaxFaults
  <2>1. erasures = 0 /\ faults = 0
    BY Zenon DEF Invite!Init
  <2>2. MaxErasures \in Nat /\ MaxFaults \in Nat
    BY RegistrationAssumption, Zenon
  <2> QED
    BY <2>1, <2>2
<1>4. /\ users \subseteq signedUp /\ signedUp \subseteq Phones
      /\ sent \subseteq Gifts /\ lapsed \subseteq sent /\ unlocked \subseteq sent
      /\ erased \subseteq Phones
  BY <1>1 DEF Invite!Init
<1>5. checked \in BOOLEAN
  BY DEF Invite!Init
<1> QED
  BY <1>2, <1>3, <1>4, <1>5 DEF Invite!AccountsTypeOK, Statuses, Registering, Claiming

-----------------------------------------------------------------------------
\* The ways of a request: it ends, starts with a token that was sent, is found to
\* be from whom the gift is for, or makes the account.
Ended(r) == request'[r] = Invite!Free
Started(r) ==
  /\ request[r] = Invite!Free
  /\ \/ request'[r].pc = "insert" /\ request'[r].token = Invite!NoToken
     \/ request'[r].pc = "validate" /\ request'[r].token \in sent
Carried(r) == request'[r].token = request[r].token /\ request'[r].phone = request[r].phone
Checked(r) ==
  /\ request[r].pc = "validate" /\ request'[r].pc = "insert" /\ Carried(r)
  /\ Recipient[request[r].token] = request[r].phone
Made(r) ==
  /\ request[r].pc = "insert" /\ request'[r].pc = "accept" /\ Carried(r)
  /\ request[r].token \in Gifts /\ request[r].phone \notin users
  /\ users' = users \cup {request[r].phone}
  /\ used' = [used EXCEPT ![request[r].token] = @ + 1]
  /\ UNCHANGED <<invitation, erased, sent>>

\* A request goes one of these ways, and an account is made by one at a time.
LEMMA RequestStep ==
  ASSUME Invite!AccountsTypeOK, [Invite!Next]_(Invite!vars), NEW r \in Requests
  PROVE  \/ request'[r] = request[r] \/ Ended(r) \/ Started(r) \/ Checked(r)
         \/ Made(r) /\ \A q \in Requests \ {r} : request'[q] = request[q]
<1>1. SUFFICES ASSUME request'[r] # request[r]
               PROVE  \/ Ended(r) \/ Started(r) \/ Checked(r)
                      \/ Made(r) /\ \A q \in Requests \ {r} : request'[q] = request[q]
  OBVIOUS
<1>2. PICK q \in Requests :
             \/ \E p \in Phones, t \in Gifts \cup {Invite!NoToken} : Invite!RegisterStart(q, p, t)
             \/ Invite!Register(q) \/ Invite!RegisterFails(q)
  BY <1>1 DEF Invite!Next, Invite!vars, Invite!CreateInvitation, Invite!Lapse, Invite!Unlock,
     Invite!ClaimStart, Invite!Claim, Invite!ClaimMark, Invite!ClaimGift, Invite!ClaimFails,
     Invite!Erase
<1>3. ASSUME NEW p \in Phones, NEW t \in Gifts \cup {Invite!NoToken}, Invite!RegisterStart(q, p, t)
      PROVE  Started(r)
  BY <1>1, <1>3 DEF Invite!RegisterStart, Started, Invite!AccountsTypeOK
<1>4. CASE Invite!RegisterValidate(q)
  <2>1. q = r /\ request[r].pc = "validate"
    BY <1>1, <1>4, Validating DEF Invite!RegisterValidate
  <2> QED
    BY <1>4, <2>1, Validating DEF Ended, Checked, Carried
<1>5. CASE Invite!RegisterInsert(q)
  <2>1. q = r
    BY <1>1, <1>5, Inserted
  <2>2. /\ request[r].pc = "insert" /\ users' = users \cup {request[r].phone}
        /\ UNCHANGED <<invitation, erased, sent>>
    BY <1>5, <2>1 DEF Invite!RegisterInsert, Invite!gifts
  <2> QED
    BY <1>5, <2>1, <2>2, Inserted DEF Ended, Made, Carried
<1>6. CASE Invite!RegisterAccept(q) \/ Invite!RegisterFails(q)
  BY <1>1, <1>6, Ending DEF Invite!RegisterAccept, Invite!RegisterFails, Ended
<1> QED
  BY <1>2, <1>3, <1>4, <1>5, <1>6 DEF Invite!Register

\* What was sent stays sent, who was erased stays erased.
LEMMA SentStep ==
  ASSUME [Invite!Next]_(Invite!vars) PROVE sent \subseteq sent' /\ erased \subseteq erased'
  BY DEF Invite!Next, Invite!vars, Invite!gifts, Invite!history, Invite!CreateInvitation,
     Invite!Lapse, Invite!Unlock, Invite!ClaimStart, Invite!Claim, Invite!ClaimMark,
     Invite!ClaimGift, Invite!ClaimFails, Invite!Register, Invite!RegisterStart,
     Invite!RegisterValidate, Invite!RegisterInsert, Invite!RegisterAccept, Invite!RegisterFails,
     Invite!Erase

\* A token keeps its gift and its phone.
LEMMA TokensFitStep ==
  ASSUME Invite!AccountsTypeOK, TokensFit, [Invite!Next]_(Invite!vars) PROVE TokensFit'
<1>1. ASSUME NEW r \in Requests
      PROVE  /\ request'[r].pc = "validate" => request'[r].token \in sent'
             /\ request'[r].pc \in {"insert", "accept"} /\ request'[r].token # Invite!NoToken =>
                  request'[r].token \in sent' /\ request'[r].phone = Recipient[request'[r].token]
  <2>1. CASE request'[r] = request[r]
    BY <2>1, SentStep DEF TokensFit
  <2>2. CASE Ended(r)
    BY <2>2 DEF Ended, Invite!Free
  <2>3. CASE Started(r)
    BY <2>3, SentStep DEF Started
  <2>4. CASE Checked(r)
    BY <2>4, SentStep DEF TokensFit, Checked, Carried
  <2>5. CASE Made(r)
    BY <2>5, SentStep DEF TokensFit, Made, Carried
  <2> QED
    BY <2>1, <2>2, <2>3, <2>4, <2>5, RequestStep
<1> QED
  BY <1>1 DEF TokensFit

\* The gift a claim names was sent.
LEMMA ClaimsFitStep ==
  ASSUME Invite!AccountsTypeOK, ClaimsFit, [Invite!Next]_(Invite!vars) PROVE ClaimsFit'
<1>1. ASSUME NEW c \in Claimers, claim'[c] # Invite!Free PROVE claim'[c].gift \in sent'
  <2>1. CASE claim'[c] = claim[c]
    BY <1>1, <2>1, SentStep DEF ClaimsFit
  <2>2. ASSUME NEW d \in Claimers, NEW g \in Gifts, NEW p \in Phones,
               Invite!ClaimStart(d, g, p), claim'[c] # claim[c]
        PROVE  claim'[c].gift \in sent'
    BY <2>2, SentStep DEF Invite!ClaimStart, Invite!AccountsTypeOK
  <2>3. ASSUME NEW d \in Claimers, claim'[c] # claim[c],
               Invite!ClaimMark(d) \/ claim' = [claim EXCEPT ![d] = Invite!Free]
        PROVE  claim'[c].gift \in sent'
    <3>1. d = c /\ claim'[c].gift = claim[c].gift
      BY <1>1, <2>3, ClaimMoves
    <3>2. Invite!ClaimMark(c)
      BY <1>1, <2>3, <3>1, ClaimMoves DEF Invite!AccountsTypeOK
    <3>3. claim[c] # Invite!Free
      BY <3>2 DEF Invite!ClaimMark, Invite!Free
    <3> QED
      BY <3>1, <3>3, SentStep DEF ClaimsFit
  <2> QED
    BY <2>1, <2>2, <2>3 DEF Invite!Next, Invite!vars, Invite!CreateInvitation, Invite!Lapse,
       Invite!Unlock, Invite!Register, Invite!RegisterStart, Invite!RegisterValidate,
       Invite!RegisterInsert, Invite!RegisterAccept, Invite!RegisterFails, Invite!Erase,
       Invite!Claim, Invite!ClaimGift, Invite!ClaimFails
<1> QED
  BY <1>1 DEF ClaimsFit

\* What becomes of an invitation: it is sent, deleted with its sender, accepted by
\* a request that has made the account, or used up by a claim.
LEMMA InvitationStep ==
  ASSUME Invite!AccountsTypeOK, [Invite!Next]_(Invite!vars), NEW g \in Gifts
  PROVE  \/ invitation'[g] = invitation[g] \/ invitation'[g] = "none"
         \/ g \notin sent /\ g \in sent' /\ invitation'[g] = "pending"
         \/ \E r \in Accepting(g) : Invite!RegisterAccept(r) /\ invitation'[g] = "accepted"
         \/ \E c \in Claimers :
              Invite!ClaimMark(c) /\ claim[c].gift = g /\ invitation'[g] = "claimed"
<1>1. ASSUME NEW h \in Gifts, Invite!CreateInvitation(h)
      PROVE  \/ invitation'[g] = invitation[g]
             \/ g \notin sent /\ g \in sent' /\ invitation'[g] = "pending"
  BY <1>1 DEF Invite!CreateInvitation, Invite!AccountsTypeOK
<1>2. ASSUME NEW r \in Requests, Invite!RegisterAccept(r)
      PROVE  \/ invitation'[g] = invitation[g] \/ invitation'[g] = "none"
             \/ r \in Accepting(g) /\ invitation'[g] = "accepted"
  <2>1. /\ request[r].token \in Gifts /\ request[r].pc = "accept"
        /\ Invite!Mark(request[r].token, "accepted")
    BY <1>2, RequestStages DEF Invite!RegisterAccept, Validated
  <2> QED
    BY <2>1, Marked DEF Accepting, Statuses
<1>3. ASSUME NEW c \in Claimers, Invite!ClaimMark(c)
      PROVE  \/ invitation'[g] = invitation[g] \/ invitation'[g] = "none"
             \/ claim[c].gift = g /\ invitation'[g] = "claimed"
  <2>1. claim[c].gift \in Gifts /\ Invite!Mark(claim[c].gift, "claimed")
    BY <1>3, ClaimStages DEF Invite!ClaimMark, Claims
  <2> QED
    BY <2>1, Marked DEF Statuses
<1>4. ASSUME NEW p \in Phones, Invite!Erase(p)
      PROVE  invitation'[g] = invitation[g] \/ invitation'[g] = "none"
  BY <1>4 DEF Invite!Erase
<1> QED
  BY <1>1, <1>2, <1>3, <1>4 DEF Invite!Next, Invite!vars, Invite!Lapse, Invite!Unlock,
     Invite!ClaimStart, Invite!Claim, Invite!ClaimGift, Invite!ClaimFails, Invite!Register,
     Invite!RegisterStart, Invite!RegisterValidate, Invite!RegisterInsert, Invite!RegisterFails

\* No invitation is there before it is sent.
LEMMA UnsentAreBlankStep ==
  ASSUME Fits, [Invite!Next]_(Invite!vars) PROVE UnsentAreBlank'
<1>1. ASSUME NEW g \in Gifts \ sent' PROVE invitation'[g] = "none"
  <2>1. g \notin sent /\ invitation[g] = "none"
    BY <1>1, SentStep DEF Fits, UnsentAreBlank
  <2>2. Accepting(g) = {}
    <3>1. ASSUME NEW r \in Accepting(g) PROVE FALSE
      <4>1. request[r].token = g /\ request[r].pc = "accept" /\ request[r] \in Validated
        BY RequestStages DEF Accepting, Fits
      <4> QED
        BY <2>1, <4>1, RegistrationAssumption DEF Fits, TokensFit, Invite!NoToken, Accepting
    <3> QED
      BY <3>1
  <2>3. ~\E c \in Claimers : Invite!ClaimMark(c) /\ claim[c].gift = g
    BY <2>1 DEF Fits, ClaimsFit, Invite!ClaimMark, Invite!Free
  <2> QED
    BY <1>1, <2>1, <2>2, <2>3, InvitationStep DEF Fits
<1> QED
  BY <1>1 DEF UnsentAreBlank

\* No gift is paid before its invitation is sent.
LEMMA PaidWereSentStep == ASSUME Fits, [Invite!Next]_(Invite!vars) PROVE PaidWereSent'
<1>1. ASSUME NEW g \in Gifts, paidTo'[g] # Invite!Nobody PROVE g \in sent
  <2>1. CASE paidTo'[g] = paidTo[g]
    BY <1>1, <2>1 DEF Fits, PaidWereSent
  <2>2. CASE paidTo'[g] # paidTo[g]
    <3>1. PICK c \in Claimers : claim[c].pc = "claim" /\ claim[c].gift = g
      BY <2>2, PaidStep, SmallTypes DEF Fits, Claims
    <3> QED
      BY <3>1 DEF Fits, ClaimsFit, Invite!Free
  <2> QED
    BY <2>1, <2>2
<1> QED
  BY <1>1, SentStep DEF PaidWereSent

\* All of them together, with the types.
LEMMA FitsStep == ASSUME Fits, [Invite!Next]_(Invite!vars) PROVE Fits'
  BY InviteTypeStep, TokensFitStep, ClaimsFitStep, UnsentAreBlankStep, PaidWereSentStep DEF Fits

\* What becomes of the accounts a token has made and of their owner.
LEMMA UsedStep ==
  ASSUME Fits, [Invite!Next]_(Invite!vars), NEW g \in Gifts,
         Recipient[g] \notin erased'
  PROVE  /\ Recipient[g] \in users => Recipient[g] \in users'
         /\ \/ used'[g] = used[g]
            \/ \E r \in Requests : Made(r) /\ request[r].token = g
<1>1. ASSUME NEW p \in Phones, Invite!Erase(p)
      PROVE  /\ Recipient[g] \in users => Recipient[g] \in users'
             /\ used' = used
  BY <1>1 DEF Invite!Erase
<1>2. ASSUME NEW r \in Requests, Invite!RegisterInsert(r)
      PROVE  /\ users \subseteq users'
             /\ used'[g] = used[g] \/ (Made(r) /\ request[r].token = g)
  <2>1. /\ request[r].pc = "insert" /\ users' = users \cup {request[r].phone}
        /\ UNCHANGED <<invitation, erased, sent>>
    BY <1>2 DEF Invite!RegisterInsert, Invite!gifts
  <2> QED
    BY <1>2, <2>1, Inserted DEF Fits, Invite!AccountsTypeOK, Made, Carried
<1>3. CASE UNCHANGED <<users, used>>
  BY <1>3
<1> QED
  BY <1>1, <1>2, <1>3 DEF Invite!Next, Invite!vars, Invite!history, Invite!CreateInvitation,
     Invite!Lapse, Invite!Unlock, Invite!ClaimStart, Invite!Claim, Invite!ClaimMark,
     Invite!ClaimGift, Invite!ClaimFails, Invite!Register, Invite!RegisterStart,
     Invite!RegisterValidate, Invite!RegisterAccept, Invite!RegisterFails

\* While the recipient is not erased, the account of a token is made once.
LEMMA OneAccountStep ==
  ASSUME Fits, [Invite!Next]_(Invite!vars), NEW g \in Gifts,
         Recipient[g] \notin erased',
         OneAccount(g), ClaimPassed(g)
  PROVE  OneAccount(g)'
<1> USE DEF OneAccount
<1>1. used[g] \in Nat /\ invitation[g] \in Statuses
  BY DEF Fits, Invite!AccountsTypeOK, Statuses
<1>2. ASSUME NEW r \in Requests, Made(r), request[r].token = g,
             \A q \in Requests \ {r} : request'[q] = request[q]
      PROVE  OneAccount(g)'
  <2>1. request[r].phone = Recipient[g] /\ g # Invite!NoToken
    BY <1>2, RegistrationAssumption DEF Fits, TokensFit, Made, Invite!NoToken
  <2>2. used[g] = 0 /\ used'[g] = 1 /\ Recipient[g] \in users'
    <3>1. used[g] = 0 /\ Recipient[g] \in users'
      BY <1>1, <1>2, <2>1 DEF Made
    <3>2. used \in [Gifts -> Nat]
      BY Zenon DEF Fits, Invite!AccountsTypeOK
    <3> QED
      BY <1>2, <3>1, <3>2 DEF Made
  <2>3. Accepting(g) = {} /\ invitation[g] \in {"none", "pending"}
    BY <2>2
  <2>4. Accepting(g)' = {r}
    BY <1>2, <2>3 DEF Accepting, Made, Carried
  <2> QED
    BY <1>2, <2>2, <2>3, <2>4 DEF Made
<1>3. CASE ~\E r \in Requests : Made(r) /\ request[r].token = g
  <2>1. used'[g] = used[g] /\ (Recipient[g] \in users => Recipient[g] \in users')
    BY <1>3, UsedStep
  <2>2. Accepting(g)' \subseteq Accepting(g)
    <3>1. ASSUME NEW r \in Requests, r \in Accepting(g)' PROVE r \in Accepting(g)
      <4>1. request'[r].pc = "accept" /\ request'[r].token = g
        BY <3>1 DEF Accepting
      <4>2. ~Ended(r) /\ ~Started(r) /\ ~Checked(r)
        BY <4>1 DEF Ended, Started, Checked, Invite!Free
      <4>3. ~Made(r)
        BY <1>3, <4>1 DEF Made, Carried
      <4> QED
        BY <4>1, <4>2, <4>3, RequestStep DEF Fits, Accepting
    <3> QED
      BY <3>1 DEF Accepting
  <2>3. CASE invitation'[g] = invitation[g] \/ invitation'[g] = "none"
    BY <2>1, <2>2, <2>3
  <2>4. CASE g \notin sent /\ invitation'[g] = "pending"
    BY <2>1, <2>2, <2>4 DEF Fits, UnsentAreBlank
  <2>5. ASSUME NEW r \in Accepting(g), Invite!RegisterAccept(r), invitation'[g] = "accepted"
        PROVE  OneAccount(g)'
    <3>1. r \in Requests /\ r \notin Accepting(g)'
      BY <2>5, Ending DEF Accepting, Invite!RegisterAccept, Invite!Free, Fits
    <3>2. Accepting(g)' = {}
      BY <2>2, <3>1
    <3> QED
      BY <2>1, <2>5, <3>2
  <2>6. ASSUME NEW c \in Claimers, Invite!ClaimMark(c), claim[c].gift = g,
               invitation'[g] = "claimed"
        PROVE  OneAccount(g)'
    <3>1. invitation[g] # "none"
      BY <1>1, <2>6, Marked DEF Invite!ClaimMark, Statuses, Fits
    <3>2. invitation[g] \in {"accepted", "claimed"}
      BY <2>6, <3>1 DEF ClaimPassed, Invite!ClaimMark
    <3>3. Accepting(g) = {} /\ used[g] # 0
      BY <3>2
    <3> QED
      BY <1>1, <2>1, <2>2, <3>3
  <2> QED
    BY <2>3, <2>4, <2>5, <2>6, InvitationStep DEF Fits
<1>4. ASSUME NEW r \in Requests, Made(r) PROVE \A q \in Requests \ {r} : request'[q] = request[q]
  <2>1. request'[r] # request[r] /\ ~Ended(r) /\ ~Started(r) /\ ~Checked(r)
    BY <1>4 DEF Made, Ended, Started, Checked, Invite!Free
  <2> QED
    BY <2>1, RequestStep DEF Fits
<1> QED
  BY <1>2, <1>3, <1>4

\* An invitation that was sent goes on to what a claim may pass, or is deleted.
LEMMA InvitationOnward ==
  ASSUME Fits, [Invite!Next]_(Invite!vars), NEW g \in Gifts, OneAccount(g)
  PROVE  \/ invitation'[g] = invitation[g] \/ invitation'[g] \in {"none", "claimed"}
         \/ g \notin sent /\ invitation[g] = "none"
         \/ invitation[g] = "pending" /\ invitation'[g] = "accepted"
<1>1. ASSUME NEW r \in Accepting(g), Invite!RegisterAccept(r), invitation'[g] = "accepted"
      PROVE  invitation[g] = "pending"
  <2>1. r \in Requests /\ request[r].token = g /\ Invite!Mark(g, "accepted") /\ Accepting(g) # {}
    BY <1>1 DEF Accepting, Invite!RegisterAccept
  <2>2. invitation[g] # "none"
    BY <1>1, <2>1, Marked DEF Statuses, Fits
  <2> QED
    BY <2>1, <2>2 DEF OneAccount
<1>2. g \notin sent => invitation[g] = "none"
  BY DEF Fits, UnsentAreBlank
<1> QED
  BY <1>1, <1>2, InvitationStep DEF Fits

\* The ways of a claim: it ends, starts, or has used its invitation up.
Begun(c, g, p) ==
  /\ Invite!Invited(g, p) => invitation[g] = "accepted"
  /\ claim'[c] = [pc |-> IF Invite!Invited(g, p) THEN "mark" ELSE "claim",
                  gift |-> g, phone |-> p]
  /\ UNCHANGED <<invitation, lapsed>>
Marking(c) ==
  /\ Invite!ClaimMark(c) /\ claim'[c].pc = "claim"
  /\ claim'[c].gift = claim[c].gift /\ claim'[c].phone = claim[c].phone

LEMMA ClaimStep ==
  ASSUME Invite!AccountsTypeOK, [Invite!Next]_(Invite!vars), NEW c \in Claimers
  PROVE  \/ claim'[c] = claim[c] \/ claim'[c] = Invite!Free
         \/ \E g \in Gifts, p \in Phones : Begun(c, g, p)
         \/ Marking(c)
<1>1. ASSUME NEW d \in Claimers, NEW g \in Gifts, NEW p \in Phones, Invite!ClaimStart(d, g, p),
             claim'[c] # claim[c]
      PROVE  Begun(c, g, p)
  <2> DEFINE q == [pc |-> IF Invite!Invited(g, p) THEN "mark" ELSE "claim", gift |-> g, phone |-> p]
  <2>1. claim' = [claim EXCEPT ![d] = q]
    BY <1>1 DEF Invite!ClaimStart
  <2> HIDE DEF q
  <2>2. d = c
    BY <1>1, <2>1 DEF Invite!AccountsTypeOK
  <2>3. claim'[c] = q
    BY <2>1, <2>2 DEF Invite!AccountsTypeOK
  <2> QED
    BY <1>1, <2>3 DEF Invite!ClaimStart, Invite!gifts, Begun, q
<1>2. ASSUME NEW d \in Claimers, Invite!ClaimMark(d) \/ claim' = [claim EXCEPT ![d] = Invite!Free],
             claim'[c] # claim[c], claim'[c] # Invite!Free
      PROVE  Marking(c)
  <2>1. d = c
    BY <1>2, ClaimMoves
  <2> QED
    BY <1>2, <2>1, ClaimMoves DEF Invite!AccountsTypeOK, Marking
<1>3. \/ claim'[c] = claim[c]
      \/ \E d \in Claimers, g \in Gifts, p \in Phones : Invite!ClaimStart(d, g, p)
      \/ \E d \in Claimers : Invite!ClaimMark(d) \/ claim' = [claim EXCEPT ![d] = Invite!Free]
  BY DEF Invite!Next, Invite!vars, Invite!CreateInvitation, Invite!Lapse, Invite!Unlock,
     Invite!Register, Invite!RegisterStart, Invite!RegisterValidate, Invite!RegisterInsert,
     Invite!RegisterAccept, Invite!RegisterFails, Invite!Erase, Invite!Claim, Invite!ClaimGift,
     Invite!ClaimFails
<1> QED
  BY <1>1, <1>2, <1>3

\* A claim that has passed stays entitled to, whatever becomes of the invitation.
LEMMA ClaimPassedStep ==
  ASSUME Fits, [Invite!Next]_(Invite!vars), NEW g \in Gifts,
         OneAccount(g), ClaimPassed(g)
  PROVE  ClaimPassed(g)'
<1>1. /\ g \in sent /\ invitation[g] \in {"none", "accepted", "claimed"} =>
           invitation'[g] \in {"none", "accepted", "claimed"}
      /\ g \in sent /\ (g \in lapsed \/ invitation[g] \in {"none", "claimed"}) =>
           g \in lapsed' \/ invitation'[g] \in {"none", "claimed"}
  <2>1. lapsed \subseteq lapsed'
    BY PaidStep DEF Fits
  <2> QED
    BY <2>1, InvitationOnward
<1>2. ASSUME NEW c \in Claimers, claim'[c].pc = "mark" /\ claim'[c].gift = g
      PROVE  invitation'[g] \in {"none", "accepted", "claimed"}
  <2>1. CASE claim'[c] = claim[c]
    <3>1. g \in sent
      BY <1>2, <2>1 DEF Fits, ClaimsFit, Invite!Free
    <3> QED
      BY <1>1, <1>2, <2>1, <3>1 DEF ClaimPassed
  <2>2. ASSUME NEW h \in Gifts, NEW p \in Phones, Begun(c, h, p)
        PROVE  invitation'[g] \in {"none", "accepted", "claimed"}
    BY <1>2, <2>2 DEF Begun
  <2> QED
    BY <1>2, <2>1, <2>2, ClaimStep DEF Fits, Invite!Free, Marking
<1>3. ASSUME NEW c \in Claimers, claim'[c].pc = "claim" /\ claim'[c].gift = g,
             claim'[c].phone = Recipient[g]
      PROVE  g \in lapsed' \/ invitation'[g] \in {"none", "claimed"}
  <2>1. CASE claim'[c] = claim[c]
    <3>1. g \in sent
      BY <1>3, <2>1 DEF Fits, ClaimsFit, Invite!Free
    <3> QED
      BY <1>1, <1>3, <2>1, <3>1 DEF ClaimPassed
  <2>2. ASSUME NEW h \in Gifts, NEW p \in Phones, Begun(c, h, p)
        PROVE  g \in lapsed' \/ invitation'[g] \in {"none", "claimed"}
    BY <1>3, <2>2 DEF Begun, Invite!Invited
  <2>3. CASE Marking(c)
    BY <1>3, <2>3, Marked DEF Marking, Invite!ClaimMark, Statuses, Fits
  <2> QED
    BY <1>3, <2>1, <2>2, <2>3, ClaimStep DEF Fits, Invite!Free
<1>4. ASSUME paidTo'[g] = Recipient[g] PROVE g \in lapsed' \/ invitation'[g] \in {"none", "claimed"}
  <2>1. CASE paidTo[g] = Recipient[g]
    <3>1. g \in sent
      BY <2>1, RegistrationAssumption DEF Fits, PaidWereSent, Invite!Nobody
    <3> QED
      BY <1>1, <2>1, <3>1 DEF ClaimPassed
  <2>2. CASE paidTo[g] # Recipient[g]
    <3>1. PICK c \in Claimers :
            /\ claim[c] \in Claims /\ claim[c].pc = "claim"
            /\ paidTo' = [paidTo EXCEPT ![claim[c].gift] = claim[c].phone]
            /\ UNCHANGED <<invitation, lapsed, sent>>
      BY <1>4, <2>2, PaidStep DEF Fits
    <3>2. claim[c].gift = g /\ claim[c].phone = Recipient[g]
      BY <1>4, <2>2, <3>1, SmallTypes DEF Fits
    <3> QED
      BY <3>1, <3>2 DEF ClaimPassed
  <2> QED
    BY <2>1, <2>2
<1> QED
  BY <1>2, <1>3, <1>4 DEF ClaimPassed

-----------------------------------------------------------------------------
\* The invariant is inductive ...
LEMMA InviteStep == ASSUME InviteInv, [Invite!Next]_(Invite!vars) PROVE InviteInv'
<1>1. Fits'
  BY FitsStep DEF InviteInv
<1>2. ASSUME NEW g \in Gifts, Recipient[g] \notin erased' PROVE OneAccount(g)' /\ ClaimPassed(g)'
  <2>1. OneAccount(g) /\ ClaimPassed(g) /\ Fits
    BY <1>2, SentStep DEF InviteInv
  <2> QED
    BY <1>2, <2>1, OneAccountStep, ClaimPassedStep
<1> QED
  BY <1>1, <1>2 DEF InviteInv

\* ... and holds to begin with.
LEMMA InviteInit == ASSUME Invite!Init PROVE InviteInv
<1>1. Fits
  BY InviteTypeInit DEF Invite!Init, Fits, TokensFit, ClaimsFit, UnsentAreBlank, PaidWereSent,
     Invite!Free
<1>2. \A g \in Gifts : OneAccount(g)
  BY DEF Invite!Init, OneAccount, Accepting, Invite!Free
<1>3. ASSUME NEW g \in Gifts PROVE ClaimPassed(g)
  <2>1. invitation[g] = "none" /\ \A c \in Claimers : claim[c].pc = "idle"
    BY DEF Invite!Init, Invite!Free
  <2> QED
    BY <2>1 DEF ClaimPassed
<1> QED
  BY <1>1, <1>2, <1>3 DEF InviteInv

\* Everything the invariant says of the accounts holds in every reachable state.
LEMMA InviteInductive == Invite!Spec => []InviteInv
<1>1. Invite!Init => InviteInv
  BY InviteInit
<1>2. InviteInv /\ [Invite!Next]_(Invite!vars) => InviteInv'
  BY InviteStep
<1> QED
  BY <1>1, <1>2, PTL DEF Invite!Spec

\* Every variable of the accounts and the invitations keeps its type.
THEOREM InvitationTypesHold == Invite!Spec => []AccountsTypeOK
<1>1. InviteInv => AccountsTypeOK
  BY DEF InviteInv, Fits, AccountsTypeOK, Free, NoToken, Invite!AccountsTypeOK, Invite!Free,
     Invite!NoToken, Nobody, Invite!Nobody
<1> QED
  BY <1>1, InviteInductive, PTL

\* However many requests carry a token at once, the insertion makes one account
\* with it, until that account is deleted.
THEOREM OneAccountPerToken == Invite!Spec => []TokenUsedOnce
<1>1. InviteInv => TokenUsedOnce
  <2> SUFFICES ASSUME InviteInv, NEW g \in Gifts, used[g] > 1, Recipient[g] \notin erased
               PROVE  FALSE
    BY DEF TokenUsedOnce
  <2>1. used[g] \in Nat /\ used[g] <= 1
    BY DEF InviteInv, Fits, Invite!AccountsTypeOK, OneAccount
  <2> QED
    BY <2>1
<1> QED
  BY <1>1, InviteInductive, PTL

\* A gift that its recipient was paid in time was claimed with its invitation, though
\* the claim looks at the invitation long before the gift is paid.  It may be paid to
\* somebody else before, whom no invitation binds.
THEOREM PaidByInvitation == Invite!Spec => []PaidThroughInvitation
<1>1. InviteInv => PaidThroughInvitation
  BY DEF InviteInv, PaidThroughInvitation, ClaimPassed
<1> QED
  BY <1>1, InviteInductive, PTL

\* pending, accepted, claimed: no UPDATE takes an invitation back, though none of
\* them looks at the status it overwrites.
THEOREM InvitationsGoForward == Invite!Spec => NeverBack
<1> DEFINE Forward ==
      \A g \in Gifts : \/ Order[invitation'[g]] >= Order[invitation[g]]
                       \/ invitation'[g] = "none" \/ Recipient[g] \in erased
<1>1. InviteInv /\ [Invite!Next]_(Invite!vars) => Forward
  <2> SUFFICES ASSUME InviteInv, [Invite!Next]_(Invite!vars), NEW g \in Gifts,
                      Recipient[g] \notin erased, invitation'[g] # "none"
               PROVE  Order[invitation'[g]] >= Order[invitation[g]]
    OBVIOUS
  <2>1. OneAccount(g) /\ Fits /\ invitation[g] \in Statuses
    BY DEF InviteInv, Fits, Invite!AccountsTypeOK, Statuses
  <2>2. invitation'[g] \in Statuses
    BY <2>1, InvitationTypes DEF Fits, Statuses
  <2> QED
    BY <2>1, <2>2, InvitationOnward DEF Order, Statuses
<1> QED
  BY <1>1, InviteInductive, PTL DEF Invite!Spec, NeverBack
=============================================================================
