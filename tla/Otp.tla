-------------------------------- MODULE Otp ---------------------------------
(***************************************************************************)
(* One-time passwords of one phone number: the send-otp route with its     *)
(* rate limit, storeOtp and verifyOtp (lib/otp.ts), which the verify-otp   *)
(* route and the sign-in of auth.ts call.  Everything is kept in Redis,    *)
(* under one key each; a request makes one call after the other, and other *)
(* requests for the phone run in between.                                  *)
(*                                                                         *)
(* A code is the number of the request that issued it: that two codes      *)
(* happen to be equal is left out.  Code 0 stands for a key that is not    *)
(* there, as 0 does for a counter.                                         *)
(***************************************************************************)
EXTENDS Integers, FiniteSets

CONSTANTS Senders,               \* requests to send-otp
          Verifiers,             \* requests that verify a code
          MAX_ATTEMPTS,          \* guesses at a code
          MAX_SESSION_FAILURES,  \* exhausted codes before the phone is locked
          SendLimit,             \* codes per window, 3 in the route
          MaxCodes,              \* bound on the codes issued
          MaxCrashes             \* bound on requests that die half way

ASSUME OtpAssumption ==
  /\ IsFiniteSet(Verifiers)
  /\ MAX_ATTEMPTS \in Nat \ {0} /\ MAX_SESSION_FAILURES \in Nat \ {0}
  /\ SendLimit \in Nat \ {0} /\ MaxCodes \in Nat /\ MaxCrashes \in Nat

VARIABLES otp,          \* otp:<phone>
          attempts,     \* otp:attempts:<phone>
          until,        \* the code with which that key expires, 0 if it does not
          failures,     \* otp:session-failures:<phone>
          failuresEnd,  \* does that key have an expiry?
          lock,         \* is otp:lock:<phone> there?
          sends,        \* rl:otp:phone:<phone>
          window,       \* does that key have an expiry?
          sender, verifier,
          issued,       \* codes issued so far
          guesses,      \* guesses that were compared with a code
          accepted,     \* how often each code was accepted
          renewed,      \* counts of attempts that were dropped
          crashes

attemptVars == <<attempts, until>>
failureVars == <<failures, failuresEnd>>
keys == <<otp, attemptVars, failureVars, lock>>
limitVars == <<sends, window>>
history == <<issued, guesses, accepted, renewed>>
vars == <<keys, limitVars, sender, verifier, history, crashes>>

Codes == 1..MaxCodes
Idle == [pc |-> "idle"]

TypeOK ==
  /\ otp \in 0..issued /\ lock \in BOOLEAN
  /\ attempts \in Nat /\ until \in 0..MaxCodes
  /\ failures \in Nat /\ failuresEnd \in BOOLEAN
  /\ sends \in Nat /\ window \in BOOLEAN
  /\ sender \in [Senders -> {Idle} \cup [pc : {"expire", "set", "reset"}]]
  /\ verifier \in [Verifiers ->
       {Idle} \cup [pc : {"incr"}, code : Codes]
         \cup [pc : {"ttl", "compare"}, code : Codes, n : 1..MAX_ATTEMPTS]
         \cup [pc : {"expire"}, code : Codes, ttl : Codes]
         \cup [pc : {"get", "drop", "strike", "count", "term", "clear", "lock",
                    "spend", "forget", "forgive"}]]
  /\ issued \in 0..MaxCodes /\ guesses \in Nat /\ accepted \in [Codes -> Nat] /\ renewed \in Nat
  /\ crashes \in 0..MaxCrashes

Init ==
  /\ otp = 0 /\ lock = FALSE
  /\ attempts = 0 /\ until = 0 /\ failures = 0 /\ failuresEnd = FALSE
  /\ sends = 0 /\ window = FALSE
  /\ sender = [s \in Senders |-> Idle] /\ verifier = [v \in Verifiers |-> Idle]
  /\ issued = 0 /\ guesses = 0 /\ accepted = [c \in Codes |-> 0] /\ renewed = 0
  /\ crashes = 0

-----------------------------------------------------------------------------
\* Mutant: the clock of the window is started when the limit is reached.
SendCount_LateClock(s) ==
  /\ sender[s] = Idle /\ issued < MaxCodes
  /\ sends <= SendLimit /\ sends' = sends + 1
  /\ sender' = [sender EXCEPT ![s] =
                  IF sends + 1 = SendLimit THEN [pc |-> "expire"]
                  ELSE IF sends < SendLimit THEN [pc |-> "set"] ELSE Idle]
  /\ UNCHANGED <<keys, window, verifier, history, crashes>>

\* checkRateLimit: the counter goes up, whatever the answer will be ...
SendCount(s) ==
  /\ sender[s] = Idle /\ issued < MaxCodes
  /\ sends <= SendLimit /\ sends' = sends + 1
  /\ sender' = [sender EXCEPT ![s] =
                  IF sends = 0 THEN [pc |-> "expire"]
                  ELSE IF sends < SendLimit THEN [pc |-> "set"] ELSE Idle]
  /\ UNCHANGED <<keys, window, verifier, history, crashes>>

\* ... and the first request of a window starts its clock.
SendExpire(s) ==
  /\ sender[s].pc = "expire"
  /\ window' = (sends > 0)
  /\ sender' = [sender EXCEPT ![s] = [pc |-> "set"]]
  /\ UNCHANGED <<keys, sends, verifier, history, crashes>>

\* storeOtp: the new code, and in a second call a new count of attempts.
SendSet(s) ==
  /\ sender[s].pc = "set" /\ issued < MaxCodes
  /\ issued' = issued + 1 /\ otp' = issued'
  /\ sender' = [sender EXCEPT ![s] = [pc |-> "reset"]]
  /\ UNCHANGED <<attemptVars, failureVars, lock, limitVars, verifier, guesses, accepted, renewed, crashes>>

DropAttempts ==
  /\ attempts' = 0 /\ until' = 0
  /\ renewed' = IF attempts = 0 THEN renewed ELSE renewed + 1

SendReset(s) ==
  /\ sender[s].pc = "reset" /\ DropAttempts
  /\ sender' = [sender EXCEPT ![s] = Idle]
  /\ UNCHANGED <<otp, failureVars, lock, limitVars, verifier, issued, guesses, accepted, crashes>>

-----------------------------------------------------------------------------
At(v, pc) == verifier[v].pc = pc
Goto(v, pc) == verifier' = [verifier EXCEPT ![v] = [pc |-> pc]]
With(v, pc, n) == verifier' = [verifier EXCEPT ![v] = [pc |-> pc, code |-> @.code, n |-> n]]
Answer(v) == verifier' = [verifier EXCEPT ![v] = Idle]

\* verifyOtp: a locked phone is refused ...
VerifyBegin(v) ==
  /\ verifier[v] = Idle /\ ~lock /\ Goto(v, "get")
  /\ UNCHANGED <<keys, limitVars, sender, history, crashes>>

\* Mutant: it is not looked at whether there is a code.
VerifyGet_Blind(v) ==
  /\ At(v, "get")
  /\ verifier' = [verifier EXCEPT ![v] = [pc |-> "incr", code |-> otp]]
  /\ UNCHANGED <<keys, limitVars, sender, history, crashes>>

\* ... the code is read ...
VerifyGet(v) ==
  /\ At(v, "get")
  /\ IF otp = 0 THEN Answer(v)
     ELSE verifier' = [verifier EXCEPT ![v] = [pc |-> "incr", code |-> otp]]
  /\ UNCHANGED <<keys, limitVars, sender, history, crashes>>

\* Mutant: one guess too many is compared.
VerifyIncr_OneMore(v) ==
  LET n == attempts + 1 IN
  /\ At(v, "incr") /\ attempts' = n
  /\ \/ n = 1 /\ With(v, "ttl", n)
     \/ n > MAX_ATTEMPTS + 1 /\ Goto(v, "drop")
     \/ n \in 2..MAX_ATTEMPTS + 1 /\ With(v, "compare", n)
  /\ UNCHANGED <<otp, until, failureVars, lock, limitVars, sender, history, crashes>>

\* ... the attempt is counted ...
VerifyIncr(v) ==
  LET n == attempts + 1 IN
  /\ At(v, "incr") /\ attempts' = n
  /\ \/ n = 1 /\ With(v, "ttl", n)
     \/ n > MAX_ATTEMPTS /\ Goto(v, "drop")
     \/ n \in 2..MAX_ATTEMPTS /\ With(v, "compare", n)
  /\ UNCHANGED <<otp, until, failureVars, lock, limitVars, sender, history, crashes>>

\* ... the first of a count gives it what the code there is by then, if any, has left
\* to live ...
VerifyTtl(v) ==
  /\ At(v, "ttl")
  /\ \/ otp = 0 /\ With(v, "compare", 1)
     \/ otp # 0 /\ verifier' = [verifier EXCEPT ![v] = [pc |-> "expire", code |-> @.code, ttl |-> otp]]
  /\ UNCHANGED <<keys, limitVars, sender, history, crashes>>

VerifyExpire(v) ==
  /\ At(v, "expire") /\ until' = IF attempts = 0 THEN 0 ELSE verifier[v].ttl
  /\ With(v, "compare", 1)
  /\ UNCHANGED <<otp, attempts, failureVars, lock, limitVars, sender, history, crashes>>

\* Mutant: every wrong guess is a strike.
VerifyCompare_AlwaysStrikes(v) ==
  LET c == verifier[v].code IN
  /\ At(v, "compare") /\ guesses' = guesses + 1
  /\ \/ Goto(v, "spend") /\ accepted' = [accepted EXCEPT ![c] = @ + 1]
     \/ Goto(v, "strike") /\ UNCHANGED accepted
  /\ UNCHANGED <<keys, limitVars, sender, issued, renewed, crashes>>

\* ... the guess is compared with the code read before, right or wrong.
VerifyCompare(v) ==
  LET c == verifier[v].code
      n == verifier[v].n
  IN  /\ At(v, "compare") /\ guesses' = guesses + 1
      /\ \/ Goto(v, "spend") /\ accepted' = [accepted EXCEPT ![c] = @ + 1]
         \/ n = MAX_ATTEMPTS /\ Goto(v, "strike") /\ UNCHANGED accepted
         \/ n # MAX_ATTEMPTS /\ Answer(v) /\ UNCHANGED accepted
      /\ UNCHANGED <<keys, limitVars, sender, issued, renewed, crashes>>

\* One attempt too many: the code is deleted.
VerifyDrop(v) ==
  /\ At(v, "drop") /\ otp' = 0 /\ Answer(v)
  /\ UNCHANGED <<attemptVars, failureVars, lock, limitVars, sender, history, crashes>>

\* The last attempt failed: the code is deleted and the phone has a strike; with
\* the last strike the phone is locked.
VerifyStrike(v) ==
  /\ At(v, "strike") /\ otp' = 0 /\ Goto(v, "count")
  /\ UNCHANGED <<attemptVars, failureVars, lock, limitVars, sender, history, crashes>>

VerifyCount(v) ==
  /\ At(v, "count") /\ failures' = failures + 1
  /\ IF failures > 0 /\ failures + 1 < MAX_SESSION_FAILURES THEN Answer(v)
     ELSE Goto(v, IF failures = 0 THEN "term" ELSE "clear")
  /\ UNCHANGED <<otp, attemptVars, failuresEnd, lock, limitVars, sender, history, crashes>>

\* The first strike starts the clock of the strikes.
VerifyTerm(v) ==
  /\ At(v, "term") /\ failuresEnd' = (failures > 0)
  /\ IF MAX_SESSION_FAILURES = 1 THEN Goto(v, "clear") ELSE Answer(v)
  /\ UNCHANGED <<otp, attemptVars, failures, lock, limitVars, sender, history, crashes>>

VerifyClear(v) ==
  /\ At(v, "clear") /\ failures' = 0 /\ failuresEnd' = FALSE /\ Goto(v, "lock")
  /\ UNCHANGED <<otp, attemptVars, lock, limitVars, sender, history, crashes>>

VerifyLock(v) ==
  /\ At(v, "lock") /\ lock' = TRUE /\ Answer(v)
  /\ UNCHANGED <<otp, attemptVars, failureVars, limitVars, sender, history, crashes>>

\* Mutant: the code is left to expire.
VerifySpend_Keeps(v) ==
  /\ At(v, "spend") /\ Goto(v, "forget")
  /\ UNCHANGED <<keys, limitVars, sender, history, crashes>>

\* The right code: the code, the attempts and the strikes are deleted.
VerifySpend(v) ==
  /\ At(v, "spend") /\ otp' = 0 /\ Goto(v, "forget")
  /\ UNCHANGED <<attemptVars, failureVars, lock, limitVars, sender, history, crashes>>

VerifyForget(v) ==
  /\ At(v, "forget") /\ DropAttempts /\ Goto(v, "forgive")
  /\ UNCHANGED <<otp, failureVars, lock, limitVars, sender, issued, guesses, accepted, crashes>>

VerifyForgive(v) ==
  /\ At(v, "forgive") /\ failures' = 0 /\ failuresEnd' = FALSE /\ Answer(v)
  /\ UNCHANGED <<otp, attemptVars, lock, limitVars, sender, history, crashes>>

-----------------------------------------------------------------------------
\* Time to live: of the code and the attempts that were given its time (together or
\* one after the other), of attempts whose code is gone or has been replaced, of the
\* strikes, of the lock, of the window.
KeysExpire ==
  /\ \/ /\ otp # 0 /\ otp' = 0
        /\ (until = otp /\ DropAttempts) \/ UNCHANGED <<attemptVars, renewed>>
        /\ UNCHANGED <<failureVars, lock, limitVars>>
     \/ until \notin {0, otp} /\ DropAttempts /\ UNCHANGED <<otp, failureVars, lock, limitVars>>
     \/ failuresEnd /\ failures' = 0 /\ failuresEnd' = FALSE
        /\ UNCHANGED <<otp, attemptVars, lock, limitVars, renewed>>
     \/ lock /\ lock' = FALSE /\ UNCHANGED <<otp, attemptVars, failureVars, limitVars, renewed>>
     \/ window /\ sends' = 0 /\ window' = FALSE /\ UNCHANGED <<keys, renewed>>
  /\ UNCHANGED <<sender, verifier, issued, guesses, accepted, crashes>>

\* A request dies between two calls: the function is stopped, or Redis fails.
Crash ==
  /\ crashes < MaxCrashes /\ crashes' = crashes + 1
  /\ \/ \E s \in Senders : sender[s] # Idle /\ sender' = [sender EXCEPT ![s] = Idle] /\ UNCHANGED verifier
     \/ \E v \in Verifiers : verifier[v] # Idle /\ Answer(v) /\ UNCHANGED sender
  /\ UNCHANGED <<keys, limitVars, history>>

Send(s) == SendCount(s) \/ SendExpire(s) \/ SendSet(s) \/ SendReset(s)
Verify(v) ==
  \/ VerifyBegin(v) \/ VerifyGet(v) \/ VerifyIncr(v) \/ VerifyTtl(v) \/ VerifyExpire(v)
  \/ VerifyCompare(v) \/ VerifyDrop(v)
  \/ VerifyStrike(v) \/ VerifyCount(v) \/ VerifyTerm(v) \/ VerifyClear(v) \/ VerifyLock(v)
  \/ VerifySpend(v) \/ VerifyForget(v) \/ VerifyForgive(v)

Next ==
  \/ \E s \in Senders : Send(s)
  \/ \E v \in Verifiers : Verify(v)
  \/ KeysExpire \/ Crash

Spec == Init /\ [][Next]_vars

-----------------------------------------------------------------------------
\* Guessing is bounded, though counting, comparing and deleting are calls of
\* their own: whatever overlaps, MAX_ATTEMPTS guesses are compared for each count
\* of attempts, and one more count begins only when one has been dropped, by a
\* new code, a right guess or its expiry.
GuessBudget == guesses <= MAX_ATTEMPTS * (1 + renewed)

\* Attempts that are counted and on their way to the comparison.
Counted == {v \in Verifiers : verifier[v].pc \in {"ttl", "expire", "compare"}}

\* A phone is not locked for less than that: it takes MAX_ATTEMPTS guesses, right or
\* wrong, for each of MAX_SESSION_FAILURES strikes.  Of these all have been compared
\* but those of requests that are still about to, or that died before they did: an
\* attempt counts against the phone from its incr on.
LockTakesGuesses ==
  lock => guesses + Cardinality(Counted) + crashes >= MAX_ATTEMPTS * MAX_SESSION_FAILURES

\* A code can be used twice only by requests that overlap, or after one that
\* died before it deleted the code.
AcceptedByOverlap == \A c \in Codes : accepted[c] <= Cardinality(Verifiers) + crashes

\* A phone's count of requests that never expires, and in the end blocks the phone
\* for good, is left behind only by a request that died; so is a count of strikes
\* that adds up mistakes however far apart.  (A count of attempts is left without an
\* expiry too when the code goes between incr and ttl; the next code drops it.)
BlockedByCrash ==
  /\ sends > 0 /\ ~window => crashes > 0 \/ \E s \in Senders : sender[s].pc = "expire"
  /\ failures > 0 /\ ~failuresEnd => crashes > 0 \/ \E v \in Verifiers : At(v, "term")
=============================================================================
