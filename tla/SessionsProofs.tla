--------------------------- MODULE SessionsProofs ---------------------------
(***************************************************************************)
(* That a sign-in never has two usable refresh tokens, and that the only   *)
(* token that survives a sign-out is one a rotation committed while the    *)
(* sign-out was running, for any number of browsers, requests and tokens.  *)
(*                                                                         *)
(* The argument: a request about to write holds the lock of its token's    *)
(* row, and the row is live, because whoever would revoke it needs the     *)
(* lock; so the token it adds replaces the only live one of its sign-in.   *)
(* A running sign-out has locked every live row that was there when it     *)
(* began, or has still to come to it; so what is live when it has          *)
(* committed was issued in between, and what is live later descends from   *)
(* a sign-in that had such a token.                                        *)
(***************************************************************************)
EXTENDS Sessions, TLAPS, FiniteSetTheorems

\* Tokens are issued in the order of their numbers, each after its root.
Numbered ==
  /\ \A t \in Tokens : row[t] # "unused" <=> t <= issued
  /\ \A t \in Tokens : root[t] <= t /\ (t > issued => root[t] = t)
  /\ \A c \in closed : c.signIn <= issued /\ c.until <= issued

\* Whoever is about to change a row holds its lock, and the row is live.
WritersHold ==
  \A r \in Requests : request[r].pc = "write" =>
    LET t == request[r].jwt.token IN lock[t] = r /\ row[t] = "live"
SignOutHolds ==
  /\ \A t \in Tokens : lock[t] = SignOut => signOut # Idle /\ row[t] = "live"
  /\ signOut # Idle =>
       /\ signOut.since <= issued
       /\ \A x \in signOut.signIns : x <= issued
       /\ \A t \in Live : signOut.since < t \/ t \in signOut.todo \/ lock[t] = SignOut

\* The sign-outs that are running, and what is kept of those that have committed.
SignOuts == [pc : {"update"}, from : Browsers, todo : SUBSET Tokens,
             signIns : SUBSET Tokens, since : 0..MaxTokens]
Closings == [signIn : Tokens, since : 0..MaxTokens, until : 0..MaxTokens]

IInv == TypeOK /\ Numbered /\ WritersHold /\ SignOutHolds /\ OneLivePerSignIn /\ SignedOutStaysOut

-----------------------------------------------------------------------------
\* What a request holds at each of its stages.
LEMMA RequestStages ==
  ASSUME TypeOK, NEW r \in Requests
  PROVE  /\ request[r].pc \in {"select", "write", "answer"} =>
              /\ request[r].from \in Browsers /\ request[r].jwt \in Cookies
              /\ request[r].jwt.token \in Tokens
         /\ request[r].pc \in {"select", "write"} =>
              request[r] \in [pc : {"select", "write"}, from : Browsers, jwt : Cookies]
         /\ request[r].pc = "answer" => request[r].new \in Answers
  BY DEF TypeOK, Cookies, Idle

\* A sign-out that is running has rows to go through and knows when it began.
LEMMA SignOutStage ==
  ASSUME TypeOK, signOut # Idle
  PROVE  signOut \in SignOuts
  BY DEF TypeOK, SignOuts

\* Room for a token, and the names of the holders of locks differ.
LEMMA Bounds ==
  /\ MaxTokens \in Nat /\ MaxFaults \in Nat
  /\ TypeOK /\ Room => issued + 1 \in Tokens
  /\ Nobody # SignOut
  /\ \A r \in Requests : r # Nobody /\ r # SignOut
<1>1. MaxTokens \in Nat /\ MaxFaults \in Nat
  BY SessionsAssumption
<1>2. ASSUME TypeOK, Room PROVE issued + 1 \in Tokens
  <2> DEFINE R == {r \in Requests : request[r].pc \in {"select", "write"}}
  <2>1. IsFiniteSet(R) /\ Cardinality(R) \in Nat
    BY SessionsAssumption, FS_Subset, FS_CardinalityType
  <2>2. issued \in Nat /\ issued + Cardinality(R) < MaxTokens
    BY <1>2 DEF TypeOK, Room
  <2> QED
    BY <1>1, <2>1, <2>2 DEF Tokens
<1>3. Nobody # SignOut
  BY DEF Nobody, SignOut
<1>4. \A r \in Requests : r # Nobody /\ r # SignOut
  BY SessionsAssumption DEF Nobody, SignOut
<1> QED
  BY <1>1, <1>2, <1>3, <1>4

\* A reply leads to the stage that hands it back.
LEMMA Replies ==
  ASSUME TypeOK, NEW r \in Requests, request[r].pc \in {"select", "write"},
         NEW new \in Answers, Reply(r, new)
  PROVE  /\ request' \in [Requests -> {Idle}
              \cup [pc : {"select", "write"}, from : Browsers, jwt : Cookies]
              \cup [pc : {"answer"}, from : Browsers, jwt : Cookies, new : Answers]]
         /\ request'[r].pc = "answer"
         /\ \A q \in Requests \ {r} : request'[q] = request[q]
<1>1. request[r].from \in Browsers /\ request[r].jwt \in Cookies
  BY RequestStages
<1> DEFINE a == [pc |-> "answer", from |-> request[r].from, jwt |-> request[r].jwt, new |-> new]
<1>2. a \in [pc : {"answer"}, from : Browsers, jwt : Cookies, new : Answers] /\ a.pc = "answer"
  BY <1>1
<1>3. request' = [request EXCEPT ![r] = a]
  BY DEF Reply
<1> HIDE DEF a
<1> QED
  BY <1>2, <1>3 DEF TypeOK

\* Locks of others than a holder stay when the holder lets its own go.
LEMMA Releases ==
  ASSUME TypeOK, NEW h, lock' = Released(h)
  PROVE  /\ lock' \in [Tokens -> {Nobody, SignOut} \cup Requests]
         /\ \A t \in Tokens : lock'[t] = IF lock[t] = h THEN Nobody ELSE lock[t]
  BY DEF TypeOK, Released

\* What is kept of sign-outs lies before the next token.
LEMMA NextToken ==
  ASSUME IInv
  PROVE  /\ \A c \in closed : /\ c.signIn <= issued + 1 /\ c.until <= issued + 1
                               /\ c.signIn # issued + 1
         /\ signOut # Idle =>
              /\ signOut.since <= issued + 1 /\ signOut.since < issued + 1
              /\ \A x \in signOut.signIns : x <= issued + 1
<1>1. issued \in Nat /\ MaxTokens \in Nat /\ Tokens \subseteq Nat /\ 0..MaxTokens \subseteq Nat
  BY Bounds DEF IInv, TypeOK, Tokens
<1>2. \A a, i \in Nat : a <= i => a <= i + 1 /\ a < i + 1 /\ a # i + 1
  OBVIOUS
<1>3. ASSUME NEW c \in closed
      PROVE  c.signIn <= issued + 1 /\ c.until <= issued + 1 /\ c.signIn # issued + 1
  <2>1. c.signIn \in Nat /\ c.until \in Nat
    BY <1>1 DEF IInv, TypeOK
  <2>2. c.signIn <= issued /\ c.until <= issued
    BY DEF IInv, Numbered
  <2> QED
    BY <1>1, <1>2, <2>1, <2>2
<1>4. ASSUME signOut # Idle
      PROVE  /\ signOut.since <= issued + 1 /\ signOut.since < issued + 1
             /\ \A x \in signOut.signIns : x <= issued + 1
  <2>1. signOut.since \in Nat /\ signOut.signIns \subseteq Nat
    BY <1>1, <1>4, SignOutStage DEF IInv, SignOuts
  <2>2. signOut.since <= issued /\ \A x \in signOut.signIns : x <= issued
    BY <1>4 DEF IInv, SignOutHolds
  <2> QED
    BY <1>1, <1>2, <2>1, <2>2
<1> QED
  BY <1>3, <1>4

-----------------------------------------------------------------------------

\* The empty table.
LEMMA InitInvariant == Init => IInv
<1>1. SUFFICES ASSUME Init PROVE IInv
  OBVIOUS
<1>2. MaxTokens \in Nat /\ MaxFaults \in Nat
  BY Bounds
<1>3. TypeOK
  <2>1. issued \in 0..MaxTokens /\ faults \in 0..MaxFaults
    BY <1>1, <1>2 DEF Init
  <2>2. /\ row \in [Tokens -> {"unused", "live", "revoked"}]
        /\ root \in [Tokens -> Tokens] /\ lapsed \subseteq Tokens /\ closed = {}
        /\ lock \in [Tokens -> {Nobody, SignOut} \cup Requests]
    BY <1>1 DEF Init
  <2>3. cookie \in [Browsers -> {None} \cup Cookies]
    BY <1>1 DEF Init
  <2>4. request \in [Requests -> {Idle}
              \cup [pc : {"select", "write"}, from : Browsers, jwt : Cookies]
              \cup [pc : {"answer"}, from : Browsers, jwt : Cookies, new : Answers]]
    BY <1>1 DEF Init
  <2>5. signOut = Idle
    BY <1>1 DEF Init
  <2> QED
    BY <2>1, <2>2, <2>3, <2>4, <2>5 DEF TypeOK
<1>4. Numbered
  <2>1. \A t \in Tokens : t \in Nat /\ t > 0
    BY <1>2 DEF Tokens
  <2> QED
    BY <1>1, <2>1 DEF Init, Numbered
<1>5. WritersHold
  BY <1>1 DEF Init, WritersHold, Idle
<1>6. SignOutHolds
  BY <1>1, Bounds DEF Init, SignOutHolds, Live
<1>7. OneLivePerSignIn /\ SignedOutStaysOut
  BY <1>1 DEF Init, OneLivePerSignIn, SignedOutStaysOut, Live
<1> QED
  BY <1>3, <1>4, <1>5, <1>6, <1>7 DEF IInv
-----------------------------------------------------------------------------
\* A step that leaves the table, the locks and the sign-outs alone, and lets no
\* request on to write, disturbs nothing but the types.
LEMMA Bystanders ==
  ASSUME IInv, TypeOK', UNCHANGED <<table, lock, signOut, closed>>,
         \A r \in Requests : request'[r].pc = "write" => request'[r] = request[r]
  PROVE  IInv'
<1>1. Numbered' /\ SignOutHolds'
  BY DEF IInv, Numbered, SignOutHolds, Live, table
<1>2. WritersHold'
  BY DEF IInv, WritersHold, table
<1>3. OneLivePerSignIn' /\ SignedOutStaysOut'
  BY DEF IInv, OneLivePerSignIn, SignedOutStaysOut, Live, table
<1> QED
  BY <1>1, <1>2, <1>3 DEF IInv

LEMMA SignInStep ==
  ASSUME IInv, NEW b \in Browsers, SignIn(b)
  PROVE  IInv'
<1> DEFINE n == issued + 1
<1>1. n \in Tokens /\ issued \in Nat /\ issued' = n /\ Tokens \subseteq Nat
  <2>1. TypeOK /\ Room /\ issued' = n
    BY DEF IInv, SignIn
  <2>2. issued \in Nat /\ MaxTokens \in Nat
    BY <2>1, Bounds DEF TypeOK
  <2> QED
    BY <2>1, <2>2, Bounds DEF Tokens
<1>2. row' = [row EXCEPT ![n] = "live"] /\ row[n] = "unused" /\ root[n] = n
  BY <1>1 DEF SignIn, IInv, Numbered, TypeOK
<1>3. UNCHANGED <<root, lapsed, lock, request, signOut, closed, faults>>
  BY DEF SignIn
<1> HIDE DEF n
<1>4. \A t \in Tokens : row'[t] = IF t = n THEN "live" ELSE row[t]
  BY <1>1, <1>2 DEF IInv, TypeOK
<1>5. TypeOK'
  <2>1. [kind |-> "jwt", token |-> n, fresh |-> TRUE, error |-> FALSE] \in Cookies
    BY <1>1 DEF Cookies
  <2>2. cookie' \in [Browsers -> {None} \cup Cookies]
    BY <1>1, <2>1 DEF SignIn, IInv, TypeOK
  <2>3. row' \in [Tokens -> {"unused", "live", "revoked"}] /\ issued' \in 0..MaxTokens
    BY <1>1, <1>2 DEF IInv, TypeOK, Tokens
  <2> QED
    BY <1>3, <2>2, <2>3 DEF IInv, TypeOK
<1>6. Numbered'
  <2>1. \A t \in Tokens : t <= n <=> t <= issued \/ t = n
    BY <1>1 DEF n
  <2>2. \A t \in Tokens : root[t] <= t /\ (t > n => root[t] = t)
    BY <1>1 DEF n, IInv, Numbered
  <2>3. \A c \in closed : c.signIn <= n /\ c.until <= n
    BY NextToken DEF n
  <2> QED
    BY <1>1, <1>3, <1>4, <2>1, <2>2, <2>3 DEF IInv, Numbered
<1>7. WritersHold' /\ SignOutHolds'
  <2>1. WritersHold'
    BY <1>3, <1>4, RequestStages DEF IInv, WritersHold
  <2>2. \A t \in Live' : t \in Live \/ t = n
    BY <1>4 DEF Live
  <2>3. \A t \in Tokens : lock[t] = SignOut => signOut # Idle /\ row'[t] = "live"
    BY <1>4 DEF IInv, SignOutHolds
  <2>4. ASSUME signOut # Idle
        PROVE  /\ signOut.since <= n
               /\ \A x \in signOut.signIns : x <= n
               /\ \A t \in Live' : signOut.since < t \/ t \in signOut.todo \/ lock[t] = SignOut
    <3>1. signOut.since <= n /\ signOut.since < n /\ \A x \in signOut.signIns : x <= n
      BY <2>4, NextToken DEF n
    <3>2. \A t \in Live : signOut.since < t \/ t \in signOut.todo \/ lock[t] = SignOut
      BY <2>4 DEF IInv, SignOutHolds
    <3> QED
      BY <2>2, <3>1, <3>2
  <2> QED
    BY <1>1, <1>3, <2>1, <2>3, <2>4 DEF SignOutHolds
<1>8. \A t \in Tokens : t \in Live => root[t] # n
  <2>1. \A t \in Tokens : t \in Live => t <= issued /\ root[t] <= t /\ root[t] \in Tokens
    BY DEF IInv, Numbered, Live, TypeOK
  <2> QED
    BY <1>1, <2>1 DEF n
<1>9. Live' = Live \cup {n}
  BY <1>1, <1>4 DEF Live
<1>10. OneLivePerSignIn'
  BY <1>2, <1>3, <1>8, <1>9 DEF IInv, OneLivePerSignIn, Live
<1>11. SignedOutStaysOut'
  <2>1. \A c \in closed : c.signIn # n
    BY NextToken DEF n
  <2> QED
    BY <1>2, <1>3, <1>9, <2>1 DEF IInv, SignedOutStaysOut
<1> QED
  BY <1>5, <1>6, <1>7, <1>10, <1>11 DEF IInv

LEMMA RotateSelectStep ==
  ASSUME IInv, NEW r \in Requests, RotateSelect(r)
  PROVE  IInv'
<1> DEFINE t == request[r].jwt.token
<1>1. request[r].pc = "select" /\ lock[t] = Nobody /\ t \in Tokens
  BY RequestStages DEF RotateSelect, IInv
<1>2. UNCHANGED <<table, cookie, signOut, closed, faults>>
  BY DEF RotateSelect
<1>3. CASE t \notin Live \ lapsed
  <2>1. Reply(r, None) /\ UNCHANGED lock
    BY <1>3 DEF RotateSelect
  <2>2. None \in Answers
    BY DEF Answers
  <2>3. TypeOK'
    BY <1>1, <1>2, <2>1, <2>2, Replies DEF IInv, TypeOK, table
  <2>4. \A q \in Requests : request'[q].pc = "write" => request'[q] = request[q]
    BY <1>1, <2>1, <2>2, Replies DEF IInv
  <2> QED
    BY <1>2, <2>1, <2>3, <2>4, Bystanders
<1>4. CASE t \in Live \ lapsed
  <2>1. request' = [request EXCEPT ![r].pc = "write"] /\ lock' = [lock EXCEPT ![t] = r]
    BY <1>4 DEF RotateSelect
  <2>2. request[r] \in [pc : {"select", "write"}, from : Browsers, jwt : Cookies]
    BY <1>1, RequestStages DEF IInv
  <2>3. /\ request'[r] \in [pc : {"select", "write"}, from : Browsers, jwt : Cookies]
        /\ request'[r].jwt.token = t
        /\ \A q \in Requests \ {r} : request'[q] = request[q]
    BY <2>1, <2>2 DEF IInv, TypeOK
  <2>4. \A s \in Tokens : lock'[s] = IF s = t THEN r ELSE lock[s]
    BY <1>1, <2>1 DEF IInv, TypeOK
  <2>5. TypeOK'
    <3>1. request' \in [Requests -> {Idle}
              \cup [pc : {"select", "write"}, from : Browsers, jwt : Cookies]
              \cup [pc : {"answer"}, from : Browsers, jwt : Cookies, new : Answers]]
      BY <2>1, <2>3 DEF IInv, TypeOK
    <3>2. lock' \in [Tokens -> {Nobody, SignOut} \cup Requests]
      BY <1>1, <2>1 DEF IInv, TypeOK
    <3> QED
      BY <1>2, <3>1, <3>2 DEF IInv, TypeOK, table
  <2>6. Numbered' /\ OneLivePerSignIn' /\ SignedOutStaysOut'
    BY <1>2 DEF IInv, Numbered, OneLivePerSignIn, SignedOutStaysOut, Live, table
  <2>7. WritersHold'
    <3> SUFFICES ASSUME NEW q \in Requests, request'[q].pc = "write"
                 PROVE  lock'[request'[q].jwt.token] = q /\ row'[request'[q].jwt.token] = "live"
      BY DEF WritersHold
    <3>1. CASE q = r
      BY <1>1, <1>2, <1>4, <2>3, <2>4, <3>1 DEF Live, table
    <3>2. CASE q # r
      <4>1. request[q].pc = "write" /\ request'[q] = request[q]
        BY <2>3, <3>2
      <4>2. request[q].jwt.token \in Tokens
        BY <4>1, RequestStages DEF IInv
      <4>3. lock[request[q].jwt.token] = q /\ row[request[q].jwt.token] = "live"
        BY <4>1 DEF IInv, WritersHold
      <4>4. request[q].jwt.token # t
        BY <1>1, <4>3, Bounds
      <4> QED
        BY <1>2, <2>4, <4>1, <4>2, <4>3, <4>4 DEF table
    <3> QED
      BY <3>1, <3>2
  <2>8. SignOutHolds'
    <3>1. \A s \in Tokens : lock'[s] = SignOut <=> lock[s] = SignOut
      BY <1>1, <2>4, Bounds
    <3> QED
      BY <1>2, <3>1 DEF IInv, SignOutHolds, Live, table
  <2> QED
    BY <2>5, <2>6, <2>7, <2>8 DEF IInv
<1> QED
  BY <1>3, <1>4

LEMMA RotateCommitStep ==
  ASSUME IInv, NEW r \in Requests, RotateCommit(r)
  PROVE  IInv'
<1> DEFINE t == request[r].jwt.token
           n == issued + 1
           new == [kind |-> "token", token |-> n]
<1>1. request[r].pc = "write" /\ t \in Tokens /\ lock[t] = r /\ row[t] = "live"
  BY RequestStages DEF RotateCommit, IInv, WritersHold
<1>2. n \in Tokens /\ issued \in Nat /\ issued' = n /\ Tokens \subseteq Nat
  <2>1. issued \in Nat /\ MaxTokens \in Nat /\ issued < MaxTokens /\ issued' = n
    BY Bounds DEF IInv, TypeOK, RotateCommit
  <2> QED
    BY <2>1 DEF Tokens
<1>3. /\ row' = [row EXCEPT ![t] = "revoked", ![n] = "live"]
      /\ root' = [root EXCEPT ![n] = root[t]]
      /\ lock' = Released(r)
      /\ Reply(r, new)
      /\ UNCHANGED <<lapsed, cookie, signOut, closed, faults>>
  BY <1>2 DEF RotateCommit
<1>4. t # n /\ t <= issued /\ row[n] = "unused"
  <2>1. \A s \in Tokens : row[s] # "unused" <=> s <= issued
    BY DEF IInv, Numbered
  <2>2. ~(n <= issued)
    BY <1>2
  <2> QED
    BY <1>1, <1>2, <2>1, <2>2
<1>5. new \in Answers
  BY <1>2 DEF Answers
<1> HIDE DEF n
<1>6. \A s \in Tokens : /\ row'[s] = IF s = n THEN "live" ELSE IF s = t THEN "revoked" ELSE row[s]
                        /\ root'[s] = IF s = n THEN root[t] ELSE root[s]
  BY <1>1, <1>2, <1>3, <1>4 DEF IInv, TypeOK
<1>7. /\ lock' \in [Tokens -> {Nobody, SignOut} \cup Requests]
      /\ \A s \in Tokens : lock'[s] = IF lock[s] = r THEN Nobody ELSE lock[s]
  BY <1>3, Releases DEF IInv
<1>8. /\ request' \in [Requests -> {Idle}
              \cup [pc : {"select", "write"}, from : Browsers, jwt : Cookies]
              \cup [pc : {"answer"}, from : Browsers, jwt : Cookies, new : Answers]]
      /\ request'[r].pc = "answer"
      /\ \A q \in Requests \ {r} : request'[q] = request[q]
  BY <1>1, <1>3, <1>5, Replies DEF IInv
<1>9. TypeOK'
  <2>1. row' \in [Tokens -> {"unused", "live", "revoked"}] /\ root' \in [Tokens -> Tokens]
    BY <1>1, <1>2, <1>3 DEF IInv, TypeOK
  <2>2. issued' \in 0..MaxTokens
    BY <1>2 DEF Tokens
  <2> QED
    BY <1>3, <1>7, <1>8, <2>1, <2>2 DEF IInv, TypeOK
<1>10. Numbered'
  <2>1. \A s \in Tokens : s <= n <=> s <= issued \/ s = n
    BY <1>2 DEF n
  <2>2. \A s \in Tokens : row'[s] # "unused" <=> s <= n
    BY <1>1, <1>4, <1>6, <2>1 DEF IInv, Numbered
  <2>3. \A s \in Tokens : s # n => root[s] <= s /\ (s > n => root[s] = s)
    BY <1>2 DEF n, IInv, Numbered
  <2>4. root[t] <= n
    <3>1. root[t] \in Tokens /\ root[t] <= t
      BY <1>1 DEF IInv, Numbered, TypeOK
    <3>2. \A a, b, c \in Nat : a <= b /\ b <= c => a <= c + 1
      OBVIOUS
    <3> QED
      BY <1>1, <1>2, <1>4, <3>1, <3>2 DEF n
  <2>5. \A c \in closed : c.signIn <= n /\ c.until <= n
    BY NextToken DEF n
  <2> QED
    <3>1. \A s \in Tokens : root'[s] <= s /\ (s > n => root'[s] = s)
      <4> SUFFICES ASSUME NEW s \in Tokens PROVE root'[s] <= s /\ (s > n => root'[s] = s)
        OBVIOUS
      <4>1. CASE s = n
        BY <1>2, <1>6, <2>4, <4>1
      <4>2. CASE s # n
        BY <1>6, <2>3, <4>2
      <4> QED
        BY <4>1, <4>2
    <3> QED
      BY <1>2, <1>3, <2>2, <2>5, <3>1 DEF Numbered
<1>11. WritersHold'
  <2> SUFFICES ASSUME NEW q \in Requests, request'[q].pc = "write"
               PROVE  lock'[request'[q].jwt.token] = q /\ row'[request'[q].jwt.token] = "live"
    BY DEF WritersHold
  <2>1. q # r /\ request'[q] = request[q] /\ request[q].pc = "write"
    BY <1>8
  <2>2. request[q].jwt.token \in Tokens
    BY <2>1, RequestStages DEF IInv
  <2>3. lock[request[q].jwt.token] = q /\ row[request[q].jwt.token] = "live"
    BY <2>1 DEF IInv, WritersHold
  <2>4. request[q].jwt.token # t
    BY <1>1, <2>1, <2>3
  <2> QED
    BY <1>6, <1>7, <2>1, <2>2, <2>3, <2>4
<1>12. SignOutHolds'
  <2>1. \A s \in Tokens : /\ lock'[s] = SignOut <=> lock[s] = SignOut
                          /\ lock[s] = SignOut => s # t /\ s # n /\ row[s] = "live"
    BY <1>1, <1>4, <1>7, Bounds DEF IInv, SignOutHolds
  <2> QED
    <3>1. \A s \in Tokens : lock'[s] = SignOut =>
             lock[s] = SignOut /\ row'[s] = "live" /\ root'[s] = root[s]
      BY <1>6, <2>1
    <3>2. ASSUME signOut # Idle
          PROVE  /\ signOut.since <= n
                 /\ \A x \in signOut.signIns : x <= n
                 /\ \A s \in Live' : signOut.since < s \/ s \in signOut.todo \/ lock'[s] = SignOut
      <4>1. signOut.since <= n /\ signOut.since < n /\ \A x \in signOut.signIns : x <= n
        BY <3>2, NextToken DEF n
      <4>2. \A s \in Live : signOut.since < s \/ s \in signOut.todo \/ lock[s] = SignOut
        BY <3>2 DEF IInv, SignOutHolds
      <4>3. \A s \in Live' : s \in Tokens /\ (s = n \/ s \in Live)
        BY <1>6 DEF Live
      <4> QED
        BY <2>1, <4>1, <4>2, <4>3
    <3>3. \A s \in Tokens : lock'[s] = SignOut => signOut # Idle
      BY <3>1 DEF IInv, SignOutHolds
    <3>4. signOut' = signOut
      BY <1>3
    <3> QED
      BY <1>2, <3>1, <3>2, <3>3, <3>4 DEF SignOutHolds
<1>13. Live' = (Live \ {t}) \cup {n}
  BY <1>1, <1>2, <1>4, <1>6 DEF Live
<1>14. t \in Live
  BY <1>1 DEF Live
<1>15. OneLivePerSignIn'
  <2>1. \A s \in Live : s # t => s \in Tokens /\ s # n /\ root'[s] # root'[n]
    <3>1. \A s \in Live : s \in Tokens /\ s # n
      BY <1>4 DEF Live
    <3>2. \A s \in Live : s # t => root[s] # root[t]
      BY <1>14 DEF IInv, OneLivePerSignIn
    <3> QED
      BY <1>2, <1>6, <3>1, <3>2
  <2>2. \A s \in Live : s # t => root'[s] = root[s]
    BY <1>6, <2>1
  <2> QED
    BY <1>13, <2>1, <2>2 DEF IInv, OneLivePerSignIn
<1>16. SignedOutStaysOut'
  <2> SUFFICES ASSUME NEW c \in closed, NEW u \in Live', root'[u] = c.signIn
               PROVE  \E s \in Tokens : root'[s] = c.signIn /\ c.since < s /\ s <= c.until
    BY <1>3 DEF SignedOutStaysOut
  <2>1. \E v \in Live : root[v] = c.signIn
    BY <1>6, <1>13, <1>14 DEF Live
  <2>2. PICK s \in Tokens : root[s] = c.signIn /\ c.since < s /\ s <= c.until
    BY <2>1 DEF IInv, SignedOutStaysOut
  <2>3. s # n
    <3>1. c.until \in Nat /\ c.until <= issued
      BY Bounds DEF IInv, Numbered, TypeOK
    <3> QED
      BY <1>2, <2>2, <3>1 DEF n
  <2> QED
    BY <1>6, <2>2, <2>3
<1> QED
  BY <1>9, <1>10, <1>11, <1>12, <1>15, <1>16 DEF IInv

LEMMA RotateFailsStep ==
  ASSUME IInv, NEW r \in Requests, RotateFails(r)
  PROVE  IInv'
<1>1. /\ request[r].pc \in {"select", "write"}
      /\ lock' = Released(r) /\ Reply(r, None) /\ faults < MaxFaults /\ faults' = faults + 1
      /\ UNCHANGED <<table, cookie, signOut, closed>>
  BY DEF RotateFails
<1>2. None \in Answers
  BY DEF Answers
<1>3. /\ lock' \in [Tokens -> {Nobody, SignOut} \cup Requests]
      /\ \A s \in Tokens : lock'[s] = IF lock[s] = r THEN Nobody ELSE lock[s]
  BY <1>1, Releases DEF IInv
<1>4. /\ request' \in [Requests -> {Idle}
              \cup [pc : {"select", "write"}, from : Browsers, jwt : Cookies]
              \cup [pc : {"answer"}, from : Browsers, jwt : Cookies, new : Answers]]
      /\ request'[r].pc = "answer"
      /\ \A q \in Requests \ {r} : request'[q] = request[q]
  BY <1>1, <1>2, Replies DEF IInv
<1>5. TypeOK'
  <2>1. faults' \in 0..MaxFaults
    BY <1>1, Bounds DEF IInv, TypeOK
  <2> QED
    BY <1>1, <1>3, <1>4, <2>1 DEF IInv, TypeOK, table
<1>6. Numbered' /\ OneLivePerSignIn' /\ SignedOutStaysOut'
  BY <1>1 DEF IInv, Numbered, OneLivePerSignIn, SignedOutStaysOut, Live, table
<1>7. WritersHold'
  <2> SUFFICES ASSUME NEW q \in Requests, request'[q].pc = "write"
               PROVE  lock'[request'[q].jwt.token] = q /\ row'[request'[q].jwt.token] = "live"
    BY DEF WritersHold
  <2>1. q # r /\ request'[q] = request[q] /\ request[q].pc = "write"
    BY <1>4
  <2>2. request[q].jwt.token \in Tokens
    BY <2>1, RequestStages DEF IInv
  <2> QED
    BY <1>1, <1>3, <2>1, <2>2 DEF IInv, WritersHold, table
<1>8. SignOutHolds'
  <2>1. \A s \in Tokens : lock'[s] = SignOut <=> lock[s] = SignOut
    BY <1>3, Bounds
  <2> QED
    BY <1>1, <2>1 DEF IInv, SignOutHolds, Live, table
<1> QED
  BY <1>5, <1>6, <1>7, <1>8 DEF IInv

-----------------------------------------------------------------------------
LEMMA SignOutStartStep ==
  ASSUME IInv, NEW b \in Browsers, SignOutStart(b)
  PROVE  IInv'
<1> DEFINE signIns == {root[t] : t \in Live}
<1>1. /\ signOut = Idle /\ UNCHANGED <<table, lock, cookie, request, closed, faults>>
      /\ signOut' = [pc |-> "update", from |-> b, todo |-> Live,
                     signIns |-> signIns, since |-> issued]
  BY DEF SignOutStart
<1>2. Live \in SUBSET Tokens /\ signIns \in SUBSET Tokens
  BY DEF Live, IInv, TypeOK
<1>3. \A x \in signIns : x <= issued
  <2> SUFFICES ASSUME NEW t \in Live PROVE root[t] <= issued
    OBVIOUS
  <2>1. t \in Tokens /\ root[t] \in Tokens /\ t <= issued /\ root[t] <= t
    BY DEF IInv, TypeOK, Numbered, Live
  <2>2. t \in Nat /\ root[t] \in Nat /\ issued \in Nat
    BY <2>1, Bounds DEF IInv, TypeOK, Tokens
  <2> QED
    BY <2>1, <2>2
<1> HIDE DEF signIns
<1>4. signOut' \in SignOuts
  BY <1>1, <1>2 DEF SignOuts, IInv, TypeOK
<1>5. TypeOK'
  BY <1>1, <1>4 DEF IInv, TypeOK, SignOuts, table
<1>6. Numbered' /\ WritersHold' /\ OneLivePerSignIn' /\ SignedOutStaysOut'
  BY <1>1 DEF IInv, Numbered, WritersHold, OneLivePerSignIn, SignedOutStaysOut, Live, table
<1>7. SignOutHolds'
  <2>1. \A t \in Tokens : lock[t] # SignOut
    BY <1>1 DEF IInv, SignOutHolds
  <2>2. signOut'.since = issued /\ signOut'.signIns = signIns /\ signOut'.todo = Live
    BY <1>1
  <2>3. issued <= issued /\ issued' = issued /\ Live' = Live /\ lock' = lock
    BY <1>1 DEF IInv, TypeOK, Live, table
  <2> QED
    BY <1>3, <2>1, <2>2, <2>3 DEF SignOutHolds
<1> QED
  BY <1>5, <1>6, <1>7 DEF IInv

LEMMA SignOutRowStep ==
  ASSUME IInv, NEW t \in Tokens, SignOutRow(t)
  PROVE  IInv'
<1>1. /\ signOut # Idle /\ lock[t] = Nobody /\ UNCHANGED <<table, cookie, request, closed, faults>>
      /\ signOut' = [signOut EXCEPT !.todo = @ \ {t}]
      /\ lock' = IF t \in Live THEN [lock EXCEPT ![t] = SignOut] ELSE lock
  BY DEF SignOutRow
<1>2. Numbered' /\ OneLivePerSignIn' /\ SignedOutStaysOut'
  BY <1>1 DEF IInv, Numbered, OneLivePerSignIn, SignedOutStaysOut, Live, table
<1>3. /\ signOut' \in SignOuts /\ signOut'.todo = signOut.todo \ {t}
      /\ signOut'.since = signOut.since /\ signOut'.signIns = signOut.signIns
  BY <1>1, SignOutStage DEF IInv, SignOuts
<1>4. signOut' # Idle
  BY <1>3 DEF SignOuts, Idle
<1>5. /\ lock' \in [Tokens -> {Nobody, SignOut} \cup Requests]
      /\ \A s \in Tokens : lock'[s] = IF s = t /\ t \in Live THEN SignOut ELSE lock[s]
  BY <1>1 DEF IInv, TypeOK
<1>6. TypeOK'
  BY <1>1, <1>3, <1>5 DEF IInv, TypeOK, SignOuts, table
<1>7. WritersHold'
  <2> SUFFICES ASSUME NEW q \in Requests, request[q].pc = "write"
               PROVE  lock'[request[q].jwt.token] = q /\ row'[request[q].jwt.token] = "live"
    BY <1>1 DEF WritersHold
  <2>1. request[q].jwt.token \in Tokens
    BY RequestStages DEF IInv
  <2>2. lock[request[q].jwt.token] = q /\ row[request[q].jwt.token] = "live"
    BY DEF IInv, WritersHold
  <2> QED
    BY <1>1, <1>5, <2>1, <2>2, Bounds DEF table
<1>8. SignOutHolds'
  <2>1. \A s \in Tokens : lock'[s] = SignOut => row[s] = "live"
    BY <1>5 DEF IInv, SignOutHolds, Live
  <2>2. \A s \in Live : signOut'.since < s \/ s \in signOut'.todo \/ lock'[s] = SignOut
    <3> SUFFICES ASSUME NEW s \in Live
                 PROVE  signOut'.since < s \/ s \in signOut'.todo \/ lock'[s] = SignOut
      OBVIOUS
    <3>1. s \in Tokens /\ (signOut.since < s \/ s \in signOut.todo \/ lock[s] = SignOut)
      BY <1>1 DEF IInv, SignOutHolds, Live
    <3> QED
      BY <1>3, <1>5, <3>1
  <2>3. signOut'.since <= issued /\ \A x \in signOut'.signIns : x <= issued
    BY <1>1, <1>3 DEF IInv, SignOutHolds
  <2>4. Live' = Live /\ issued' = issued /\ row' = row
    BY <1>1 DEF Live, table
  <2> QED
    BY <1>4, <2>1, <2>2, <2>3, <2>4 DEF SignOutHolds
<1> QED
  BY <1>2, <1>6, <1>7, <1>8 DEF IInv

\* The sign-out lets its locks go.
LEMMA SignOutOver ==
  ASSUME IInv, signOut' = Idle, lock' = Released(SignOut), UNCHANGED request,
         \A t \in Tokens : lock[t] # SignOut => row'[t] = row[t]
  PROVE  WritersHold' /\ SignOutHolds'
<1>1. \A t \in Tokens : lock'[t] = IF lock[t] = SignOut THEN Nobody ELSE lock[t]
  BY Releases DEF IInv
<1>2. WritersHold'
  <2> SUFFICES ASSUME NEW q \in Requests, request[q].pc = "write"
               PROVE  lock'[request[q].jwt.token] = q /\ row'[request[q].jwt.token] = "live"
    BY DEF WritersHold
  <2>1. request[q].jwt.token \in Tokens
    BY RequestStages DEF IInv
  <2>2. lock[request[q].jwt.token] = q /\ row[request[q].jwt.token] = "live"
    BY DEF IInv, WritersHold
  <2> QED
    BY <1>1, <2>1, <2>2, Bounds
<1>3. SignOutHolds'
  BY <1>1, Bounds DEF SignOutHolds
<1> QED
  BY <1>2, <1>3

LEMMA SignOutCommitStep ==
  ASSUME IInv, SignOutCommit
  PROVE  IInv'
<1> DEFINE ended == [signIn : signOut.signIns, since : {signOut.since}, until : {issued}]
<1>1. /\ signOut # Idle /\ signOut.todo = {} /\ signOut' = Idle /\ lock' = Released(SignOut)
      /\ row' = [t \in Tokens |-> IF lock[t] = SignOut THEN "revoked" ELSE row[t]]
      /\ closed' = closed \cup ended
      /\ cookie' = [cookie EXCEPT ![signOut.from] = None]
      /\ UNCHANGED <<issued, root, lapsed, request, faults>>
  BY DEF SignOutCommit
<1>2. /\ signOut \in SignOuts /\ issued \in 0..MaxTokens
      /\ \A x \in signOut.signIns : x <= issued
  BY <1>1, SignOutStage DEF IInv, TypeOK, SignOutHolds
<1>3. \A c \in ended : /\ c \in Closings /\ c.signIn <= issued
                       /\ c.since = signOut.since /\ c.until = issued
  BY <1>2 DEF SignOuts, Closings
<1> HIDE DEF ended
<1>4. \A t \in Tokens : lock[t] = SignOut => row[t] = "live"
  BY DEF IInv, SignOutHolds
<1>5. TypeOK'
  <2>1. row' \in [Tokens -> {"unused", "live", "revoked"}]
    BY <1>1 DEF IInv, TypeOK
  <2>2. cookie' \in [Browsers -> {None} \cup Cookies]
    BY <1>1 DEF IInv, TypeOK
  <2>3. lock' \in [Tokens -> {Nobody, SignOut} \cup Requests]
    BY <1>1, Releases DEF IInv
  <2>4. closed' \subseteq [signIn : Tokens, since : 0..MaxTokens, until : 0..MaxTokens]
    BY <1>1, <1>3 DEF IInv, TypeOK, Closings
  <2> QED
    BY <1>1, <2>1, <2>2, <2>3, <2>4 DEF IInv, TypeOK
<1>6. WritersHold' /\ SignOutHolds'
  BY <1>1, SignOutOver
<1>7. Numbered'
  <2>1. \A t \in Tokens : row'[t] # "unused" <=> row[t] # "unused"
    BY <1>1, <1>4
  <2>2. \A c \in ended : c.signIn <= issued /\ c.until <= issued
    BY <1>2, <1>3
  <2> QED
    BY <1>1, <2>1, <2>2 DEF IInv, Numbered
<1>8. \A t \in Live' : t \in Live /\ lock[t] # SignOut
  BY <1>1 DEF Live
<1>9. OneLivePerSignIn'
  BY <1>1, <1>8 DEF IInv, OneLivePerSignIn
<1>10. SignedOutStaysOut'
  <2> SUFFICES ASSUME NEW c \in closed', NEW t \in Live', root[t] = c.signIn
               PROVE  \E s \in Tokens : root[s] = c.signIn /\ c.since < s /\ s <= c.until
    BY <1>1 DEF SignedOutStaysOut
  <2>1. CASE c \in closed
    BY <1>8, <2>1 DEF IInv, SignedOutStaysOut
  <2>2. CASE c \in ended
    <3>1. signOut.since < t
      BY <1>1, <1>8 DEF IInv, SignOutHolds
    <3>2. t \in Tokens /\ t <= issued
      BY <1>8 DEF IInv, Numbered, Live
    <3> QED
      BY <1>3, <2>2, <3>1, <3>2
  <2> QED
    BY <1>1, <2>1, <2>2
<1> QED
  BY <1>5, <1>6, <1>7, <1>9, <1>10 DEF IInv

LEMMA SignOutFailsStep ==
  ASSUME IInv, SignOutFails
  PROVE  IInv'
<1>1. /\ signOut' = Idle /\ lock' = Released(SignOut) /\ faults < MaxFaults /\ faults' = faults + 1
      /\ cookie' = [cookie EXCEPT ![signOut.from] = None]
      /\ UNCHANGED <<table, request, closed>>
  BY DEF SignOutFails
<1>2. TypeOK'
  <2>1. cookie' \in [Browsers -> {None} \cup Cookies]
    BY <1>1 DEF IInv, TypeOK
  <2>2. lock' \in [Tokens -> {Nobody, SignOut} \cup Requests]
    BY <1>1, Releases DEF IInv
  <2>3. faults' \in 0..MaxFaults
    BY <1>1, Bounds DEF IInv, TypeOK
  <2> QED
    BY <1>1, <2>1, <2>2, <2>3 DEF IInv, TypeOK, table
<1>3. WritersHold' /\ SignOutHolds'
  BY <1>1, SignOutOver DEF table
<1>4. Numbered' /\ OneLivePerSignIn' /\ SignedOutStaysOut'
  BY <1>1 DEF IInv, Numbered, OneLivePerSignIn, SignedOutStaysOut, Live, table
<1> QED
  BY <1>2, <1>3, <1>4 DEF IInv

-----------------------------------------------------------------------------
\* Every step keeps the invariant.
LEMMA StepInvariant == IInv /\ [Next]_vars => IInv'
<1> SUFFICES ASSUME IInv, [Next]_vars PROVE IInv'
  OBVIOUS
<1>1. ASSUME NEW b \in Browsers, SignIn(b) PROVE IInv'
  BY <1>1, SignInStep
<1>2. ASSUME NEW b \in Browsers, AccessExpires(b) PROVE IInv'
  <2>1. cookie[b] # None /\ UNCHANGED <<table, lock, request, signOut, closed, faults>>
    BY <1>2 DEF AccessExpires
  <2>2. cookie[b] \in Cookies /\ cookie' = [cookie EXCEPT ![b].fresh = FALSE]
    BY <1>2, <2>1 DEF AccessExpires, IInv, TypeOK
  <2>3. [cookie[b] EXCEPT !.fresh = FALSE] \in Cookies
    BY <2>2 DEF Cookies
  <2>4. cookie' \in [Browsers -> {None} \cup Cookies]
    BY <2>2, <2>3 DEF IInv, TypeOK
  <2>5. TypeOK'
    BY <2>1, <2>4 DEF IInv, TypeOK, table
  <2> QED
    BY <2>1, <2>5, Bystanders
<1>3. ASSUME NEW b \in Browsers, SignOutStart(b) PROVE IInv'
  BY <1>3, SignOutStartStep
<1>4. ASSUME NEW b \in Browsers, NEW r \in Requests, Rotate(r, b) PROVE IInv'
  <2>1. cookie[b] # None /\ UNCHANGED <<table, lock, cookie, signOut, closed, faults>>
    BY <1>4 DEF Rotate
  <2>2. cookie[b] \in Cookies
    BY <2>1 DEF IInv, TypeOK
  <2> DEFINE q == [pc |-> "select", from |-> b, jwt |-> cookie[b]]
  <2>3. /\ request' = [request EXCEPT ![r] = q]
        /\ q \in [pc : {"select", "write"}, from : Browsers, jwt : Cookies]
        /\ q.pc # "write"
    BY <1>4, <2>2 DEF Rotate
  <2> HIDE DEF q
  <2>4. TypeOK'
    BY <2>1, <2>3 DEF IInv, TypeOK, table
  <2>5. \A s \in Requests : request'[s].pc = "write" => request'[s] = request[s]
    BY <2>3 DEF IInv, TypeOK
  <2> QED
    BY <2>1, <2>4, <2>5, Bystanders
<1>5. ASSUME NEW t \in Tokens, TokenExpires(t) PROVE IInv'
  <2>1. /\ lapsed' = lapsed \cup {t}
        /\ UNCHANGED <<issued, row, root, lock, cookie, request, signOut, closed, faults>>
    BY <1>5 DEF TokenExpires
  <2>2. TypeOK'
    BY <2>1 DEF IInv, TypeOK
  <2>3. Numbered' /\ WritersHold' /\ SignOutHolds'
    BY <2>1 DEF IInv, Numbered, WritersHold, SignOutHolds, Live
  <2>4. OneLivePerSignIn' /\ SignedOutStaysOut'
    BY <2>1 DEF IInv, OneLivePerSignIn, SignedOutStaysOut, Live
  <2> QED
    BY <2>2, <2>3, <2>4 DEF IInv
<1>6. ASSUME NEW r \in Requests, RotateSelect(r) PROVE IInv'
  BY <1>6, RotateSelectStep
<1>7. ASSUME NEW r \in Requests, RotateCommit(r) PROVE IInv'
  BY <1>7, RotateCommitStep
<1>8. ASSUME NEW r \in Requests, RotateAnswer(r) PROVE IInv'
  <2>1. /\ request[r].pc = "answer" /\ request' = [request EXCEPT ![r] = Idle]
        /\ cookie' = [cookie EXCEPT ![request[r].from] = Renewed(request[r])] \/ UNCHANGED cookie
        /\ UNCHANGED <<table, lock, signOut, closed, faults>>
    BY <1>8 DEF RotateAnswer
  <2>2. request[r].jwt \in Cookies /\ request[r].new \in Answers
    BY <2>1, RequestStages DEF IInv
  <2>3. Renewed(request[r]) \in Cookies
    <3>1. CASE request[r].new = None
      BY <2>2, <3>1 DEF Renewed, Cookies
    <3>2. CASE request[r].new # None
      <4>1. request[r].new.token \in Tokens
        BY <2>2, <3>2 DEF Answers
      <4> QED
        BY <2>2, <3>2, <4>1 DEF Renewed, Cookies
    <3> QED
      BY <3>1, <3>2
  <2>4. cookie' \in [Browsers -> {None} \cup Cookies]
    BY <2>1, <2>3 DEF IInv, TypeOK
  <2>5. TypeOK'
    BY <2>1, <2>4 DEF IInv, TypeOK, table
  <2>6. \A s \in Requests : request'[s].pc = "write" => request'[s] = request[s]
    BY <2>1 DEF IInv, TypeOK, Idle
  <2> QED
    BY <2>1, <2>5, <2>6, Bystanders
<1>9. ASSUME NEW r \in Requests, RotateFails(r) PROVE IInv'
  BY <1>9, RotateFailsStep
<1>10. ASSUME NEW t \in Tokens, SignOutRow(t) PROVE IInv'
  BY <1>10, SignOutRowStep
<1>11. CASE SignOutCommit
  BY <1>11, SignOutCommitStep
<1>12. CASE SignOutFails
  BY <1>12, SignOutFailsStep
<1>13. CASE UNCHANGED vars
  <2>1. TypeOK'
    BY <1>13 DEF IInv, TypeOK, vars, table
  <2> QED
    BY <1>13, <2>1, Bystanders DEF vars, table
<1> QED
  BY <1>1, <1>2, <1>3, <1>4, <1>5, <1>6, <1>7, <1>8, <1>9, <1>10, <1>11, <1>12, <1>13
     DEF Next, RotateStep, SignOutStep

\* The invariant holds in every state.
THEOREM Inductive == Spec => []IInv
<1> QED
  BY InitInvariant, StepInvariant, PTL DEF Spec

\* Tokens, cookies, locks and requests keep their types.
THEOREM TypeCorrect == Spec => []TypeOK
<1>1. IInv => TypeOK
  BY DEF IInv
<1> QED
  BY Inductive, <1>1, PTL

\* A sign-in never has two refresh tokens that can be used: rotateRefreshToken
\* under the row lock of its SELECT ... FOR UPDATE.
THEOREM OneLiveToken == Spec => []OneLivePerSignIn
<1>1. IInv => OneLivePerSignIn
  BY DEF IInv
<1> QED
  BY Inductive, <1>1, PTL

\* A sign-in that is live when a sign-out begins can be live after it has committed
\* only through a token issued while it ran, by a rotation that held the row first:
\* revokeAllUserTokens and rotateRefreshToken on the same row.
THEOREM SignOutIsFinal == Spec => []SignedOutStaysOut
<1>1. IInv => SignedOutStaysOut
  BY DEF IInv
<1> QED
  BY Inductive, <1>1, PTL
=============================================================================
