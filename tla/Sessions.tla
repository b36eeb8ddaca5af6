------------------------------ MODULE Sessions ------------------------------
(***************************************************************************)
(* The sessions of one user: refresh tokens in PostgreSQL                  *)
(* (token.service.ts) and the cookies the browsers keep (the jwt callback  *)
(* and the signOut event of auth.ts).  A request whose access token is too *)
(* old rotates the refresh token of its cookie in a transaction that locks *)
(* the token's row; signing out is one UPDATE, which sees the rows there   *)
(* were when it began and waits for those that are locked.                 *)
(*                                                                         *)
(* Every query names the user's id, so users do not touch each other.      *)
(* next-auth is external: it hands the cookie of a request to the callback *)
(* and the result back to the browser, except where the answer is lost or  *)
(* the session was read by a route handler, which sends no cookie back.    *)
(***************************************************************************)
EXTENDS Naturals, FiniteSets

CONSTANTS MaxTokens,   \* bound on the refresh tokens issued
          Browsers,
          Requests,    \* requests with an expired access token, at the same time
          MaxFaults    \* bound on failed database calls

ASSUME SessionsAssumption ==
  /\ Requests \cap {"nobody", "signOut"} = {}
  /\ IsFiniteSet(Requests) /\ MaxTokens \in Nat /\ MaxFaults \in Nat

VARIABLES issued,   \* refresh tokens issued so far: they are numbered
          row,      \* refresh_tokens: revoked_at as a status, by token
          root,     \* the first token of the sign-in a token descends from
          lapsed,   \* tokens whose 30 days are over
          lock,     \* who holds the lock of a row
          cookie,   \* what the browsers hold
          request, signOut,
          closed,   \* sign-ins that were live when a sign-out began that committed,
                    \* with the tokens issued before it began and before it committed
          faults

table == <<issued, row, root, lapsed>>
vars == <<table, lock, cookie, request, signOut, closed, faults>>

Tokens == 1..MaxTokens
Nobody == "nobody"
SignOut == "signOut"
None == [kind |-> "none"]
Idle == [pc |-> "idle"]
Cookies == [kind : {"jwt"}, token : Tokens, fresh : BOOLEAN, error : BOOLEAN]
Answers == {None} \cup [kind : {"token"}, token : Tokens]

TypeOK ==
  /\ issued \in 0..MaxTokens
  /\ row \in [Tokens -> {"unused", "live", "revoked"}]
  /\ root \in [Tokens -> Tokens] /\ lapsed \subseteq Tokens
  /\ lock \in [Tokens -> {Nobody, SignOut} \cup Requests]
  /\ cookie \in [Browsers -> {None} \cup Cookies]
  /\ request \in [Requests -> {Idle}
       \cup [pc : {"select", "write"}, from : Browsers, jwt : Cookies]
       \cup [pc : {"answer"}, from : Browsers, jwt : Cookies, new : Answers]]
  /\ signOut \in {Idle} \cup [pc : {"update"}, from : Browsers, todo : SUBSET Tokens,
                             signIns : SUBSET Tokens, since : 0..MaxTokens]
  /\ closed \subseteq [signIn : Tokens, since : 0..MaxTokens, until : 0..MaxTokens]
  /\ faults \in 0..MaxFaults

Init ==
  /\ issued = 0 /\ row = [t \in Tokens |-> "unused"]
  /\ root = [t \in Tokens |-> t] /\ lapsed = {}
  /\ lock = [t \in Tokens |-> Nobody]
  /\ cookie = [b \in Browsers |-> None]
  /\ request = [r \in Requests |-> Idle] /\ signOut = Idle
  /\ closed = {} /\ faults = 0

\* The bound leaves room for the rotations that have begun.
Room == issued + Cardinality({r \in Requests : request[r].pc \in {"select", "write"}}) < MaxTokens
Live == {t \in Tokens : row[t] = "live"}
Released(holder) == [t \in Tokens |-> IF lock[t] = holder THEN Nobody ELSE lock[t]]

-----------------------------------------------------------------------------
\* createRefreshToken, called by the jwt callback for a user who has signed in.
SignIn(b) ==
  /\ Room /\ issued' = issued + 1
  /\ row' = [row EXCEPT ![issued'] = "live"]
  /\ cookie' = [cookie EXCEPT ![b] =
       [kind |-> "jwt", token |-> issued', fresh |-> TRUE, error |-> FALSE]]
  /\ UNCHANGED <<root, lapsed, lock, request, signOut, closed, faults>>

\* Fifteen minutes on, a cookie's access token is too old.
AccessExpires(b) ==
  /\ cookie[b] # None /\ cookie[b].fresh
  /\ cookie' = [cookie EXCEPT ![b].fresh = FALSE]
  /\ UNCHANGED <<table, lock, request, signOut, closed, faults>>

\* Thirty days on, so is a refresh token.
TokenExpires(t) ==
  /\ t \in Live /\ t \notin lapsed /\ lapsed' = lapsed \cup {t}
  /\ UNCHANGED <<issued, row, root, lock, cookie, request, signOut, closed, faults>>

-----------------------------------------------------------------------------
\* A request arrives whose access token is too old: the callback rotates.  With
\* one that is not, nothing changes.
Rotate(r, b) ==
  /\ request[r] = Idle /\ cookie[b] # None /\ ~cookie[b].fresh /\ Room
  /\ request' = [request EXCEPT ![r] = [pc |-> "select", from |-> b, jwt |-> cookie[b]]]
  /\ UNCHANGED <<table, lock, cookie, signOut, closed, faults>>

Reply(r, new) ==
  request' = [request EXCEPT ![r] =
    [pc |-> "answer", from |-> request[r].from, jwt |-> request[r].jwt, new |-> new]]

\* Mutant: the row is read without FOR UPDATE.
RotateSelect_Unlocked(r) ==
  LET t == request[r].jwt.token
  IN  /\ request[r].pc = "select"
      /\ IF t \in Live \ lapsed
         THEN request' = [request EXCEPT ![r].pc = "write"]
         ELSE Reply(r, None)
      /\ UNCHANGED <<table, lock, cookie, signOut, closed, faults>>

\* Mutant: a token that is refused is returned without ROLLBACK.
RotateSelect_KeepsLock(r) ==
  LET t == request[r].jwt.token
  IN  /\ request[r].pc = "select" /\ lock[t] = Nobody
      /\ lock' = [lock EXCEPT ![t] = r]
      /\ IF t \in Live \ lapsed
         THEN request' = [request EXCEPT ![r].pc = "write"]
         ELSE Reply(r, None)
      /\ UNCHANGED <<table, cookie, signOut, closed, faults>>

\* SELECT ... FOR UPDATE, which waits for whoever holds the row; a token that is
\* revoked or out of time is refused and the transaction rolled back.
RotateSelect(r) ==
  LET t == request[r].jwt.token
  IN  /\ request[r].pc = "select" /\ lock[t] = Nobody
      /\ IF t \in Live \ lapsed
         THEN /\ request' = [request EXCEPT ![r].pc = "write"]
              /\ lock' = [lock EXCEPT ![t] = r]
         ELSE Reply(r, None) /\ UNCHANGED lock
      /\ UNCHANGED <<table, cookie, signOut, closed, faults>>

\* The INSERT of the new token and the UPDATE of the old one, seen by others
\* with the COMMIT.
RotateCommit(r) ==
  LET t == request[r].jwt.token
  IN  /\ request[r].pc = "write" /\ issued < MaxTokens /\ issued' = issued + 1
      /\ row' = [row EXCEPT ![t] = "revoked", ![issued'] = "live"]
      /\ root' = [root EXCEPT ![issued'] = root[t]]
      /\ lock' = Released(r)
      /\ Reply(r, [kind |-> "token", token |-> issued'])
      /\ UNCHANGED <<lapsed, cookie, signOut, closed, faults>>

\* A call fails: ROLLBACK, and null like any other refusal.
RotateFails(r) ==
  /\ request[r].pc \in {"select", "write"} /\ faults < MaxFaults /\ faults' = faults + 1
  /\ lock' = Released(r) /\ Reply(r, None)
  /\ UNCHANGED <<table, cookie, signOut, closed>>

\* The callback's result: the new token, or the old cookie marked with an error
\* that nothing reads and nothing takes off again.
Renewed(q) ==
  IF q.new = None THEN [q.jwt EXCEPT !.error = TRUE]
  ELSE [q.jwt EXCEPT !.token = q.new.token, !.fresh = TRUE]

\* It reaches the browser, over whatever the browser holds by then, or it does not.
RotateAnswer(r) ==
  /\ request[r].pc = "answer" /\ request' = [request EXCEPT ![r] = Idle]
  /\ \/ cookie' = [cookie EXCEPT ![request[r].from] = Renewed(request[r])]
     \/ UNCHANGED cookie
  /\ UNCHANGED <<table, lock, signOut, closed, faults>>

-----------------------------------------------------------------------------
\* The signOut event: revokeAllUserTokens takes the rows that are live, and none that
\* a rotation adds from now on ...
SignOutStart(b) ==
  /\ signOut = Idle /\ cookie[b] # None
  /\ signOut' = [pc |-> "update", from |-> b, todo |-> Live,
                 signIns |-> {root[t] : t \in Live}, since |-> issued]
  /\ UNCHANGED <<table, lock, cookie, request, closed, faults>>

\* Mutant: rows that are locked are not waited for.
SignOutRow_SkipsLocked(t) ==
  /\ signOut # Idle /\ t \in signOut.todo
  /\ lock' = IF t \in Live /\ lock[t] = Nobody THEN [lock EXCEPT ![t] = SignOut] ELSE lock
  /\ signOut' = [signOut EXCEPT !.todo = @ \ {t}]
  /\ UNCHANGED <<table, cookie, request, closed, faults>>

\* ... locks one after the other, waiting where it must and looking again at
\* revoked_at ...
SignOutRow(t) ==
  /\ signOut # Idle /\ t \in signOut.todo /\ lock[t] = Nobody
  /\ lock' = IF t \in Live THEN [lock EXCEPT ![t] = SignOut] ELSE lock
  /\ signOut' = [signOut EXCEPT !.todo = @ \ {t}]
  /\ UNCHANGED <<table, cookie, request, closed, faults>>

\* ... and revokes those; next-auth takes the browser's cookie away.
SignOutCommit ==
  /\ signOut # Idle /\ signOut.todo = {}
  /\ row' = [t \in Tokens |-> IF lock[t] = SignOut THEN "revoked" ELSE row[t]]
  /\ lock' = Released(SignOut)
  /\ closed' = closed \cup [signIn : signOut.signIns, since : {signOut.since}, until : {issued}]
  /\ cookie' = [cookie EXCEPT ![signOut.from] = None]
  /\ signOut' = Idle
  /\ UNCHANGED <<issued, root, lapsed, request, faults>>

\* The UPDATE fails: next-auth logs it and takes the cookie away all the same.
SignOutFails ==
  /\ signOut # Idle /\ faults < MaxFaults /\ faults' = faults + 1
  /\ lock' = Released(SignOut)
  /\ cookie' = [cookie EXCEPT ![signOut.from] = None] /\ signOut' = Idle
  /\ UNCHANGED <<table, request, closed>>

-----------------------------------------------------------------------------
RotateStep(r) == RotateSelect(r) \/ RotateCommit(r) \/ RotateAnswer(r)
SignOutStep == (\E t \in Tokens : SignOutRow(t)) \/ SignOutCommit

Next ==
  \/ \E b \in Browsers : \/ SignIn(b) \/ AccessExpires(b) \/ SignOutStart(b)
                         \/ \E r \in Requests : Rotate(r, b)
  \/ \E t \in Tokens : TokenExpires(t)
  \/ \E r \in Requests : RotateStep(r) \/ RotateFails(r)
  \/ SignOutStep \/ SignOutFails

\* The database answers, and hands a row's lock on when it is free.
Fairness == WF_vars(SignOutStep) /\ \A r \in Requests : WF_vars(RotateStep(r))

Spec == Init /\ [][Next]_vars /\ Fairness

-----------------------------------------------------------------------------
\* However many requests rotate at once, and whatever is lost on the way, a
\* sign-in has at most one refresh token that can still be used.
OneLivePerSignIn ==
  \A s, t \in Live : root[s] = root[t] => s = t

\* A sign-in that was live when a sign-out began is over once that has committed, and
\* no request that rotates later brings it back; with one exception: a rotation that
\* holds the row before the sign-out comes to it gives the sign-in a token that the
\* sign-out does not see, and that stays usable.
SignedOutStaysOut ==
  \A c \in closed : (\E t \in Live : root[t] = c.signIn) =>
    \E t \in Tokens : root[t] = c.signIn /\ c.since < t /\ t <= c.until

\* The locks are given back on every path: each request is answered, and the
\* sign-out ends.
EveryoneAnswered ==
  /\ \A r \in Requests : (request[r] # Idle) ~> (request[r] = Idle)
  /\ (signOut # Idle) ~> (signOut = Idle)
=============================================================================
