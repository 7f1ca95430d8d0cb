---- MODULE TransportAuthProofs ----
(***************************************************************************)
(* Proofs about TransportAuth, for any sets of users, keys, challenges and *)
(* tokens, any lifetimes and limits, and any number of restarts.           *)
(***************************************************************************)
EXTENDS TransportAuth, SlidingWindowProofs

----------------------------------------------------------------------------
\* Types.

\* Cleaning up and marking leave rows of their tables.
LEMMA KeptTypes ==
    ASSUME TypeOK
    PROVE  /\ KeptChallenges \subseteq ChallengeRow
           /\ KeptSessions \subseteq SessionRow
           /\ \A c \in ChallengeRow : Marked(c) \in ChallengeRow
           /\ \A u : RevokeAllOf(u) \subseteq SessionRow
<1>1. KeptChallenges \subseteq ChallengeRow /\ KeptSessions \subseteq SessionRow
  BY DEF TypeOK, KeptChallenges, KeptSessions
<1>2. \A c \in ChallengeRow : Marked(c) \in ChallengeRow
  BY DEF Marked, ChallengeRow
<1>3. ASSUME NEW u PROVE RevokeAllOf(u) \subseteq SessionRow
  <2>1. \A s \in SessionRow : [s EXCEPT !.revoked = @ \/ s.user = u] \in SessionRow
    BY DEF SessionRow
  <2> QED
    BY <2>1 DEF RevokeAllOf, TypeOK
<1> QED
  BY <1>1, <1>2, <1>3

\* Counting an attempt leaves the two buckets what they are.
LEMMA CountTypes ==
    ASSUME TypeOK, NEW u \in User
    PROVE  /\ [begins EXCEPT ![u] = CheckAndRecord(@, now, MaxAttempts)] \in [User -> Bucket(MaxAttempts)]
           /\ [finishes EXCEPT ![u] = CheckAndRecord(@, now, MaxAttempts)] \in [User -> Bucket(MaxAttempts)]
<1>1. now \in Nat /\ begins \in [User -> Bucket(MaxAttempts)] /\ finishes \in [User -> Bucket(MaxAttempts)]
  BY DEF TypeOK
<1>2. /\ CheckAndRecord(begins[u], now, MaxAttempts) \in Bucket(MaxAttempts)
      /\ CheckAndRecord(finishes[u], now, MaxAttempts) \in Bucket(MaxAttempts)
  BY <1>1, CheckAndRecordType, TransportAuthAssumption
<1> QED
  BY <1>1, <1>2

\* Every step of the store keeps the types.
LEMMA TypeStep ==
    ASSUME TypeOK, Next PROVE TypeOK'
<1> USE TransportAuthAssumption
<1>1. ASSUME NEW u \in User, NEW k \in Key, NEW tokenOk \in BOOLEAN, RegisterNew(u, k, tokenOk)
      PROVE  TypeOK'
  BY <1>1 DEF RegisterNew, TypeOK
<1>2. ASSUME NEW u \in User, NEW k \in Key, NEW signedBy \in Key, NEW tokenOk \in BOOLEAN,
             RegisterRotate(u, k, signedBy, tokenOk)
      PROVE  TypeOK'
  BY <1>2, KeptTypes DEF RegisterRotate, TypeOK
<1>3. ASSUME NEW u \in User, NEW id \in Challenge, AuthBegin(u, id)
      PROVE  TypeOK'
  <2>1. [id |-> id, user |-> u, expires |-> now + ChallengeTtl, used |-> FALSE] \in ChallengeRow
    BY DEF TypeOK, ChallengeRow
  <2>2. challenges' \subseteq ChallengeRow /\ sessions' \subseteq SessionRow
    BY <1>3, <2>1, KeptTypes DEF AuthBegin
  <2>3. begins' \in [User -> Bucket(MaxAttempts)]
    BY <1>3, CountTypes DEF AuthBegin, CountBegin
  <2> QED
    BY <1>3, <2>2, <2>3 DEF AuthBegin, TypeOK
<1>4. ASSUME NEW u \in User, NEW c \in challenges, NEW k \in Key, NEW token \in Token,
             AuthFinish(u, c, k, token)
      PROVE  TypeOK'
  <2>1. [token |-> token, secret |-> secret, user |-> u, expires |-> now + SessionTtl,
         revoked |-> FALSE] \in SessionRow
    BY DEF TypeOK, SessionRow
  <2>2. c \in ChallengeRow
    BY DEF TypeOK
  <2>3. [token |-> token, challenge |-> c.id, user |-> u, key |-> k] \in Login
    BY <2>2 DEF Login, ChallengeRow
  <2>4. challenges' \subseteq ChallengeRow /\ sessions' \subseteq SessionRow
    BY <1>4, <2>1, <2>2, KeptTypes DEF AuthFinish
  <2>5. finishes' \in [User -> Bucket(MaxAttempts)]
    BY <1>4, CountTypes DEF AuthFinish, CountFinish
  <2> QED
    BY <1>4, <2>3, <2>4, <2>5 DEF AuthFinish, TypeOK
<1>5. ASSUME NEW u \in User, NEW c \in challenges, AuthFinishFails(u, c)
      PROVE  TypeOK'
  <2>1. c \in ChallengeRow
    BY DEF TypeOK
  <2>2. challenges' \subseteq ChallengeRow /\ sessions' \subseteq SessionRow
    BY <1>5, <2>1, KeptTypes DEF AuthFinishFails
  <2>3. finishes' \in [User -> Bucket(MaxAttempts)]
    BY <1>5, CountTypes DEF AuthFinishFails, CountFinish
  <2> QED
    BY <1>5, <2>2, <2>3 DEF AuthFinishFails, TypeOK
<1>6. ASSUME NEW u \in User, AuthBeginRefused(u)
      PROVE  TypeOK'
  BY <1>6, KeptTypes, CountTypes DEF AuthBeginRefused, CountBegin, TypeOK
<1>7. ASSUME NEW u \in User, AuthFinishRefused(u)
      PROVE  TypeOK'
  BY <1>7, KeptTypes, CountTypes DEF AuthFinishRefused, CountFinish, TypeOK
<1>8. ASSUME AuthenticateSessionToken PROVE TypeOK'
  BY <1>8, KeptTypes DEF AuthenticateSessionToken, TypeOK
<1>9. ASSUME NEW token \in Token, RevokeSessionToken(token)
      PROVE  TypeOK'
  <2>1. \A s \in SessionRow : [s EXCEPT !.revoked = @ \/ Matches(s, token)] \in SessionRow
    BY DEF SessionRow, Matches
  <2>2. sessions' \subseteq SessionRow
    BY <1>9, <2>1 DEF RevokeSessionToken, TypeOK
  <2> QED
    BY <1>9, <2>2 DEF RevokeSessionToken, TypeOK
<1>10. ASSUME Restart PROVE TypeOK'
  <2>1. <<>> \in Bucket(MaxAttempts)
    BY TransportAuthAssumption DEF Bucket
  <2> QED
    BY <1>10, <2>1 DEF Restart, TypeOK
<1>11. ASSUME Tick PROVE TypeOK'
  BY <1>11 DEF Tick, TypeOK
<1> QED
  BY <1>1, <1>2, <1>3, <1>4, <1>5, <1>6, <1>7, <1>8, <1>9, <1>10, <1>11 DEF Next

\* The store starts with values of the right types.
LEMMA TypeInit ==
    ASSUME Init PROVE TypeOK
<1>1. <<>> \in Bucket(MaxAttempts)
  BY TransportAuthAssumption DEF Bucket
<1> QED
  BY <1>1 DEF Init, TypeOK

\* Every behaviour of the store keeps its tables, buckets and clock in their
\* types, and no bucket of the rate limiter beyond its limit.
THEOREM TypeCorrect == Spec => []TypeOK
<1>1. TypeOK /\ [Next]_vars => TypeOK'
  <2>1. CASE Next
    BY <2>1, TypeStep
  <2>2. CASE UNCHANGED vars
    BY <2>2 DEF vars, TypeOK
  <2> QED
    BY <2>1, <2>2
<1> QED
  BY <1>1, TypeInit, PTL DEF Spec

----------------------------------------------------------------------------
\* The inductive invariant.  First what a cleanup and a revocation keep of it.

\* What AuthInv says beyond the types.
Rows == SessionsFromLogins /\ ChallengesUnspent /\ OneLoginPerChallenge

\* Deleting rows of sessions, with or without a new secret, keeps
\* SessionsFromLogins.
LEMMA SessionsDeleted ==
    ASSUME TypeOK, SessionsFromLogins,
           sessions' \subseteq sessions, logins' = logins, account' = account,
           secret' \in Nat, secret <= secret'
    PROVE  SessionsFromLogins'
<1>1. \A s \in sessions : s.secret \in Nat /\ s.secret <= secret
  BY DEF TypeOK, SessionRow, SessionsFromLogins
<1>2. \A s \in sessions' : s.secret <= secret'
  BY <1>1 DEF TypeOK
<1>3. \A s \in sessions' :
         \E l \in logins' : /\ l.token = s.token /\ l.user = s.user
                            /\ ~s.revoked => l.key = account'[s.user]
  BY DEF SessionsFromLogins
<1> QED
  BY <1>2, <1>3 DEF SessionsFromLogins

\* Deleting rows of auth_challenges keeps ChallengesUnspent.
LEMMA ChallengesDeleted ==
    ASSUME ChallengesUnspent,
           challenges' \subseteq challenges, logins' = logins, issued' = issued
    PROVE  ChallengesUnspent'
BY DEF ChallengesUnspent

\* Setting the revoked column of some rows, perhaps after a cleanup, keeps
\* SessionsFromLogins, also when the accounts of the revoked rows change their
\* key in the same transaction.
LEMMA SessionsRevoked ==
    ASSUME TypeOK, SessionsFromLogins, NEW R \in SUBSET sessions,
           \A t \in sessions' : \E s \in sessions : t = [s EXCEPT !.revoked = @ \/ s \in R],
           logins' = logins, secret' = secret,
           \A s \in sessions \ R : account'[s.user] = account[s.user]
    PROVE  SessionsFromLogins'
<1> DEFINE rev(s) == [s EXCEPT !.revoked = @ \/ s \in R]
<1>1. \A s \in sessions : /\ rev(s).token = s.token /\ rev(s).user = s.user
                          /\ rev(s).secret = s.secret
                          /\ ~rev(s).revoked => ~s.revoked /\ s \notin R
  BY DEF TypeOK, SessionRow
<1>2. \A t \in sessions' : \E s \in sessions : t = rev(s)
  OBVIOUS
<1> HIDE DEF rev
<1>3. ASSUME NEW s \in sessions', NEW t \in sessions', s.token = t.token PROVE s = t
  BY <1>1, <1>2, <1>3 DEF SessionsFromLogins
<1>4. ASSUME NEW t \in sessions'
      PROVE  \E l \in logins' : /\ l.token = t.token /\ l.user = t.user
                                /\ ~t.revoked => l.key = account'[t.user]
  <2>1. PICK s \in sessions : t = rev(s)
    BY <1>2
  <2>2. PICK l \in logins : /\ l.token = s.token /\ l.user = s.user
                            /\ ~s.revoked => l.key = account[s.user]
    BY DEF SessionsFromLogins
  <2>3. ~t.revoked => l.key = account'[t.user]
    BY <1>1, <2>1, <2>2
  <2> QED
    BY <1>1, <2>1, <2>2, <2>3
<1>5. \A t \in sessions' : t.secret <= secret'
  BY <1>1, <1>2 DEF SessionsFromLogins
<1> QED
  BY <1>3, <1>4, <1>5 DEF SessionsFromLogins

\* Marking a challenge as used, with what is left after the cleanup, keeps
\* ChallengesUnspent when at most the marked challenge earns a login.
LEMMA ChallengesMarked ==
    ASSUME TypeOK, ChallengesUnspent, NEW c \in KeptChallenges,
           challenges' = (KeptChallenges \ {c}) \cup {Marked(c)},
           issued' = issued,
           \A l \in logins' : l \in logins \/ l.challenge = c.id
    PROVE  ChallengesUnspent'
<1>1. KeptChallenges \subseteq challenges /\ c \in challenges
  BY DEF KeptChallenges
<1>2. Marked(c).id = c.id /\ Marked(c).used
  BY <1>1 DEF Marked, TypeOK, ChallengeRow
<1>3. \A l \in logins' : l.challenge \in issued'
  BY <1>1 DEF ChallengesUnspent
<1>4. \A d \in challenges' : d.id \in issued'
  BY <1>1, <1>2 DEF ChallengesUnspent
<1>5. ASSUME NEW d \in challenges', NEW e \in challenges', d.id = e.id PROVE d = e
  BY <1>1, <1>2, <1>5 DEF ChallengesUnspent
<1>6. ASSUME NEW d \in challenges', NEW l \in logins', l.challenge = d.id PROVE d.used
  <2>1. CASE d = Marked(c)
    BY <1>2, <2>1
  <2>2. CASE d \in KeptChallenges \ {c}
    BY <1>1, <1>6, <2>2 DEF ChallengesUnspent
  <2> QED
    BY <2>1, <2>2
<1> QED
  BY <1>3, <1>4, <1>5, <1>6 DEF ChallengesUnspent

\* A step that keeps accounts, secret and logins and only cleans up keeps the
\* invariant.
LEMMA CleanupStep ==
    ASSUME AuthInv, sessions' = KeptSessions, challenges' = KeptChallenges,
           UNCHANGED <<account, secret, issued, logins>>
    PROVE  Rows'
<1>1. sessions' \subseteq sessions /\ challenges' \subseteq challenges
  BY DEF KeptSessions, KeptChallenges
<1>2. TypeOK /\ secret' \in Nat /\ secret <= secret'
  BY DEF AuthInv, TypeOK
<1>3. SessionsFromLogins'
  BY <1>1, <1>2, SessionsDeleted DEF AuthInv
<1>4. ChallengesUnspent'
  BY <1>1, ChallengesDeleted DEF AuthInv
<1> QED
  BY <1>3, <1>4 DEF AuthInv, Rows, OneLoginPerChallenge

\* A challenge with an id never handed out before keeps the invariant.
LEMMA ChallengeAdded ==
    ASSUME AuthInv, NEW u \in User, NEW id \in Challenge, id \notin issued,
           challenges' = KeptChallenges \cup
             {[id |-> id, user |-> u, expires |-> now + ChallengeTtl, used |-> FALSE]},
           sessions' = KeptSessions, issued' = issued \cup {id},
           UNCHANGED <<account, secret, logins>>
    PROVE  Rows'
<1> USE DEF AuthInv
<1>1. SessionsFromLogins'
  <2>1. sessions' \subseteq sessions /\ secret' \in Nat /\ secret <= secret'
    BY DEF KeptSessions, TypeOK
  <2> QED
    BY <2>1, SessionsDeleted
<1>2. ChallengesUnspent'
  <2> DEFINE new == [id |-> id, user |-> u, expires |-> now + ChallengeTtl, used |-> FALSE]
  <2>1. challenges' = KeptChallenges \cup {new} /\ KeptChallenges \subseteq challenges
    BY DEF KeptChallenges
  <2>2. new.id = id
    OBVIOUS
  <2> HIDE DEF new
  <2>3. \A c \in challenges : c.id # id
    BY DEF ChallengesUnspent
  <2>4. \A l \in logins : l.challenge # id
    BY DEF ChallengesUnspent
  <2> QED
    BY <2>1, <2>2, <2>3, <2>4 DEF ChallengesUnspent
<1> QED
  BY <1>1, <1>2 DEF Rows, OneLoginPerChallenge

\* A login with the account's key for an unmarked challenge, which it marks,
\* and with a token never handed out before keeps the invariant.
LEMMA LoginAdded ==
    ASSUME AuthInv, NEW u \in User, NEW c \in KeptChallenges, NEW k \in Key, NEW token \in Token,
           Answerable(c, u), k = account[u], \A l \in logins : l.token # token,
           challenges' = (KeptChallenges \ {c}) \cup {Marked(c)},
           sessions' = KeptSessions \cup
             {[token |-> token, secret |-> secret, user |-> u, expires |-> now + SessionTtl,
               revoked |-> FALSE]},
           logins' = logins \cup {[token |-> token, challenge |-> c.id, user |-> u, key |-> k]},
           UNCHANGED <<account, secret, issued>>
    PROVE  Rows'
<1> USE DEF AuthInv
<1> DEFINE row == [token |-> token, secret |-> secret, user |-> u,
                   expires |-> now + SessionTtl, revoked |-> FALSE]
           login == [token |-> token, challenge |-> c.id, user |-> u, key |-> k]
<1>1. /\ sessions' = KeptSessions \cup {row} /\ KeptSessions \subseteq sessions
      /\ logins' = logins \cup {login}
      /\ c \in challenges /\ ~c.used
  BY DEF KeptSessions, KeptChallenges, Answerable
<1>2. row.token = token /\ row.secret = secret /\ row.user = u
  OBVIOUS
<1>3. login.token = token /\ login.user = u /\ login.key = k /\ login.challenge = c.id
  OBVIOUS
<1> HIDE DEF row, login
<1>4. \A s \in sessions : s.token # token
  BY DEF SessionsFromLogins
<1>5. \A l \in logins : l.challenge # c.id
  BY <1>1 DEF ChallengesUnspent
<1>6. SessionsFromLogins'
  <2>1. \A l, m \in logins' : l.token = m.token => l = m
    BY <1>1, <1>3 DEF SessionsFromLogins
  <2>2. \A s, t \in sessions' : s.token = t.token => s = t
    BY <1>1, <1>2, <1>4 DEF SessionsFromLogins
  <2>3. ASSUME NEW s \in sessions'
        PROVE  \E l \in logins' : /\ l.token = s.token /\ l.user = s.user
                                  /\ ~s.revoked => l.key = account'[s.user]
    BY <1>1, <1>2, <1>3 DEF SessionsFromLogins
  <2>4. \A s \in sessions' : s.secret <= secret'
    BY <1>1, <1>2 DEF SessionsFromLogins, TypeOK
  <2> QED
    BY <2>1, <2>2, <2>3, <2>4 DEF SessionsFromLogins
<1>7. ChallengesUnspent'
  BY <1>1, <1>3, ChallengesMarked
<1>8. OneLoginPerChallenge'
  BY <1>1, <1>3, <1>5 DEF OneLoginPerChallenge
<1> QED
  BY <1>6, <1>7, <1>8 DEF Rows

\* An answer that fails marks the challenge and earns nothing.
LEMMA ChallengeSpent ==
    ASSUME AuthInv, NEW c \in KeptChallenges,
           challenges' = (KeptChallenges \ {c}) \cup {Marked(c)},
           sessions' = KeptSessions,
           UNCHANGED <<account, secret, issued, logins>>
    PROVE  Rows'
<1>1. SessionsFromLogins'
  <2>1. sessions' \subseteq sessions /\ secret' \in Nat /\ secret <= secret'
    BY DEF KeptSessions, AuthInv, TypeOK
  <2> QED
    BY <2>1, SessionsDeleted DEF AuthInv
<1>2. ChallengesUnspent'
  BY ChallengesMarked DEF AuthInv
<1> QED
  BY <1>1, <1>2 DEF AuthInv, Rows, OneLoginPerChallenge

\* The first key of an account meets no session that is not revoked.
LEMMA FirstKey ==
    ASSUME AuthInv, NEW u \in User, NEW k \in Key, account[u] = NoAccount,
           account' = [account EXCEPT ![u] = k],
           UNCHANGED <<challenges, sessions, secret, issued, logins>>
    PROVE  Rows'
<1> USE DEF AuthInv
<1>1. ASSUME NEW s \in sessions PROVE s.revoked \/ s.user # u
  <2>1. PICK l \in logins : /\ l.token = s.token /\ l.user = s.user
                            /\ ~s.revoked => l.key = account[s.user]
    BY DEF SessionsFromLogins
  <2>2. l.key \in Key /\ account[u] \notin Key
    BY TransportAuthAssumption DEF TypeOK, Login
  <2> QED
    BY <2>1, <2>2
<1>2. \A s \in sessions : s.revoked \/ account'[s.user] = account[s.user]
  BY <1>1 DEF TypeOK, SessionRow
<1>3. SessionsFromLogins'
  BY <1>2 DEF SessionsFromLogins
<1>4. ChallengesUnspent'
  BY ChallengesDeleted
<1> QED
  BY <1>3, <1>4 DEF Rows, OneLoginPerChallenge

\* Every step of the store keeps the invariant.
LEMMA AuthInvStep ==
    ASSUME AuthInv, Next PROVE AuthInv'
<1> USE DEF AuthInv
<1>1. ASSUME NEW u \in User, NEW k \in Key, NEW tokenOk \in BOOLEAN, RegisterNew(u, k, tokenOk)
      PROVE  Rows'
  BY <1>1, FirstKey DEF RegisterNew
<1>2. ASSUME NEW u \in User, NEW k \in Key, NEW signedBy \in Key, NEW tokenOk \in BOOLEAN,
             RegisterRotate(u, k, signedBy, tokenOk)
      PROVE  Rows'
  <2> DEFINE R == {s \in sessions : s.user = u}
  <2>1. \A t \in sessions' : \E s \in sessions : t = [s EXCEPT !.revoked = @ \/ s \in R]
    BY <1>2 DEF RegisterRotate, RevokeAllOf
  <2>2. \A s \in sessions \ R : account'[s.user] = account[s.user]
    BY <1>2 DEF RegisterRotate, TypeOK, SessionRow
  <2>3. R \in SUBSET sessions /\ logins' = logins /\ secret' = secret
    BY <1>2 DEF RegisterRotate
  <2> HIDE DEF R
  <2>4. SessionsFromLogins'
    BY <2>1, <2>2, <2>3, SessionsRevoked
  <2>5. ChallengesUnspent'
    BY <1>2, ChallengesDeleted DEF RegisterRotate
  <2> QED
    BY <1>2, <2>4, <2>5 DEF Rows, RegisterRotate, OneLoginPerChallenge
<1>3. ASSUME NEW u \in User, NEW id \in Challenge, AuthBegin(u, id)
      PROVE  Rows'
  BY <1>3, ChallengeAdded DEF AuthBegin
<1>4. ASSUME NEW u \in User, NEW c \in challenges, NEW k \in Key, NEW token \in Token,
             AuthFinish(u, c, k, token)
      PROVE  Rows'
  BY <1>4, LoginAdded DEF AuthFinish
<1>5. ASSUME NEW u \in User, NEW c \in challenges, AuthFinishFails(u, c)
      PROVE  Rows'
  BY <1>5, ChallengeSpent DEF AuthFinishFails
<1>6. ASSUME NEW u \in User, AuthBeginRefused(u) \/ AuthFinishRefused(u)
      PROVE  Rows'
  BY <1>6, CleanupStep DEF AuthBeginRefused, AuthFinishRefused
<1>7. ASSUME AuthenticateSessionToken PROVE Rows'
  BY <1>7, CleanupStep DEF AuthenticateSessionToken
<1>8. ASSUME NEW token \in Token, RevokeSessionToken(token)
      PROVE  Rows'
  <2> DEFINE R == {s \in sessions : Matches(s, token)}
  <2>1. \A t \in sessions' : \E s \in sessions : t = [s EXCEPT !.revoked = @ \/ s \in R]
    BY <1>8 DEF RevokeSessionToken
  <2>2. R \in SUBSET sessions /\ logins' = logins /\ secret' = secret /\ account' = account
    BY <1>8 DEF RevokeSessionToken
  <2> HIDE DEF R
  <2>3. SessionsFromLogins'
    BY <2>1, <2>2, SessionsRevoked
  <2>4. ChallengesUnspent'
    BY <1>8, ChallengesDeleted DEF RevokeSessionToken
  <2> QED
    BY <1>8, <2>3, <2>4 DEF Rows, RevokeSessionToken, OneLoginPerChallenge
<1>9. ASSUME Restart PROVE Rows'
  <2>1. secret' \in Nat /\ secret <= secret'
    BY <1>9 DEF Restart, TypeOK
  <2> QED
    BY <1>9, <2>1, SessionsDeleted, ChallengesDeleted DEF Rows, Restart, OneLoginPerChallenge
<1>10. ASSUME Tick PROVE Rows'
  BY <1>10 DEF Tick, Rows, SessionsFromLogins, ChallengesUnspent, OneLoginPerChallenge
<1>11. Rows'
  BY <1>1, <1>2, <1>3, <1>4, <1>5, <1>6, <1>7, <1>8, <1>9, <1>10 DEF Next
<1> QED
  BY <1>11, TypeStep DEF Rows

\* The invariant holds in every state of the store: a token leads to at most
\* one row and one login, and an unmarked challenge earned nothing.
THEOREM AuthInvHolds == Spec => []AuthInv
<1>1. Init => AuthInv
  <2> SUFFICES ASSUME Init PROVE AuthInv
    OBVIOUS
  <2>1. TypeOK
    BY TypeInit
  <2> QED
    BY <2>1 DEF Init, AuthInv, SessionsFromLogins, ChallengesUnspent, OneLoginPerChallenge
<1>2. AuthInv /\ [Next]_vars => AuthInv'
  <2>1. CASE Next
    BY <2>1, AuthInvStep
  <2>2. CASE UNCHANGED vars
    BY <2>2 DEF vars, AuthInv, TypeOK, SessionsFromLogins, ChallengesUnspent,
                OneLoginPerChallenge
  <2> QED
    BY <2>1, <2>2
<1> QED
  BY <1>1, <1>2, PTL DEF Spec

----------------------------------------------------------------------------
\* The results.

\* A row that is not revoked leads to the login whose key the account has.
LEMMA AcceptedFollows ==
    ASSUME AuthInv PROVE AcceptedUnderCurrentKey
<1> SUFFICES ASSUME NEW l \in logins, NEW u \in User, AcceptedFor(l.token, u)
             PROVE  l.user = u /\ l.key = account[u]
  BY DEF AcceptedUnderCurrentKey
<1>1. PICK s \in sessions : s.token = l.token /\ s.user = u /\ ~s.revoked
  BY DEF AcceptedFor, Matches
<1>2. PICK m \in logins : m.token = s.token /\ m.user = s.user /\ m.key = account[s.user]
  BY <1>1 DEF AuthInv, SessionsFromLogins
<1>3. m = l
  BY <1>1, <1>2 DEF AuthInv, SessionsFromLogins
<1> QED
  BY <1>1, <1>2, <1>3

\* Whatever rotations, recoveries, logins, logouts and restarts interleave,
\* AuthenticateSessionToken accepts a token only for the user who logged in
\* for it, with the key the account has now.
THEOREM SessionsFollowTheKey == Spec => []AcceptedUnderCurrentKey
BY AcceptedFollows, AuthInvHolds, PTL

\* FinishTransportAuthentication answers one challenge with at most one token,
\* across races of two answers, failures after the mark and restarts.
THEOREM ChallengesAreSingleUse == Spec => []OneLoginPerChallenge
<1>1. AuthInv => OneLoginPerChallenge
  BY DEF AuthInv
<1> QED
  BY <1>1, AuthInvHolds, PTL

\* A step only ages the rows: one found after it was there before it under
\* the same hash, no more revoked than now, unless its token was handed out in
\* this very step.
Aged(t) == \E s \in sessions : /\ s.token = t.token /\ s.secret = t.secret
                               /\ s.user = t.user /\ s.expires = t.expires
                               /\ ~t.revoked => ~s.revoked
RowsAge == \A t \in sessions' : Aged(t) \/ \A l \in logins : l.token # t.token

\* The clock runs forward, and a row keeps its secret while a restart draws
\* one that no row has.
ClockAndSecret ==
    now <= now' /\ (secret' = secret \/ \A s \in sessions : s.secret # secret')

\* A step of that kind revives no token.
LEMMA NoneRevived ==
    ASSUME AuthInv, AuthInv', RowsAge, ClockAndSecret, NEW l \in logins, Accepted(l.token)'
    PROVE  Accepted(l.token)
<1>1. PICK t \in sessions' : /\ t.token = l.token /\ t.secret = secret' /\ t.user \in User
                             /\ ~t.revoked /\ now' <= t.expires
  BY DEF Accepted, AcceptedFor, Matches
<1>2. PICK s \in sessions : /\ s.token = t.token /\ s.secret = t.secret
                            /\ s.user = t.user /\ s.expires = t.expires
                            /\ ~t.revoked => ~s.revoked
  BY <1>1 DEF RowsAge, Aged
<1>3. s.secret = secret
  BY <1>1, <1>2 DEF ClockAndSecret
<1>4. now <= s.expires
  <2>1. now \in Nat /\ now' \in Nat /\ s.expires \in Nat
    BY DEF AuthInv, TypeOK, SessionRow
  <2> QED
    BY <1>1, <1>2, <2>1 DEF ClockAndSecret
<1> QED
  BY <1>1, <1>2, <1>3, <1>4 DEF Accepted, AcceptedFor, Matches

\* Revoking some rows and leaving the others ages them.
LEMMA RevokedRowsAge ==
    ASSUME AuthInv, NEW R,
           sessions' = {[s EXCEPT !.revoked = @ \/ s \in R] : s \in sessions}
    PROVE  RowsAge
<1> SUFFICES ASSUME NEW t \in sessions' PROVE Aged(t)
  BY DEF RowsAge
<1>1. PICK s \in sessions : t = [s EXCEPT !.revoked = @ \/ s \in R]
  OBVIOUS
<1>2. s \in SessionRow
  BY DEF AuthInv, TypeOK
<1> QED
  BY <1>1, <1>2 DEF SessionRow, Aged

\* So does deleting rows, and a login adds one for a token never handed out.
LEMMA KeptRowsAge ==
    ASSUME \A t \in sessions' : t \in sessions \/ \A l \in logins : l.token # t.token
    PROVE  RowsAge
BY DEF RowsAge, Aged

\* Every step of the store ages the rows.
LEMMA StepAges ==
    ASSUME AuthInv, Next PROVE RowsAge
<1>1. CASE sessions' \subseteq sessions
  BY <1>1, KeptRowsAge
<1>2. ASSUME NEW u \in User, NEW k \in Key, NEW signedBy \in Key, NEW tokenOk \in BOOLEAN,
             RegisterRotate(u, k, signedBy, tokenOk)
      PROVE  RowsAge
  <2> DEFINE R == {s \in sessions : s.user = u}
  <2>1. sessions' = {[s EXCEPT !.revoked = @ \/ s \in R] : s \in sessions}
    BY <1>2 DEF RegisterRotate, RevokeAllOf
  <2> HIDE DEF R
  <2> QED
    BY <2>1, RevokedRowsAge
<1>3. ASSUME NEW u \in User, NEW c \in challenges, NEW k \in Key, NEW token \in Token,
             AuthFinish(u, c, k, token)
      PROVE  RowsAge
  BY <1>3, KeptRowsAge DEF AuthFinish, KeptSessions
<1>4. ASSUME NEW token \in Token, RevokeSessionToken(token)
      PROVE  RowsAge
  <2> DEFINE R == {s \in sessions : Matches(s, token)}
  <2>1. sessions' = {[s EXCEPT !.revoked = @ \/ s \in R] : s \in sessions}
    BY <1>4 DEF RevokeSessionToken
  <2> HIDE DEF R
  <2> QED
    BY <2>1, RevokedRowsAge
<1> QED
  BY <1>1, <1>2, <1>3, <1>4
     DEF Next, RegisterNew, AuthBegin, AuthBeginRefused, AuthFinishFails, AuthFinishRefused,
         AuthenticateSessionToken, Restart, Tick, KeptSessions

\* The clock of the store, and its secret over restarts.
LEMMA StepClock ==
    ASSUME AuthInv, Next PROVE ClockAndSecret
<1>1. now \in Nat /\ secret \in Nat
  BY DEF AuthInv, TypeOK
<1>2. CASE Restart
  <2>1. \A s \in sessions : s.secret \in Nat /\ s.secret <= secret
    BY DEF AuthInv, TypeOK, SessionsFromLogins, SessionRow
  <2> QED
    BY <1>1, <1>2, <2>1 DEF Restart, ClockAndSecret
<1>3. CASE Tick
  BY <1>1, <1>3 DEF Tick, ClockAndSecret
<1>4. CASE now' = now /\ secret' = secret
  BY <1>1, <1>4 DEF ClockAndSecret
<1> QED
  BY <1>2, <1>3, <1>4
     DEF Next, RegisterNew, RegisterRotate, AuthBegin, AuthBeginRefused, AuthFinish,
         AuthFinishFails, AuthFinishRefused, AuthenticateSessionToken, RevokeSessionToken

\* A token the server has stopped accepting (logout, rotation, recovery,
\* expiry or restart) is never accepted again.
THEOREM RefusalIsFinal == Spec => RefusedForGood
<1>1. AuthInv /\ AuthInv' /\ [Next]_vars =>
        [\A l \in logins : ~Accepted(l.token) => ~Accepted(l.token)']_vars
  BY NoneRevived, StepAges, StepClock
<1> QED
  BY <1>1, AuthInvHolds, PTL DEF Spec, RefusedForGood
====
