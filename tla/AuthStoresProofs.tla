---- MODULE AuthStoresProofs ----
(***************************************************************************)
(* Proofs about AuthStores: what TransportAuthProofs shows of the SQLite   *)
(* store holds of the in-memory store too, and both implement AuthService, *)
(* for every value of the constants.                                       *)
(***************************************************************************)
EXTENDS AuthStores, TransportAuthProofs

----------------------------------------------------------------------------
\* The in-memory store keeps the invariant of the SQLite store.

\* A cleanup of all buckets, with or without an attempt counted, leaves them
\* within their limit.
LEMMA TrimmedTypes ==
    ASSUME TypeOK, NEW buckets \in [User -> Bucket(MaxAttempts)]
    PROVE  /\ Trimmed(buckets) \in [User -> Bucket(MaxAttempts)]
           /\ \A u \in User : TrimmedAndCounted(buckets, u) \in [User -> Bucket(MaxAttempts)]
<1>1. now \in Nat /\ MaxAttempts \in Nat
  BY TransportAuthAssumption DEF TypeOK
<1>2. \A b \in Bucket(MaxAttempts) : TrimWindow(b, now) \in Bucket(MaxAttempts)
  BY <1>1, TrimWindowBucket
<1>3. Trimmed(buckets) \in [User -> Bucket(MaxAttempts)]
  BY <1>2 DEF Trimmed
<1>4. ASSUME NEW u \in User PROVE TrimmedAndCounted(buckets, u) \in [User -> Bucket(MaxAttempts)]
  <2>1. CheckAndRecord(Trimmed(buckets)[u], now, MaxAttempts) \in Bucket(MaxAttempts)
    BY <1>1, <1>3, CheckAndRecordType
  <2> QED
    BY <1>3, <2>1 DEF TrimmedAndCounted
<1> QED
  BY <1>3, <1>4

\* Every step of the in-memory store keeps the types.
LEMMA MemTypeStep ==
    ASSUME TypeOK, MemNext PROVE TypeOK'
<1> USE TransportAuthAssumption
<1>1. begins \in [User -> Bucket(MaxAttempts)] /\ finishes \in [User -> Bucket(MaxAttempts)]
  BY DEF TypeOK
<1>2. ASSUME NEW u \in User, MemBegins(u) \/ MemFinishes(u)
      PROVE  begins' \in [User -> Bucket(MaxAttempts)] /\ finishes' \in [User -> Bucket(MaxAttempts)]
  BY <1>1, <1>2, TrimmedTypes DEF MemBegins, MemFinishes
<1>3. ASSUME NEW u \in User, NEW k \in Key, NEW tokenOk \in BOOLEAN, RegisterNew(u, k, tokenOk)
      PROVE  TypeOK'
  BY <1>3 DEF RegisterNew, TypeOK
<1>4. ASSUME NEW u \in User, NEW k \in Key, NEW signedBy \in Key, NEW tokenOk \in BOOLEAN,
             MemRegisterRotate(u, k, signedBy, tokenOk)
      PROVE  TypeOK'
  BY <1>4 DEF MemRegisterRotate, EraseAllOf, TypeOK
<1>5. ASSUME NEW u \in User, NEW id \in Challenge, MemAuthBegin(u, id)
      PROVE  TypeOK'
  <2>1. [id |-> id, user |-> u, expires |-> now + ChallengeTtl, used |-> FALSE] \in ChallengeRow
    BY DEF TypeOK, ChallengeRow
  <2>2. challenges' \subseteq ChallengeRow /\ sessions' \subseteq SessionRow
    BY <1>5, <2>1, KeptTypes DEF MemAuthBegin
  <2> QED
    BY <1>2, <1>5, <2>2 DEF MemAuthBegin, TypeOK
<1>6. ASSUME NEW u \in User, NEW c \in challenges, NEW k \in Key, NEW token \in Token,
             MemAuthFinish(u, c, k, token)
      PROVE  TypeOK'
  <2>1. [token |-> token, secret |-> secret, user |-> u, expires |-> now + SessionTtl,
         revoked |-> FALSE] \in SessionRow
    BY DEF TypeOK, SessionRow
  <2>2. c \in ChallengeRow
    BY DEF TypeOK
  <2>3. [token |-> token, challenge |-> c.id, user |-> u, key |-> k] \in Login
    BY <2>2 DEF Login, ChallengeRow
  <2>4. challenges' \subseteq ChallengeRow /\ sessions' \subseteq SessionRow
    BY <1>6, <2>1, <2>2, KeptTypes DEF MemAuthFinish
  <2> QED
    BY <1>2, <1>6, <2>3, <2>4 DEF MemAuthFinish, TypeOK
<1>7. ASSUME NEW u \in User, NEW c \in challenges, MemAuthFinishFails(u, c)
      PROVE  TypeOK'
  <2>1. c \in ChallengeRow
    BY DEF TypeOK
  <2>2. challenges' \subseteq ChallengeRow /\ sessions' \subseteq SessionRow
    BY <1>7, <2>1, KeptTypes DEF MemAuthFinishFails
  <2> QED
    BY <1>2, <1>7, <2>2 DEF MemAuthFinishFails, TypeOK
<1>8. ASSUME NEW u \in User, MemAuthBeginRefused(u) \/ MemAuthFinishRefused(u)
      PROVE  TypeOK'
  BY <1>2, <1>8, KeptTypes DEF MemAuthBeginRefused, MemAuthFinishRefused, TypeOK
<1>9. ASSUME MemAuthenticateSessionToken PROVE TypeOK'
  BY <1>1, <1>9, KeptTypes, TrimmedTypes DEF MemAuthenticateSessionToken, TypeOK
<1>10. ASSUME NEW token \in Token, MemRevokeSessionToken(token) PROVE TypeOK'
  BY <1>10 DEF MemRevokeSessionToken, TypeOK
<1>11. ASSUME Tick PROVE TypeOK'
  BY <1>11 DEF Tick, TypeOK
<1> QED
  BY <1>3, <1>4, <1>5, <1>6, <1>7, <1>8, <1>9, <1>10, <1>11 DEF MemNext

\* Every step of the in-memory store keeps the invariant: erasing the
\* sessions of a user does what revoking them does.
LEMMA MemInvStep ==
    ASSUME AuthInv, MemNext PROVE AuthInv'
<1> USE DEF AuthInv
<1>1. ASSUME NEW u \in User, NEW k \in Key, NEW tokenOk \in BOOLEAN, RegisterNew(u, k, tokenOk)
      PROVE  Rows'
  BY <1>1, FirstKey DEF RegisterNew
<1>2. ASSUME NEW u \in User, NEW k \in Key, NEW signedBy \in Key, NEW tokenOk \in BOOLEAN,
             MemRegisterRotate(u, k, signedBy, tokenOk)
      PROVE  Rows'
  <2>1. /\ sessions' \subseteq sessions /\ \A s \in sessions' : s.user # u
        /\ logins' = logins /\ secret' = secret
    BY <1>2 DEF MemRegisterRotate, EraseAllOf
  <2>2. \A s \in sessions' : account'[s.user] = account[s.user]
    BY <1>2, <2>1 DEF MemRegisterRotate, TypeOK, SessionRow
  <2>3. SessionsFromLogins'
    BY <2>1, <2>2 DEF SessionsFromLogins
  <2>4. ChallengesUnspent'
    BY <1>2, ChallengesDeleted DEF MemRegisterRotate
  <2> QED
    BY <1>2, <2>3, <2>4 DEF Rows, MemRegisterRotate, OneLoginPerChallenge
<1>3. ASSUME NEW u \in User, NEW id \in Challenge, MemAuthBegin(u, id)
      PROVE  Rows'
  BY <1>3, ChallengeAdded DEF MemAuthBegin
<1>4. ASSUME NEW u \in User, NEW c \in challenges, NEW k \in Key, NEW token \in Token,
             MemAuthFinish(u, c, k, token)
      PROVE  Rows'
  BY <1>4, LoginAdded DEF MemAuthFinish
<1>5. ASSUME NEW u \in User, NEW c \in challenges, MemAuthFinishFails(u, c)
      PROVE  Rows'
  BY <1>5, ChallengeSpent DEF MemAuthFinishFails
<1>6. ASSUME NEW u \in User, MemAuthBeginRefused(u) \/ MemAuthFinishRefused(u)
      PROVE  Rows'
  BY <1>6, CleanupStep DEF MemAuthBeginRefused, MemAuthFinishRefused
<1>7. ASSUME MemAuthenticateSessionToken PROVE Rows'
  BY <1>7, CleanupStep DEF MemAuthenticateSessionToken
<1>8. ASSUME NEW token \in Token, MemRevokeSessionToken(token)
      PROVE  Rows'
  <2>1. sessions' \subseteq sessions /\ secret' \in Nat /\ secret <= secret'
    BY <1>8 DEF MemRevokeSessionToken, TypeOK
  <2> QED
    BY <1>8, <2>1, SessionsDeleted, ChallengesDeleted
       DEF Rows, MemRevokeSessionToken, OneLoginPerChallenge
<1>9. ASSUME Tick PROVE Rows'
  BY <1>9 DEF Tick, Rows, SessionsFromLogins, ChallengesUnspent, OneLoginPerChallenge
<1>10. Rows'
  BY <1>1, <1>2, <1>3, <1>4, <1>5, <1>6, <1>7, <1>8, <1>9 DEF MemNext
<1> QED
  BY <1>10, MemTypeStep DEF Rows

\* Its rows only age, too, and its secret is the one of the start.
LEMMA MemStepAges ==
    ASSUME AuthInv, MemNext PROVE RowsAge /\ ClockAndSecret
<1>1. now \in Nat
  BY DEF AuthInv, TypeOK
<1>2. ASSUME NEW u \in User, NEW c \in challenges, NEW k \in Key, NEW token \in Token,
             MemAuthFinish(u, c, k, token)
      PROVE  RowsAge
  BY <1>2, KeptRowsAge DEF MemAuthFinish, KeptSessions
<1>3. RowsAge
  <2>1. CASE sessions' \subseteq sessions
    BY <2>1, KeptRowsAge
  <2> QED
    BY <1>2, <2>1
       DEF MemNext, RegisterNew, MemRegisterRotate, EraseAllOf, MemAuthBegin, MemAuthBeginRefused,
           MemAuthFinishFails, MemAuthFinishRefused, MemAuthenticateSessionToken,
           MemRevokeSessionToken, Tick, KeptSessions
<1>4. ClockAndSecret
  <2>1. CASE now' = now /\ secret' = secret
    BY <1>1, <2>1 DEF ClockAndSecret
  <2>2. CASE Tick
    BY <1>1, <2>2 DEF Tick, ClockAndSecret
  <2> QED
    BY <2>1, <2>2
       DEF MemNext, RegisterNew, MemRegisterRotate, MemAuthBegin, MemAuthBeginRefused,
           MemAuthFinish, MemAuthFinishFails, MemAuthFinishRefused, MemAuthenticateSessionToken,
           MemRevokeSessionToken
<1> QED
  BY <1>3, <1>4

----------------------------------------------------------------------------
\* What holds of both.

\* Every step of either store keeps the invariant, ages the rows and moves the
\* clock forward.
LEMMA StoreStep ==
    ASSUME AuthInv, StoreNext PROVE AuthInv' /\ RowsAge /\ ClockAndSecret
BY AuthInvStep, StepAges, StepClock, MemInvStep, MemStepAges DEF StoreNext

\* The invariant holds in every state of either store.
THEOREM StoreInvHolds == StoreSpec => []AuthInv
<1>1. StoreInit => AuthInv
  BY TypeInit DEF StoreInit, Init, AuthInv, SessionsFromLogins, ChallengesUnspent,
                  OneLoginPerChallenge
<1>2. AuthInv /\ [StoreNext]_storeVars => AuthInv'
  <2>1. CASE StoreNext
    BY <2>1, StoreStep
  <2>2. CASE UNCHANGED storeVars
    BY <2>2 DEF storeVars, vars, AuthInv, TypeOK, SessionsFromLogins, ChallengesUnspent,
                OneLoginPerChallenge
  <2> QED
    BY <2>1, <2>2
<1> QED
  BY <1>1, <1>2, PTL DEF StoreSpec

\* Either store keeps its tables, buckets and clock in their types, and no
\* bucket of its rate limiters beyond the limit.
THEOREM StoreTypeCorrect == StoreSpec => []TypeOK
<1>1. AuthInv => TypeOK
  BY DEF AuthInv
<1> QED
  BY <1>1, StoreInvHolds, PTL

\* Either store accepts a token only for the user who logged in for it, with
\* the key the account has now: erasing sessions by hand, as the in-memory
\* store does, forgets none of them.
THEOREM StoreSessionsFollowTheKey == StoreSpec => []AcceptedUnderCurrentKey
BY AcceptedFollows, StoreInvHolds, PTL

\* Either store answers a challenge with at most one token.
THEOREM StoreChallengesAreSingleUse == StoreSpec => []OneLoginPerChallenge
<1>1. AuthInv => OneLoginPerChallenge
  BY DEF AuthInv
<1> QED
  BY <1>1, StoreInvHolds, PTL

\* Either store never accepts a token again that it has refused.
THEOREM StoreRefusalIsFinal == StoreSpec => RefusedForGood
<1>1. AuthInv /\ AuthInv' /\ [StoreNext]_storeVars =>
        [\A l \in logins : ~Accepted(l.token) => ~Accepted(l.token)']_vars
  BY NoneRevived, StoreStep DEF storeVars
<1> QED
  BY <1>1, StoreInvHolds, PTL DEF StoreSpec, RefusedForGood

----------------------------------------------------------------------------
\* The refinement.

\* A live token is one that a login earned, and a step makes no other token
\* live than the one it hands out.
LEMMA LiveShrinks ==
    ASSUME AuthInv, AuthInv', RowsAge, ClockAndSecret, NEW token \in LiveTokens',
           \A l \in logins' : l.token = token => l \in logins
    PROVE  token \in LiveTokens
<1>1. token \in Token /\ Accepted(token)'
  BY DEF LiveTokens
<1>2. PICK s \in sessions' : s.token = token
  BY <1>1 DEF Accepted, AcceptedFor, Matches
<1>3. PICK l \in logins' : l.token = token
  BY <1>2 DEF AuthInv, SessionsFromLogins
<1>4. Accepted(l.token)
  BY <1>1, <1>3, NoneRevived
<1> QED
  BY <1>1, <1>3, <1>4 DEF LiveTokens

\* A step that hands out nothing and leaves the accounts is End or a stutter.
LEMMA StepEnds ==
    ASSUME AuthInv, AuthInv', RowsAge, ClockAndSecret, UNCHANGED <<account, logins>>
    PROVE  Service!Next
<1>1. LiveTokens' \subseteq LiveTokens
  BY LiveShrinks
<1> QED
  BY <1>1 DEF Service!Next, Service!End

\* A change of the key is ChangeKey: a token that stayed live would belong to
\* a login with the old key and with the new one.
LEMMA StepChangesKey ==
    ASSUME AuthInv, AuthInv', RowsAge, ClockAndSecret, NEW u \in User, NEW k \in Key,
           account[u] # k, account' = [account EXCEPT ![u] = k], UNCHANGED logins
    PROVE  Service!Next
<1>1. LiveTokens' \subseteq LiveTokens
  BY LiveShrinks
<1>2. ASSUME NEW token \in LiveTokens', token \in Service!TokensOf(u) PROVE FALSE
  <2>1. PICK l \in logins : l.user = u /\ l.token = token
    BY <1>2 DEF Service!TokensOf
  <2>2. PICK v \in User : AcceptedFor(token, v)
    BY <1>1, <1>2 DEF LiveTokens, Accepted
  <2>3. PICK w \in User : AcceptedFor(token, w)'
    BY <1>2 DEF LiveTokens, Accepted
  <2>4. AcceptedUnderCurrentKey /\ AcceptedUnderCurrentKey'
    BY AcceptedFollows, PTL
  <2>5. l.key = account[u]
    BY <2>1, <2>2, <2>4 DEF AcceptedUnderCurrentKey
  <2>6. l.key = account'[u]
    BY <2>1, <2>3, <2>4 DEF AcceptedUnderCurrentKey
  <2> QED
    BY <2>5, <2>6 DEF AuthInv, TypeOK
<1> QED
  BY <1>1, <1>2 DEF Service!Next, Service!ChangeKey

\* A login is Grant.
LEMMA StepGrants ==
    ASSUME AuthInv, AuthInv', RowsAge, ClockAndSecret, NEW u \in User, NEW c \in challenges,
           NEW k \in Key, NEW token \in Token,
           ~c.used, k = account[u], \A l \in logins : l.token # token,
           logins' = logins \cup {[token |-> token, challenge |-> c.id, user |-> u, key |-> k]},
           UNCHANGED account
    PROVE  Service!Next
<1> DEFINE login == [token |-> token, challenge |-> c.id, user |-> u, key |-> account[u]]
<1>1. login.token = token /\ logins' = logins \cup {login}
  OBVIOUS
<1> HIDE DEF login
<1>2. LiveTokens' \subseteq LiveTokens \cup {token}
  BY <1>1, LiveShrinks
<1>3. \A l \in logins : l.challenge # c.id
  BY DEF AuthInv, ChallengesUnspent
<1>4. c.id \in Challenge
  BY DEF AuthInv, TypeOK, ChallengeRow
<1>5. account[u] # NoAccount
  BY TransportAuthAssumption
<1>6. Service!Grant(u, c.id, token)
  BY <1>1, <1>2, <1>3, <1>5 DEF Service!Grant, login
<1> QED
  BY <1>4, <1>6 DEF Service!Next

\* Either store implements AuthService: an account has one key, a login with
\* it earns one token, and the token lives at most until the key changes.
THEOREM StoresImplementService == StoreSpec => ImplementsService
<1>1. StoreInit => Service!Init
  BY DEF StoreInit, Init, Service!Init, LiveTokens, Accepted, AcceptedFor
<1>2. ASSUME AuthInv, AuthInv', StoreNext PROVE Service!Next
  <2>1. RowsAge /\ ClockAndSecret
    BY <1>2, StoreStep
  <2>2. ASSUME NEW u \in User, NEW k \in Key, NEW tokenOk \in BOOLEAN, RegisterNew(u, k, tokenOk)
        PROVE  Service!Next
    BY <1>2, <2>1, <2>2, StepChangesKey, TransportAuthAssumption DEF RegisterNew
  <2>3. ASSUME NEW u \in User, NEW k \in Key, NEW signedBy \in Key, NEW tokenOk \in BOOLEAN,
               \/ RegisterRotate(u, k, signedBy, tokenOk)
               \/ MemRegisterRotate(u, k, signedBy, tokenOk)
        PROVE  Service!Next
    BY <1>2, <2>1, <2>3, StepChangesKey DEF RegisterRotate, MemRegisterRotate
  <2>4. ASSUME NEW u \in User, NEW c \in challenges, NEW k \in Key, NEW token \in Token,
               AuthFinish(u, c, k, token) \/ MemAuthFinish(u, c, k, token)
        PROVE  Service!Next
    BY <1>2, <2>1, <2>4, StepGrants DEF AuthFinish, MemAuthFinish, Answerable
  <2>5. CASE UNCHANGED <<account, logins>>
    BY <1>2, <2>1, <2>5, StepEnds
  <2>6. CASE Next
    BY <2>2, <2>3, <2>4, <2>5, <2>6
       DEF Next, AuthBegin, AuthBeginRefused, AuthFinishFails, AuthFinishRefused,
           AuthenticateSessionToken, RevokeSessionToken, Restart, Tick
  <2>7. CASE MemNext
    BY <2>2, <2>3, <2>4, <2>5, <2>7
       DEF MemNext, MemAuthBegin, MemAuthBeginRefused, MemAuthFinishFails, MemAuthFinishRefused,
           MemAuthenticateSessionToken, MemRevokeSessionToken, Tick
  <2> QED
    BY <1>2, <2>6, <2>7 DEF StoreNext
<1>3. UNCHANGED storeVars => UNCHANGED <<account, logins, LiveTokens>>
  BY DEF storeVars, vars, LiveTokens, Accepted, AcceptedFor, Matches
<1> QED
  BY <1>1, <1>2, <1>3, StoreInvHolds, PTL DEF StoreSpec, ImplementsService, Service!Spec
====
