---- MODULE TransportAuth ----
(***************************************************************************)
(* Transport authentication in the store the server runs on,               *)
(* src/src/server/sqlite_store.cpp: accounts, the challenge/response login,*)
(* session tokens, key rotation, logout and a restart of the server.       *)
(*                                                                         *)
(* Every method holds the store's mutex from its first to its last line,   *)
(* so one call is one step.  Random identifiers (challenge ids, tokens) and *)
(* the HMAC secret never repeat, and the system clock does not step back.  *)
(* Requests refused for their format clean up at most, as an authenticated *)
(* command does; the audit log is left out.                                *)
(***************************************************************************)
EXTENDS SlidingWindow, FiniteSets

CONSTANTS User, Key, Challenge, Token,
          NoAccount,      \* a user without a row in accounts
          TokenRequired,  \* required_registration_token_ is not empty
          MaxAttempts,    \* kMaxAuthBeginAttemptsPerWindow, kMaxAuthFinishAttemptsPerWindow
          ChallengeTtl,   \* 60 seconds
          SessionTtl,     \* 900 seconds
          MaxTime,        \* bound on the clock
          MaxRestarts     \* bound on the restarts of the server

ASSUME TransportAuthAssumption ==
    /\ NoAccount \notin Key
    /\ TokenRequired \in BOOLEAN
    /\ MaxAttempts \in Nat \ {0}
    /\ ChallengeTtl \in Nat /\ SessionTtl \in Nat
    /\ MaxTime \in Nat /\ MaxRestarts \in Nat

VARIABLES
    account,     \* accounts: user -> transport_auth_public_key
    challenges,  \* rows of auth_challenges
    sessions,    \* rows of sessions
    secret,      \* token_hmac_secret_, drawn anew by every Open
    begins,      \* auth_begin_attempts_
    finishes,    \* auth_finish_attempts_
    now,         \* NowUnix
    issued,      \* challenge ids handed out so far
    logins       \* every token handed out, with the login that earned it

vars == <<account, challenges, sessions, secret, begins, finishes, now, issued, logins>>

ChallengeRow == [id : Challenge, user : User, expires : Nat, used : BOOLEAN]
SessionRow == [token : Token, secret : Nat, user : User, expires : Nat, revoked : BOOLEAN]
Login == [token : Token, challenge : Challenge, user : User, key : Key]

Init ==
    /\ account = [u \in User |-> NoAccount]
    /\ challenges = {}
    /\ sessions = {}
    /\ secret = 0
    /\ begins = [u \in User |-> <<>>]
    /\ finishes = [u \in User |-> <<>>]
    /\ now = 0
    /\ issued = {}
    /\ logins = {}

----------------------------------------------------------------------------
\* CleanupAuthState, which opens AuthBegin, AuthFinish and every
\* authenticated command: used and expired challenges go, expired sessions go.
KeptChallenges == {c \in challenges : ~c.used /\ c.expires >= now}
KeptSessions == {s \in sessions : s.expires >= now}

\* The rows of sessions after the user's key changed.
RevokeNoneOf(u) == sessions
RevokeOnlyOf(u) == {[s EXCEPT !.revoked = (s.user = u)] : s \in sessions}
RevokeAllOf(u) == {[s EXCEPT !.revoked = @ \/ s.user = u] : s \in sessions}

\* RegisterTransportIdentity with a valid proof of possession of k.
RegisterNew(u, k, tokenOk) ==
    /\ account[u] = NoAccount
    /\ TokenRequired => tokenOk
    /\ account' = [account EXCEPT ![u] = k]
    /\ UNCHANGED <<challenges, sessions, secret, begins, finishes, now, issued, logins>>

\* The same for an account with another key: signedBy is the key of the
\* rotation signature, and the token recovers an account only where tokens
\* are required.  Key and sessions change in one transaction.
RegisterRotate(u, k, signedBy, tokenOk) ==
    /\ account[u] \notin {NoAccount, k}
    /\ signedBy = account[u] \/ (TokenRequired /\ tokenOk)
    /\ account' = [account EXCEPT ![u] = k]
    /\ sessions' = RevokeAllOf(u)
    /\ UNCHANGED <<challenges, secret, begins, finishes, now, issued, logins>>

\* BeginTransportAuthentication.  The attempt is counted before the account
\* is looked up, so a call for an unknown user fills its bucket too.
CountBegin(u) == begins' = [begins EXCEPT ![u] = CheckAndRecord(@, now, MaxAttempts)]

AuthBegin(u, id) ==
    /\ HasRoom(begins[u], now, MaxAttempts)
    /\ account[u] # NoAccount
    /\ id \notin issued
    /\ CountBegin(u)
    /\ challenges' = KeptChallenges \cup
         {[id |-> id, user |-> u, expires |-> now + ChallengeTtl, used |-> FALSE]}
    /\ sessions' = KeptSessions
    /\ issued' = issued \cup {id}
    /\ UNCHANGED <<account, secret, finishes, now, logins>>

AuthBeginRefused(u) ==
    /\ ~HasRoom(begins[u], now, MaxAttempts) \/ account[u] = NoAccount
    /\ CountBegin(u)
    /\ challenges' = KeptChallenges
    /\ sessions' = KeptSessions
    /\ UNCHANGED <<account, secret, finishes, now, issued, logins>>

----------------------------------------------------------------------------
\* FinishTransportAuthentication.

\* The row passes the checks made before it is marked.
Answerable(c, u) == ~c.used /\ now <= c.expires /\ c.user = u

NotMarked(c) == c
Marked(c) == [c EXCEPT !.used = TRUE]

CountFinish(u) == finishes' = [finishes EXCEPT ![u] = CheckAndRecord(@, now, MaxAttempts)]

\* The challenge is marked used and committed; then the signature is checked
\* against the account's key of this moment and the token is handed out.
AuthFinish(u, c, k, token) ==
    /\ HasRoom(finishes[u], now, MaxAttempts)
    /\ c \in KeptChallenges
    /\ Answerable(c, u)
    /\ k = account[u]
    /\ \A l \in logins : l.token # token
    /\ CountFinish(u)
    /\ challenges' = (KeptChallenges \ {c}) \cup {Marked(c)}
    /\ sessions' = KeptSessions \cup
         {[token |-> token, secret |-> secret, user |-> u, expires |-> now + SessionTtl,
           revoked |-> FALSE]}
    /\ logins' = logins \cup {[token |-> token, challenge |-> c.id, user |-> u, key |-> k]}
    /\ UNCHANGED <<account, secret, begins, now, issued>>

\* The same with a signature the account's key does not verify, or with the
\* server stopping after the commit: the challenge is spent.
AuthFinishFails(u, c) ==
    /\ HasRoom(finishes[u], now, MaxAttempts)
    /\ c \in KeptChallenges
    /\ Answerable(c, u)
    /\ CountFinish(u)
    /\ challenges' = (KeptChallenges \ {c}) \cup {Marked(c)}
    /\ sessions' = KeptSessions
    /\ UNCHANGED <<account, secret, begins, now, issued, logins>>

\* Over the limit, or an unknown, spent, expired or foreign challenge.
AuthFinishRefused(u) ==
    /\ CountFinish(u)
    /\ challenges' = KeptChallenges
    /\ sessions' = KeptSessions
    /\ UNCHANGED <<account, secret, begins, now, issued, logins>>

----------------------------------------------------------------------------
\* The row a token leads to: it is stored under HMAC(secret, token).
Matches(s, token) == s.token = token /\ s.secret = secret

\* AuthenticateSessionToken would answer with user u.
AcceptedFor(token, u) ==
    \E s \in sessions : Matches(s, token) /\ s.user = u /\ ~s.revoked /\ now <= s.expires
Accepted(token) == \E u \in User : AcceptedFor(token, u)

\* AuthenticateSessionToken itself only cleans up.
AuthenticateSessionToken ==
    /\ challenges' = KeptChallenges
    /\ sessions' = KeptSessions
    /\ UNCHANGED <<account, secret, begins, finishes, now, issued, logins>>

RevokeSessionToken(token) ==
    /\ \E s \in sessions : Matches(s, token)
    /\ sessions' = {[s EXCEPT !.revoked = @ \/ Matches(s, token)] : s \in sessions}
    /\ UNCHANGED <<account, challenges, secret, begins, finishes, now, issued, logins>>

\* The server stops and opens the database again: a new secret, empty
\* buckets, and every row where it was.
Restart ==
    /\ secret < MaxRestarts
    /\ secret' = secret + 1
    /\ begins' = [u \in User |-> <<>>]
    /\ finishes' = [u \in User |-> <<>>]
    /\ UNCHANGED <<account, challenges, sessions, now, issued, logins>>

Tick ==
    /\ now < MaxTime
    /\ now' = now + 1
    /\ UNCHANGED <<account, challenges, sessions, secret, begins, finishes, issued, logins>>

----------------------------------------------------------------------------
Next ==
    \/ \E u \in User, k \in Key, tokenOk \in BOOLEAN :
         \/ RegisterNew(u, k, tokenOk)
         \/ \E signedBy \in Key : RegisterRotate(u, k, signedBy, tokenOk)
    \/ \E u \in User, id \in Challenge : AuthBegin(u, id)
    \/ \E u \in User, c \in challenges :
         \/ \E k \in Key, token \in Token : AuthFinish(u, c, k, token)
         \/ AuthFinishFails(u, c)
    \/ \E u \in User : AuthBeginRefused(u) \/ AuthFinishRefused(u)
    \/ AuthenticateSessionToken
    \/ \E token \in Token : RevokeSessionToken(token)
    \/ Restart
    \/ Tick

Spec == Init /\ [][Next]_vars

----------------------------------------------------------------------------
\* The type invariant: tables, buckets and clock hold values of their kind, and
\* no bucket of the rate limiter holds more than the attempts of one window.
TypeOK ==
    /\ account \in [User -> Key \cup {NoAccount}]
    /\ challenges \subseteq ChallengeRow
    /\ sessions \subseteq SessionRow
    /\ secret \in Nat
    /\ begins \in [User -> Bucket(MaxAttempts)]
    /\ finishes \in [User -> Bucket(MaxAttempts)]
    /\ now \in Nat
    /\ issued \subseteq Challenge
    /\ logins \subseteq Login

\* A token the server accepts for a user was earned by a login that the
\* account's present key signed: a rotation or recovery ends every session of
\* the old key, also one whose login had begun before it.
AcceptedUnderCurrentKey ==
    \A l \in logins, u \in User :
        AcceptedFor(l.token, u) => l.user = u /\ l.key = account[u]

\* A challenge earns at most one token, over restarts, races of two answers
\* and the cleanup of spent rows.
OneLoginPerChallenge == \A l, m \in logins : l.challenge = m.challenge => l = m

\* A token once handed out and no longer accepted (logout, rotation, expiry
\* or restart) is never accepted again.
RefusedForGood ==
    [][\A l \in logins : ~Accepted(l.token) => ~Accepted(l.token)']_vars

----------------------------------------------------------------------------
\* What makes the three properties inductive.

\* A token names one login and one row, and a row comes from a login of the
\* same user; while it is not revoked the login's key is the account's.
SessionsFromLogins ==
    /\ \A l, m \in logins : l.token = m.token => l = m
    /\ \A s, t \in sessions : s.token = t.token => s = t
    /\ \A s \in sessions :
         \E l \in logins : /\ l.token = s.token /\ l.user = s.user
                           /\ ~s.revoked => l.key = account[s.user]
    /\ \A s \in sessions : s.secret <= secret

\* A challenge id names one row, and a row not marked used earned no token.
ChallengesUnspent ==
    /\ \A l \in logins : l.challenge \in issued
    /\ \A c \in challenges : c.id \in issued
    /\ \A c, d \in challenges : c.id = d.id => c = d
    /\ \A c \in challenges, l \in logins : l.challenge = c.id => c.used

AuthInv == TypeOK /\ SessionsFromLogins /\ ChallengesUnspent /\ OneLoginPerChallenge
====
