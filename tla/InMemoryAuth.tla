---- MODULE InMemoryAuth ----
(***************************************************************************)
(* Transport authentication in src/src/server/in_memory_server.cpp, the    *)
(* backend of the tests and of the demo, over the tables of TransportAuth. *)
(* A session is kept under the token itself and erased where the SQLite    *)
(* store marks it revoked: its rows have revoked = FALSE and the secret of *)
(* the start.  Every cleanup trims the buckets of all users.  Nothing is   *)
(* persisted: a behaviour is the lifetime of one server object.            *)
(***************************************************************************)
EXTENDS TransportAuth

\* The sessions left after the user's key changed.
EraseNoneOf(u) == sessions
EraseAllOf(u) == {s \in sessions : s.user # u}

\* RegisterTransportIdentity, as in TransportAuth up to the last lines.
MemRegisterRotate(u, k, signedBy, tokenOk) ==
    /\ account[u] \notin {NoAccount, k}
    /\ signedBy = account[u] \/ (TokenRequired /\ tokenOk)
    /\ account' = [account EXCEPT ![u] = k]
    /\ sessions' = EraseAllOf(u)
    /\ UNCHANGED <<challenges, secret, begins, finishes, now, issued, logins>>

----------------------------------------------------------------------------
\* The buckets of auth_begin_attempts_ or auth_finish_attempts_ after
\* CleanupAuthState, without and with an attempt of u.
Trimmed(buckets) == [u \in User |-> TrimWindow(buckets[u], now)]
TrimmedAndCounted(buckets, u) ==
    [Trimmed(buckets) EXCEPT ![u] = CheckAndRecord(@, now, MaxAttempts)]

\* BeginTransportAuthentication.
MemBegins(u) == begins' = TrimmedAndCounted(begins, u) /\ finishes' = Trimmed(finishes)

MemAuthBegin(u, id) ==
    /\ HasRoom(begins[u], now, MaxAttempts)
    /\ account[u] # NoAccount
    /\ id \notin issued
    /\ MemBegins(u)
    /\ challenges' = KeptChallenges \cup
         {[id |-> id, user |-> u, expires |-> now + ChallengeTtl, used |-> FALSE]}
    /\ sessions' = KeptSessions
    /\ issued' = issued \cup {id}
    /\ UNCHANGED <<account, secret, now, logins>>

MemAuthBeginRefused(u) ==
    /\ ~HasRoom(begins[u], now, MaxAttempts) \/ account[u] = NoAccount
    /\ MemBegins(u)
    /\ challenges' = KeptChallenges
    /\ sessions' = KeptSessions
    /\ UNCHANGED <<account, secret, now, issued, logins>>

\* FinishTransportAuthentication: `used` is set before the signature is checked.
MemFinishes(u) == finishes' = TrimmedAndCounted(finishes, u) /\ begins' = Trimmed(begins)

MemAuthFinish(u, c, k, token) ==
    /\ HasRoom(finishes[u], now, MaxAttempts)
    /\ c \in KeptChallenges
    /\ Answerable(c, u)
    /\ k = account[u]
    /\ \A l \in logins : l.token # token
    /\ MemFinishes(u)
    /\ challenges' = (KeptChallenges \ {c}) \cup {Marked(c)}
    /\ sessions' = KeptSessions \cup
         {[token |-> token, secret |-> secret, user |-> u, expires |-> now + SessionTtl,
           revoked |-> FALSE]}
    /\ logins' = logins \cup {[token |-> token, challenge |-> c.id, user |-> u, key |-> k]}
    /\ UNCHANGED <<account, secret, now, issued>>

MemAuthFinishFails(u, c) ==
    /\ HasRoom(finishes[u], now, MaxAttempts)
    /\ c \in KeptChallenges
    /\ Answerable(c, u)
    /\ MemFinishes(u)
    /\ challenges' = (KeptChallenges \ {c}) \cup {Marked(c)}
    /\ sessions' = KeptSessions
    /\ UNCHANGED <<account, secret, now, issued, logins>>

MemAuthFinishRefused(u) ==
    /\ MemFinishes(u)
    /\ challenges' = KeptChallenges
    /\ sessions' = KeptSessions
    /\ UNCHANGED <<account, secret, now, issued, logins>>

----------------------------------------------------------------------------
MemAuthenticateSessionToken ==
    /\ challenges' = KeptChallenges
    /\ sessions' = KeptSessions
    /\ begins' = Trimmed(begins) /\ finishes' = Trimmed(finishes)
    /\ UNCHANGED <<account, secret, now, issued, logins>>

MemRevokeSessionToken(token) ==
    /\ \E s \in sessions : Matches(s, token)
    /\ sessions' = {s \in sessions : ~Matches(s, token)}
    /\ UNCHANGED <<account, challenges, secret, begins, finishes, now, issued, logins>>

MemNext ==
    \/ \E u \in User, k \in Key, tokenOk \in BOOLEAN :
         \/ RegisterNew(u, k, tokenOk)
         \/ \E signedBy \in Key : MemRegisterRotate(u, k, signedBy, tokenOk)
    \/ \E u \in User, id \in Challenge : MemAuthBegin(u, id)
    \/ \E u \in User, c \in challenges :
         \/ \E k \in Key, token \in Token : MemAuthFinish(u, c, k, token)
         \/ MemAuthFinishFails(u, c)
    \/ \E u \in User : MemAuthBeginRefused(u) \/ MemAuthFinishRefused(u)
    \/ MemAuthenticateSessionToken
    \/ \E token \in Token : MemRevokeSessionToken(token)
    \/ Tick

MemSpec == Init /\ [][MemNext]_vars
====
