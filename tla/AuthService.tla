---- MODULE AuthService ----
(***************************************************************************)
(* What transport authentication promises whoever calls a store, whichever *)
(* backend is behind the interface IServerApi: an account has one key, a   *)
(* login made with it earns one token, and a token lives at most until the *)
(* key changes.  Nothing is promised about how long it lives.              *)
(***************************************************************************)
CONSTANTS User, Key, Token, Challenge, NoAccount

VARIABLES account,  \* the key of each user
          logins,   \* every token handed out, with the login that earned it
          live      \* the tokens that are accepted

Init ==
    /\ account = [u \in User |-> NoAccount]
    /\ logins = {}
    /\ live = {}

\* The user registers another key: none of the tokens so far is live after it.
TokensOf(u) == {l.token : l \in {m \in logins : m.user = u}}
ChangeKey(u, k) ==
    /\ account[u] # k
    /\ account' = [account EXCEPT ![u] = k]
    /\ live' \subseteq live \ TokensOf(u)
    /\ UNCHANGED logins

\* A login, for a challenge that has not earned a token, with the account's key.
Grant(u, challenge, token) ==
    /\ account[u] # NoAccount
    /\ \A l \in logins : l.token # token /\ l.challenge # challenge
    /\ logins' = logins \cup
         {[token |-> token, challenge |-> challenge, user |-> u, key |-> account[u]]}
    /\ live' \subseteq live \cup {token}
    /\ UNCHANGED account

\* Tokens end by logout, by expiry, or because the server restarts.
End ==
    /\ live' \subseteq live
    /\ UNCHANGED <<account, logins>>

Next ==
    \/ \E u \in User, k \in Key : ChangeKey(u, k)
    \/ \E u \in User, challenge \in Challenge, token \in Token : Grant(u, challenge, token)
    \/ End

Spec == Init /\ [][Next]_<<account, logins, live>>
====
