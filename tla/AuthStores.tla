---- MODULE AuthStores ----
(***************************************************************************)
(* The two backends of IServerApi side by side: a server is made with one  *)
(* of them and keeps it.  Both are to implement AuthService, so that what  *)
(* the tests show with the in-memory store holds of the SQLite store the   *)
(* server runs on.                                                         *)
(***************************************************************************)
EXTENDS InMemoryAuth

VARIABLE backend

storeVars == <<vars, backend>>

StoreInit == Init /\ backend \in {"sqlite", "memory"}

StoreNext ==
    \/ backend = "sqlite" /\ Next /\ UNCHANGED backend
    \/ backend = "memory" /\ MemNext /\ UNCHANGED backend

StoreSpec == StoreInit /\ [][StoreNext]_storeVars

----------------------------------------------------------------------------
LiveTokens == {token \in Token : Accepted(token)}

Service == INSTANCE AuthService WITH live <- LiveTokens

\* Either backend implements AuthService: marking or erasing sessions, hashing
\* tokens or not, cleaning up one bucket or all of them, a rotation in the
\* middle of a login and a restart make no difference a caller could rely on.
ImplementsService == Service!Spec
====
