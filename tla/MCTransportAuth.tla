---- MODULE MCTransportAuth ----
(* An instance of AuthStores; challenge ids and tokens are random and interchangeable. *)
EXTENDS AuthStores, TLC

Interchangeable == Permutations(Challenge) \cup Permutations(Token) \cup Permutations(Key)
====
