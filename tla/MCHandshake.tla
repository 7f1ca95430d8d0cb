---- MODULE MCHandshake ----
(* Instances of Handshake: who knows whom, and who begins how many sessions. *)
EXTENDS Handshake, TLC

CONSTANTS alice, bob, carol

Everyone == {c \in Party \X Party : c[1] # c[2]}
Stranger == {<<alice, bob>>, <<bob, alice>>, <<carol, bob>>}
ToBob == {<<alice, bob>>, <<carol, bob>>}
Mutual == {<<alice, bob>>, <<bob, alice>>}
AliceTwice == [p \in Party |-> IF p = alice THEN 2 ELSE 1]
Once == [p \in Party |-> 1]
====
