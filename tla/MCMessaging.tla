---- MODULE MCMessaging ----
(* Instances of Messaging: who sends how much in which run. *)
EXTENDS Messaging

BothSend == [p \in Party |-> 3]
AliceMore == [p \in Party |-> IF p = Alice THEN 3 ELSE 2]
Few == [p \in Party |-> 2]
====
