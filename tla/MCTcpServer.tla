---- MODULE MCTcpServer ----
(* An instance of TcpServer: who holds the token, and small limits. *)
EXTENDS TcpServer, TLC

CONSTANTS alice, odd

HeldByAlice == [token \in Token |-> alice]
One == [k \in Preauth |-> 1]
Two == [k \in Preauth |-> 2]
Symmetry == Permutations(Conn) \cup Permutations(Addr)
====
