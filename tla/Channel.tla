---- MODULE Channel ----
(***************************************************************************)
(* What two conversing clients promise each other about delivery, with no  *)
(* keys, mailboxes, polls or files: messages to a user are numbered in the *)
(* order the store accepted them, and the user sees each at most once and  *)
(* in that order.  A message may be lost; nothing else can happen to it.   *)
(***************************************************************************)
EXTENDS Naturals, Sequences

CONSTANT User

VARIABLES posted,  \* how many messages the store accepted for the user
          seen     \* the numbers of the messages the user was shown

\* The messages of a block, in increasing order.
Increasing(s) == \A i, j \in DOMAIN s : i < j => s[i] < s[j]

Init == /\ posted = [u \in User |-> 0]
        /\ seen = [u \in User |-> <<>>]

Post(u) == /\ posted' = [posted EXCEPT ![u] = @ + 1]
           /\ UNCHANGED seen

\* The user is shown a block of messages that follow all it has seen.
Show(u) == /\ \E n \in 1 .. Len(seen'[u]) :
                /\ seen' = [seen EXCEPT ![u] = @ \o SubSeq(seen'[u], n, Len(seen'[u]))]
                /\ Increasing(seen'[u])
                /\ \A k \in n .. Len(seen'[u]) : seen'[u][k] \in 1 .. posted[u]
           /\ UNCHANGED posted

Next == \E u \in User : Post(u) \/ Show(u)

Spec == Init /\ [][Next]_<<posted, seen>>
====
