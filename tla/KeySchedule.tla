---- MODULE KeySchedule ----
(***************************************************************************)
(* The key schedule of src/src/client/client.cpp, symbolically.  HKDF and  *)
(* X25519 are a free term algebra: two derivations give the same key only  *)
(* when they mix the same inputs, and X25519 commutes.                     *)
(*                                                                         *)
(* A root key is the sequence of Diffie-Hellman outputs mixed into it since *)
(* the handshake (<<>> is root_key_0).  A chain key is its seed and the    *)
(* sequence of counters it was advanced with.                              *)
(***************************************************************************)
EXTENDS Naturals, Sequences

\* X25519::SharedSecret of two ratchet key pairs, the same from both ends.
SharedSecret(k, l) == {k, l}

\* A chain key that no message has used yet.
NewChain(label, path) == [label |-> label, path |-> path, used |-> <<>>]

\* DeriveHandshakeKeys: the root key and the initiator's two chains.
HandshakeKeys == [root |-> <<>>, c1 |-> NewChain("c1", <<>>), c2 |-> NewChain("c2", <<>>)]

\* DeriveRatchetRootAndChain: a new root and a new chain from both inputs.
DeriveRatchetRootAndChain(dh, root) ==
    [root |-> Append(root, dh), chain |-> NewChain("ratchet", Append(root, dh))]

\* DeriveMessageKeyAndNextChain: the message key bound to the counter ...
MessageKey(chain, counter) == <<chain, counter>>

\* ... and the chain key that replaces the one it was derived from.
NextChain(chain, counter) == [chain EXCEPT !.used = Append(@, counter)]
====
