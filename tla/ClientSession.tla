---- MODULE ClientSession ----
(***************************************************************************)
(* What Client (src/src/client/client.cpp) does to one SessionState, as    *)
(* operators on the session record: SendMessage up to the call of the      *)
(* server, and HandleChatMessage.                                          *)
(*                                                                         *)
(* A ratchet key pair is <<owner, n>>, the n-th one its owner generated.   *)
(* A chat envelope carries the ratchet public key of the header (or NoKey),*)
(* the message number, and its ciphertext as the message key it was sealed *)
(* with and the plaintext inside.                                          *)
(***************************************************************************)
EXTENDS KeySchedule

CONSTANTS Interval,  \* kRatchetInterval
          NoKey      \* a header without sender_ratchet_public_key

ASSUME IntervalAssumption == Interval \in Nat \ {0}

----------------------------------------------------------------------------
\* The two ends of a session right after the handshake: the initial message
\* took number 0 of the initiator's chain.
InitiatorSession(self, peer) ==
    [root      |-> HandshakeKeys.root,
     sendChain |-> NextChain(HandshakeKeys.c1, 0),
     recvChain |-> HandshakeKeys.c2,
     sendCounter |-> 1, recvCounter |-> 0,
     local |-> <<self, 0>>, remote |-> <<peer, 0>>]

ResponderSession(self, peer) ==
    [root      |-> HandshakeKeys.root,
     sendChain |-> HandshakeKeys.c2,
     recvChain |-> NextChain(HandshakeKeys.c1, 0),
     sendCounter |-> 0, recvCounter |-> 1,
     local |-> <<self, 0>>, remote |-> <<peer, 0>>]

----------------------------------------------------------------------------
\* Sending.

RatchetDue(s) == s.sendCounter > 0 /\ s.sendCounter % Interval = 0

\* The periodic DH step of SendMessage with the freshly generated key.
RatchetSendOldRoot(s, fresh) ==
    LET mixed == DeriveRatchetRootAndChain(SharedSecret(fresh, s.remote), s.root)
    IN  [s EXCEPT !.local = fresh, !.sendChain = mixed.chain, !.sendCounter = 0]
RatchetSend(s, fresh) ==
    LET mixed == DeriveRatchetRootAndChain(SharedSecret(fresh, s.remote), s.root)
    IN  [s EXCEPT !.local = fresh, !.sendChain = mixed.chain, !.root = mixed.root,
                  !.sendCounter = 0]

\* The session a message is encrypted in.
SendingSession(s, fresh) == IF RatchetDue(s) THEN RatchetSend(s, fresh) ELSE s

ChatEnvelope(s, fresh, body) ==
    LET r == SendingSession(s, fresh)
    IN  [ratchet |-> IF RatchetDue(s) THEN fresh ELSE NoKey,
         number  |-> r.sendCounter,
         key     |-> MessageKey(r.sendChain, r.sendCounter),
         body    |-> body]

\* EncryptChainStep and send_counter++.
AfterSend(s, fresh) ==
    LET r == SendingSession(s, fresh)
    IN  [r EXCEPT !.sendChain = NextChain(@, r.sendCounter), !.sendCounter = @ + 1]

----------------------------------------------------------------------------
\* Receiving.

\* A ratchet key in the header that is not the current one is mixed in
\* before the message is authenticated, and stays mixed in when that fails.
RatchetReceiveKeepCounter(s, env) ==
    IF env.ratchet \in {NoKey, s.remote}
    THEN s
    ELSE LET mixed == DeriveRatchetRootAndChain(SharedSecret(s.local, env.ratchet), s.root)
         IN  [s EXCEPT !.recvChain = mixed.chain, !.root = mixed.root, !.remote = env.ratchet]
RatchetReceive(s, env) ==
    IF env.ratchet \in {NoKey, s.remote}
    THEN s
    ELSE LET mixed == DeriveRatchetRootAndChain(SharedSecret(s.local, env.ratchet), s.root)
         IN  [s EXCEPT !.recvChain = mixed.chain, !.root = mixed.root,
                       !.remote = env.ratchet, !.recvCounter = 0]

\* The counter check and the AEAD open of DecryptChainStep, in session r.
Opens(r, env) ==
    /\ env.number = r.recvCounter
    /\ env.key = MessageKey(r.recvChain, r.recvCounter)

Accepts(s, env) == Opens(RatchetReceive(s, env), env)

\* The session HandleChatMessage leaves behind, accepted or not.
HandleWithoutStep(s, env) == RatchetReceive(s, env)
HandleChatMessage(s, env) ==
    LET r == RatchetReceive(s, env)
    IN  IF Opens(r, env)
        THEN [r EXCEPT !.recvChain = NextChain(@, r.recvCounter), !.recvCounter = @ + 1]
        ELSE r
====
