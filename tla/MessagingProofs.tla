---- MODULE MessagingProofs ----
(***************************************************************************)
(* Proofs about Messaging, for every ratchet interval, page size and       *)
(* number of drain passes, and any number of sends and faults.             *)
(***************************************************************************)
EXTENDS Messaging, InboxProofs, SequenceTheorems

----------------------------------------------------------------------------
\* The key schedule.

\* Each party is the peer of its peer.
LEMMA Parties ==
    ASSUME NEW p \in Party
    PROVE  Peer(p) \in Party /\ Peer(p) # p /\ Peer(Peer(p)) = p
BY MessagingAssumption DEF Party, Peer

\* The root key and the chain key of a ratchet step.
LEMMA Derived ==
    ASSUME NEW root \in RootKey, NEW k \in RatchetKey, NEW l \in RatchetKey
    PROVE  /\ Append(root, SharedSecret(k, l)) \in RootKey
           /\ Len(Append(root, SharedSecret(k, l))) = Len(root) + 1
           /\ DeriveRatchetRootAndChain(SharedSecret(k, l), root).root = Append(root, SharedSecret(k, l))
           /\ DeriveRatchetRootAndChain(SharedSecret(k, l), root).chain =
                NewChain("ratchet", Append(root, SharedSecret(k, l)))
<1>1. SharedSecret(k, l) \in SUBSET RatchetKey
  BY DEF SharedSecret
<1>2. /\ Append(root, SharedSecret(k, l)) \in RootKey
      /\ Len(Append(root, SharedSecret(k, l))) = Len(root) + 1
  BY <1>1 DEF RootKey
<1> QED
  BY <1>2 DEF DeriveRatchetRootAndChain

\* The types of a new chain.
LEMMA ChainTypes ==
    ASSUME NEW label \in {"c1", "c2", "ratchet"}, NEW path \in RootKey
    PROVE  /\ NewChain(label, path) \in ChainKey
           /\ NewChain(label, path).path = path /\ NewChain(label, path).label = label
           /\ NewChain(label, path).used = <<>>
<1>1. <<>> \in Seq(Nat)
  OBVIOUS
<1> QED
  BY <1>1 DEF NewChain, ChainKey

\* The types of a chain one message on.
LEMMA NextTypes ==
    ASSUME NEW chain \in ChainKey, NEW n \in Nat
    PROVE  /\ NextChain(chain, n) \in ChainKey
           /\ NextChain(chain, n).path = chain.path /\ NextChain(chain, n).label = chain.label
           /\ Len(NextChain(chain, n).used) = Len(chain.used) + 1
<1>1. chain.used \in Seq(Nat)
  BY DEF ChainKey
<1>2. Append(chain.used, n) \in Seq(Nat) /\ Len(Append(chain.used, n)) = Len(chain.used) + 1
  BY <1>1
<1>3. /\ NextChain(chain, n) \in ChainKey
      /\ NextChain(chain, n).path = chain.path /\ NextChain(chain, n).label = chain.label
      /\ NextChain(chain, n).used = Append(chain.used, n)
  BY <1>2 DEF NextChain, ChainKey
<1> QED
  BY <1>2, <1>3

\* The two sessions after the handshake.
LEMMA HandshakeSessions ==
    ASSUME NEW p \in Party, NEW q \in Party
    PROVE  /\ InitiatorSession(p, q) \in SessionState
           /\ ResponderSession(p, q) \in SessionState
<1>1. <<>> \in RootKey
  BY DEF RootKey
<1>2. HandshakeKeys.c1 \in ChainKey /\ HandshakeKeys.c2 \in ChainKey /\ HandshakeKeys.root = <<>>
  BY <1>1, ChainTypes DEF HandshakeKeys
<1>3. NextChain(HandshakeKeys.c1, 0) \in ChainKey
  BY <1>2, NextTypes
<1>4. <<p, 0>> \in RatchetKey /\ <<q, 0>> \in RatchetKey
  BY DEF RatchetKey
<1> QED
  BY <1>1, <1>2, <1>3, <1>4 DEF InitiatorSession, ResponderSession, SessionState

\* The session a message is encrypted in: the old one, or the one after a
\* ratchet step.
LEMMA SendingTypes ==
    ASSUME NEW s \in SessionState, NEW fresh \in RatchetKey
    PROVE  /\ SendingSession(s, fresh) \in SessionState
           /\ SendingSession(s, fresh).recvChain = s.recvChain
           /\ SendingSession(s, fresh).remote = s.remote
           /\ ~RatchetDue(s) => SendingSession(s, fresh) = s
           /\ RatchetDue(s) =>
                /\ SendingSession(s, fresh).root = Append(s.root, SharedSecret(fresh, s.remote))
                /\ SendingSession(s, fresh).sendChain =
                     NewChain("ratchet", Append(s.root, SharedSecret(fresh, s.remote)))
                /\ SendingSession(s, fresh).local = fresh
<1>1. s.root \in RootKey /\ s.remote \in RatchetKey
  BY DEF SessionState
<1>2. PICK root \in RootKey, chain \in ChainKey :
        /\ root = Append(s.root, SharedSecret(fresh, s.remote))
        /\ chain = NewChain("ratchet", Append(s.root, SharedSecret(fresh, s.remote)))
  BY <1>1, Derived, ChainTypes
<1>3. CASE RatchetDue(s)
  <2>1. /\ DeriveRatchetRootAndChain(SharedSecret(fresh, s.remote), s.root).root = root
        /\ DeriveRatchetRootAndChain(SharedSecret(fresh, s.remote), s.root).chain = chain
    BY <1>1, <1>2, Derived
  <2>2. PICK r : r = [s EXCEPT !.local = fresh, !.sendChain = chain, !.root = root, !.sendCounter = 0]
    OBVIOUS
  <2>3. SendingSession(s, fresh) = r
    BY <1>3, <2>1, <2>2 DEF SendingSession, RatchetSend
  <2>4. /\ r \in SessionState /\ r.recvChain = s.recvChain /\ r.remote = s.remote
        /\ r.root = root /\ r.sendChain = chain /\ r.local = fresh
    BY <2>2 DEF SessionState
  <2> QED
    BY <1>2, <1>3, <2>3, <2>4
<1>4. CASE ~RatchetDue(s)
  BY <1>4 DEF SendingSession
<1> QED
  BY <1>3, <1>4

\* The session after it.
LEMMA SentTypes ==
    ASSUME NEW s \in SessionState, NEW fresh \in RatchetKey
    PROVE  /\ AfterSend(s, fresh) \in SessionState
           /\ AfterSend(s, fresh).recvChain = s.recvChain
           /\ AfterSend(s, fresh).remote = s.remote
           /\ AfterSend(s, fresh).root = SendingSession(s, fresh).root
           /\ AfterSend(s, fresh).local = SendingSession(s, fresh).local
           /\ AfterSend(s, fresh).sendChain =
                NextChain(SendingSession(s, fresh).sendChain, SendingSession(s, fresh).sendCounter)
<1> DEFINE r == SendingSession(s, fresh)
<1>1. r \in SessionState /\ r.recvChain = s.recvChain /\ r.remote = s.remote
  BY SendingTypes
<1>2. AfterSend(s, fresh) =
        [r EXCEPT !.sendChain = NextChain(r.sendChain, r.sendCounter), !.sendCounter = r.sendCounter + 1]
  BY DEF AfterSend
<1> HIDE DEF r
<1>3. NextChain(r.sendChain, r.sendCounter) \in ChainKey /\ r.sendCounter + 1 \in Nat
  BY <1>1, NextTypes DEF SessionState
<1> DEFINE chain == NextChain(r.sendChain, r.sendCounter)
<1> HIDE DEF chain
<1>4. /\ AfterSend(s, fresh) \in SessionState
      /\ AfterSend(s, fresh).recvChain = s.recvChain /\ AfterSend(s, fresh).remote = s.remote
      /\ AfterSend(s, fresh).root = r.root /\ AfterSend(s, fresh).local = r.local
      /\ AfterSend(s, fresh).sendChain = chain
  BY <1>1, <1>2, <1>3 DEF SessionState, chain
<1> QED
  BY <1>4 DEF r, chain

\* The envelope of the message.
LEMMA SealedTypes ==
    ASSUME NEW s \in SessionState, NEW fresh \in RatchetKey, NEW body \in Party \X Nat
    PROVE  /\ ChatEnvelope(s, fresh, body) \in Envelope
           /\ ChatEnvelope(s, fresh, body).body = body
           /\ ChatEnvelope(s, fresh, body).key =
                <<SendingSession(s, fresh).sendChain, SendingSession(s, fresh).sendCounter>>
           /\ ChatEnvelope(s, fresh, body).ratchet = IF RatchetDue(s) THEN fresh ELSE NoKey
<1> DEFINE r == SendingSession(s, fresh)
           ratchet == IF RatchetDue(s) THEN fresh ELSE NoKey
           key == <<r.sendChain, r.sendCounter>>
<1>1. ChatEnvelope(s, fresh, body) =
        [ratchet |-> ratchet, number |-> r.sendCounter, key |-> key, body |-> body]
  BY DEF ChatEnvelope, MessageKey
<1>2. r.sendChain \in ChainKey /\ r.sendCounter \in Nat
  BY SendingTypes DEF SessionState
<1>3. ratchet \in RatchetKey \cup {NoKey} /\ key \in ChainKey \X Nat
  BY <1>2
<1> HIDE DEF r, ratchet, key
<1>4. /\ ChatEnvelope(s, fresh, body) \in Envelope
      /\ ChatEnvelope(s, fresh, body).body = body /\ ChatEnvelope(s, fresh, body).key = key
      /\ ChatEnvelope(s, fresh, body).ratchet = ratchet
  BY <1>1, <1>2, <1>3 DEF Envelope
<1> QED
  BY <1>4 DEF key, r, ratchet

\* Receiving: a key of the peer is mixed in, or nothing changes.
LEMMA RatchetedTypes ==
    ASSUME NEW s \in SessionState, NEW env \in Envelope
    PROVE  /\ RatchetReceive(s, env) \in SessionState
           /\ RatchetReceive(s, env).sendChain = s.sendChain
           /\ RatchetReceive(s, env).sendCounter = s.sendCounter
           /\ RatchetReceive(s, env).local = s.local
           /\ \/ RatchetReceive(s, env) = s
              \/ /\ env.ratchet \in RatchetKey /\ env.ratchet # NoKey
                 /\ RatchetReceive(s, env).remote = env.ratchet
                 /\ RatchetReceive(s, env).root = Append(s.root, SharedSecret(s.local, env.ratchet))
                 /\ RatchetReceive(s, env).recvChain =
                      NewChain("ratchet", Append(s.root, SharedSecret(s.local, env.ratchet)))
<1>1. CASE env.ratchet \in {NoKey, s.remote}
  BY <1>1 DEF RatchetReceive
<1>2. CASE env.ratchet \notin {NoKey, s.remote}
  <2>1. env.ratchet \in RatchetKey /\ s.root \in RootKey /\ s.local \in RatchetKey
    BY <1>2 DEF Envelope, SessionState
  <2>2. PICK root \in RootKey, chain \in ChainKey :
          /\ root = Append(s.root, SharedSecret(s.local, env.ratchet))
          /\ chain = NewChain("ratchet", Append(s.root, SharedSecret(s.local, env.ratchet)))
    BY <2>1, Derived, ChainTypes
  <2>3. /\ DeriveRatchetRootAndChain(SharedSecret(s.local, env.ratchet), s.root).root = root
        /\ DeriveRatchetRootAndChain(SharedSecret(s.local, env.ratchet), s.root).chain = chain
    BY <2>1, <2>2, Derived
  <2>4. PICK key \in RatchetKey : key = env.ratchet
    BY <2>1
  <2>5. PICK r : r = [s EXCEPT !.recvChain = chain, !.root = root, !.remote = key, !.recvCounter = 0]
    OBVIOUS
  <2>6. RatchetReceive(s, env) = r
    BY <1>2, <2>3, <2>4, <2>5 DEF RatchetReceive
  <2>7. /\ r \in SessionState /\ r.sendChain = s.sendChain /\ r.sendCounter = s.sendCounter
        /\ r.local = s.local /\ r.remote = key /\ r.root = root /\ r.recvChain = chain
    BY <2>5 DEF SessionState
  <2> QED
    BY <1>2, <2>1, <2>2, <2>4, <2>6, <2>7
<1> QED
  BY <1>1, <1>2

\* HandleChatMessage keeps a session a session, moves the receiving chain by one
\* message when it accepts, and never touches the sending one.
LEMMA HandledTypes ==
    ASSUME NEW s \in SessionState, NEW env \in Envelope
    PROVE  /\ HandleChatMessage(s, env) \in SessionState
           /\ HandleChatMessage(s, env).sendChain = s.sendChain
           /\ HandleChatMessage(s, env).local = s.local
           /\ HandleChatMessage(s, env).root = RatchetReceive(s, env).root
           /\ HandleChatMessage(s, env).remote = RatchetReceive(s, env).remote
           /\ Accepts(s, env) =>
                /\ env.key[1] = RatchetReceive(s, env).recvChain
                /\ HandleChatMessage(s, env).recvChain =
                     NextChain(RatchetReceive(s, env).recvChain, RatchetReceive(s, env).recvCounter)
           /\ ~Accepts(s, env) => HandleChatMessage(s, env) = RatchetReceive(s, env)
<1> DEFINE r == RatchetReceive(s, env)
           h == HandleChatMessage(s, env)
<1>1. r \in SessionState /\ r.sendChain = s.sendChain /\ r.local = s.local
  BY RatchetedTypes
<1>2. CASE Accepts(s, env)
  <2> DEFINE chain == NextChain(r.recvChain, r.recvCounter)
  <2>1. h = [r EXCEPT !.recvChain = chain, !.recvCounter = r.recvCounter + 1]
    BY <1>2 DEF Accepts, HandleChatMessage
  <2>2. env.key[1] = r.recvChain
    BY <1>2 DEF Accepts, Opens, MessageKey
  <2> HIDE DEF r, h
  <2>3. chain \in ChainKey /\ r.recvCounter + 1 \in Nat
    BY <1>1, NextTypes DEF SessionState
  <2> HIDE DEF chain
  <2>4. /\ h \in SessionState /\ h.sendChain = s.sendChain /\ h.local = s.local
        /\ h.root = r.root /\ h.remote = r.remote /\ h.recvChain = chain
    BY <1>1, <2>1, <2>3 DEF SessionState
  <2> QED
    BY <1>2, <2>2, <2>4 DEF r, h, chain
<1>3. CASE ~Accepts(s, env)
  BY <1>1, <1>3 DEF Accepts, HandleChatMessage
<1> QED
  BY <1>2, <1>3

----------------------------------------------------------------------------
\* The mailbox of a user, the call that polls it and what the client and its
\* state file know of it.
Mailbox(p) ==
    /\ Ordered(inbox[p])
    /\ \A x \in InboxIds(inbox[p]) : x < nextId[p]
    /\ poll[p].done < nextId[p]
    /\ mem[p].pending < nextId[p] /\ \A h \in Ids(handled[p]) : h < nextId[p]
    /\ disk[p].pending < nextId[p] /\ \A h \in Ids(saved[p]) : h < nextId[p]
    /\ PollOk(poll[p], inbox[p], Ids(handled[p]), mem[p].pending)
    /\ UpTo(inbox[p], Ids(saved[p]), disk[p].pending)

MailInv == TypeOK /\ \A p \in Party : Mailbox(p)

\* What TypeOK says of one user.
LEMMA UserTypes ==
    ASSUME TypeOK, NEW p \in Party
    PROVE  /\ mem[p] \in ClientState /\ disk[p] \in ClientState /\ Session(p) \in SessionState
           /\ mem[p].pending \in Nat /\ disk[p].pending \in Nat
           /\ inbox[p] \in Seq(Entry) /\ nextId[p] \in Nat \ {0} /\ poll[p] \in PollState(Entry)
           /\ poll[p].done \in Nat /\ poll[p].ack \in Nat /\ poll[p].out \in Seq(Nat)
           /\ keys[p] \in Nat /\ sends[p] \in Nat
           /\ handled[p] \in SUBSET [id : Nat, body : Party \X Nat] /\ Ids(handled[p]) \in SUBSET Nat
           /\ saved[p] \in SUBSET [id : Nat, body : Party \X Nat] /\ Ids(saved[p]) \in SUBSET Nat
           /\ HasIds(Entry) /\ Fresh(p) \in RatchetKey /\ Body(p) \in Party \X Nat
<1>1. /\ mem[p] \in ClientState /\ disk[p] \in ClientState /\ inbox[p] \in Seq(Entry)
      /\ nextId[p] \in Nat \ {0} /\ poll[p] \in PollState(Entry)
      /\ keys[p] \in Nat /\ sends[p] \in Nat
      /\ handled[p] \in SUBSET [id : Nat, body : Party \X Nat]
      /\ saved[p] \in SUBSET [id : Nat, body : Party \X Nat]
  BY DEF TypeOK
<1>2. /\ Session(p) \in SessionState /\ mem[p].pending \in Nat /\ disk[p].pending \in Nat
  BY <1>1 DEF Session, ClientState
<1>3. poll[p].done \in Nat /\ poll[p].ack \in Nat /\ poll[p].out \in Seq(Nat)
  BY <1>1 DEF PollState
<1>4. Ids(handled[p]) \in SUBSET Nat /\ Ids(saved[p]) \in SUBSET Nat
  BY <1>1 DEF Ids
<1>5. HasIds(Entry) /\ Fresh(p) \in RatchetKey /\ Body(p) \in Party \X Nat
  BY <1>1 DEF HasIds, Entry, Fresh, Body, RatchetKey
<1> QED
  BY <1>1, <1>2, <1>3, <1>4, <1>5

\* A user nothing happens to.
LEMMA MailUntouched ==
    ASSUME NEW p \in Party, Mailbox(p),
           inbox'[p] = inbox[p], nextId'[p] = nextId[p], poll'[p] = poll[p],
           mem'[p].pending = mem[p].pending, handled'[p] = handled[p],
           disk'[p].pending = disk[p].pending, saved'[p] = saved[p]
    PROVE  Mailbox(p)'
BY DEF Mailbox

\* A user who gets mail.
LEMMA MailPosted ==
    ASSUME TypeOK, NEW p \in Party, Mailbox(p), NEW env \in Envelope,
           inbox'[p] = EnqueueEnvelope(inbox[p], nextId[p], env), nextId'[p] = nextId[p] + 1,
           poll'[p] = poll[p], mem'[p].pending = mem[p].pending, handled'[p] = handled[p],
           disk'[p].pending = disk[p].pending, saved'[p] = saved[p]
    PROVE  /\ Mailbox(p)' /\ inbox'[p] \in Seq(Entry) /\ nextId'[p] \in Nat \ {0}
           /\ Entries(inbox'[p]) = Entries(inbox[p]) \cup {[id |-> nextId[p], env |-> env]}
           /\ InboxIds(inbox'[p]) = InboxIds(inbox[p]) \cup {nextId[p]}
<1>1. /\ inbox[p] \in Seq(Entry) /\ nextId[p] \in Nat \ {0} /\ poll[p] \in PollState(Entry)
      /\ HasIds(Entry) /\ mem[p].pending \in Nat /\ disk[p].pending \in Nat /\ poll[p].done \in Nat
      /\ Ids(handled[p]) \in SUBSET Nat /\ Ids(saved[p]) \in SUBSET Nat
  BY UserTypes
<1>2. InboxIds(inbox[p]) \subseteq Nat
  BY <1>1, BoxTypes
<1>3. [id |-> nextId[p], env |-> env] \in Entry
  BY <1>1 DEF Entry
<1>4. /\ inbox'[p] \in Seq(Entry) /\ Ordered(inbox'[p])
      /\ InboxIds(inbox'[p]) = InboxIds(inbox[p]) \cup {nextId[p]}
      /\ Entries(inbox'[p]) = Entries(inbox[p]) \cup {[id |-> nextId[p], env |-> env]}
  BY <1>1, <1>3, Enqueued DEF Mailbox
<1>5. PollOk(poll[p], inbox'[p], Ids(handled[p]), mem[p].pending)
  BY <1>1, <1>3, NewMail DEF Mailbox
<1>6. UpTo(inbox'[p], Ids(saved[p]), disk[p].pending)
  BY <1>1, <1>4, NewMailUpTo DEF Mailbox
<1>7. \A n \in Nat : n < nextId[p] => n < nextId[p] + 1
  BY <1>1
<1>8. /\ \A x \in InboxIds(inbox'[p]) : x < nextId[p] + 1
      /\ \A h \in Ids(handled[p]) : h < nextId[p] + 1
      /\ \A h \in Ids(saved[p]) : h < nextId[p] + 1
      /\ poll[p].done < nextId[p] + 1 /\ mem[p].pending < nextId[p] + 1
      /\ disk[p].pending < nextId[p] + 1
  BY <1>1, <1>2, <1>4, <1>7 DEF Mailbox
<1> QED
  BY <1>1, <1>4, <1>5, <1>6, <1>8 DEF Mailbox

\* A user who saves, between two calls or at the end of one.
LEMMA MailSaved ==
    ASSUME NEW p \in Party, Mailbox(p), poll[p].pc # "handle",
           inbox'[p] = inbox[p], nextId'[p] = nextId[p], poll'[p] = poll[p],
           mem'[p].pending = mem[p].pending, handled'[p] = handled[p],
           disk'[p] = mem'[p], saved'[p] = handled[p]
    PROVE  Mailbox(p)'
BY DEF Mailbox, PollOk

\* A user whose process died.
LEMMA MailReloaded ==
    ASSUME TypeOK, NEW p \in Party, Mailbox(p),
           inbox'[p] = inbox[p], nextId'[p] = nextId[p], poll'[p] = Idle,
           mem'[p] = disk[p], handled'[p] = saved[p],
           disk'[p] = disk[p], saved'[p] = saved[p]
    PROVE  Mailbox(p)' /\ poll'[p] \in PollState(Entry)
<1>1. UpTo(inbox[p], Ids(saved[p]), disk[p].pending) /\ nextId[p] \in Nat \ {0}
  BY UserTypes DEF Mailbox
<1>2. /\ PollOk(Idle, inbox[p], Ids(saved[p]), disk[p].pending) /\ Idle.done = 0
      /\ Idle \in PollState(Entry)
  BY <1>1, IdleOk
<1> QED
  BY <1>1, <1>2 DEF Mailbox

----------------------------------------------------------------------------
\* Types and mailboxes over a SendMessage call.

\* A fault is counted, within its bound.
LEMMA FaultCounted ==
    ASSUME TypeOK, NEW kind, Fault(kind) PROVE faults' \in 0 .. MaxFaults
BY MessagingAssumption DEF Fault, TypeOK

\* What Encrypt does, in types.
LEMMA EncryptTypes ==
    ASSUME TypeOK, NEW p \in Party, NEW causes \in SUBSET {"gap", "stale"}, Encrypt(p, causes)
    PROVE  /\ sends' \in [Party -> Nat] /\ keys' \in [Party -> Nat]
           /\ sealed' \subseteq [key : ChainKey \X Nat, body : Party \X Nat]
           /\ cause' \subseteq {"crossed", "gap", "stale", "replayed"}
           /\ UNCHANGED <<poll, rejected, returned>>
           /\ Sealed(p) \in Envelope /\ poll[p].pc = "idle"
<1>1. Session(p) \in SessionState /\ Fresh(p) \in RatchetKey /\ Body(p) \in Party \X Nat
  BY UserTypes
<1>2. Sealed(p) \in Envelope
  BY <1>1, SealedTypes DEF Sealed
<1>3. [key |-> Sealed(p).key, body |-> Body(p)] \in [key : ChainKey \X Nat, body : Party \X Nat]
  BY <1>1, <1>2 DEF Envelope
<1>4. sealed' \subseteq [key : ChainKey \X Nat, body : Party \X Nat]
  BY <1>3 DEF Encrypt, TypeOK
<1>5. sends' \in [Party -> Nat] /\ keys' \in [Party -> Nat]
  BY DEF Encrypt, TypeOK
<1>6. cause' \subseteq {"crossed", "gap", "stale", "replayed"}
  BY DEF Encrypt, TypeOK
<1> QED
  BY <1>2, <1>4, <1>5, <1>6 DEF Encrypt

\* SendMessage moves the session of its own client alone.
LEMMA AdvanceTypes ==
    ASSUME TypeOK, NEW p \in Party, Advance(p)
    PROVE  /\ mem' \in [Party -> ClientState] /\ handled' = handled
           /\ mem'[p].session = AfterSend(Session(p), Fresh(p))
           /\ \A q \in Party : mem'[q].pending = mem[q].pending /\ (q # p => mem'[q] = mem[q])
<1>1. AfterSend(Session(p), Fresh(p)) \in SessionState
  BY UserTypes, SentTypes
<1>2. PICK s \in SessionState : s = AfterSend(Session(p), Fresh(p))
  BY <1>1
<1>3. mem' = [mem EXCEPT ![p].session = s]
  BY <1>2 DEF Advance, Session
<1>4. mem \in [Party -> ClientState]
  BY DEF TypeOK
<1>5. mem' \in [Party -> ClientState] /\ mem'[p].session = s
  BY <1>3, <1>4 DEF ClientState
<1>6. \A q \in Party : mem'[q].pending = mem[q].pending /\ (q # p => mem'[q] = mem[q])
  BY <1>3, <1>4 DEF ClientState
<1> QED
  BY <1>2, <1>5, <1>6 DEF Advance

\* A save writes the state file of its own client alone.
LEMMA SaveTypes ==
    ASSUME TypeOK, NEW p \in Party, mem' \in [Party -> ClientState], Save(p)
    PROVE  /\ disk' \in [Party -> ClientState]
           /\ saved' \in [Party -> SUBSET [id : Nat, body : Party \X Nat]]
           /\ disk'[p] = mem'[p] /\ saved'[p] = handled[p]
           /\ \A q \in Party : q # p => disk'[q] = disk[q] /\ saved'[q] = saved[q]
BY DEF Save, TypeOK

\* A restart reads the state file of its own client alone.
LEMMA ReloadTypes ==
    ASSUME TypeOK, NEW p \in Party, Reload(p)
    PROVE  /\ mem' \in [Party -> ClientState]
           /\ handled' \in [Party -> SUBSET [id : Nat, body : Party \X Nat]]
           /\ mem'[p] = disk[p] /\ handled'[p] = saved[p]
           /\ \A q \in Party : q # p => mem'[q] = mem[q] /\ handled'[q] = handled[q]
BY DEF Reload, TypeOK

\* An envelope is posted under the next number of the peer's mailbox.
LEMMA PostTypes ==
    ASSUME TypeOK, NEW p \in Party, Mailbox(Peer(p)), Sealed(p) \in Envelope, Post(p)
    PROVE  /\ inbox' \in [Party -> Seq(Entry)] /\ nextId' \in [Party -> Nat \ {0}]
           /\ inbox'[Peer(p)] = EnqueueEnvelope(inbox[Peer(p)], nextId[Peer(p)], Sealed(p))
           /\ nextId'[Peer(p)] = nextId[Peer(p)] + 1
           /\ inbox'[p] = inbox[p] /\ nextId'[p] = nextId[p]
<1>1. Peer(p) \in Party /\ Peer(p) # p
  BY Parties
<1> DEFINE q == Peer(p)
<1> HIDE DEF q
<1>2. /\ inbox[q] \in Seq(Entry) /\ nextId[q] \in Nat \ {0} /\ HasIds(Entry)
      /\ Ordered(inbox[q]) /\ \A x \in InboxIds(inbox[q]) : x < nextId[q]
  BY <1>1, UserTypes DEF q, Mailbox
<1>3. [id |-> nextId[q], env |-> Sealed(p)] \in Entry
  BY <1>2 DEF Entry
<1>4. EnqueueEnvelope(inbox[q], nextId[q], Sealed(p)) \in Seq(Entry)
  BY <1>2, <1>3, Enqueued
<1>5. /\ inbox' = [inbox EXCEPT ![q] = EnqueueEnvelope(inbox[q], nextId[q], Sealed(p))]
      /\ nextId' = [nextId EXCEPT ![q] = nextId[q] + 1]
  BY DEF Post, q
<1>6. inbox \in [Party -> Seq(Entry)] /\ nextId \in [Party -> Nat \ {0}] /\ q \in Party /\ q # p
  BY <1>1 DEF TypeOK, q
<1>7. nextId[q] + 1 \in Nat \ {0}
  BY <1>2
<1> QED
  BY <1>4, <1>5, <1>6, <1>7 DEF q

\* Two users are all there are.
LEMMA BothMailboxes ==
    ASSUME NEW p \in Party, Mailbox(p)', Mailbox(Peer(p))'
    PROVE  \A q \in Party : Mailbox(q)'
BY DEF Party, Peer

\* SendMessage keeps the mail invariant.
LEMMA SendKeepsMail ==
    ASSUME MailInv, NEW p \in Party, Send(p)
    PROVE  MailInv'
<1> DEFINE q == Peer(p)
<1>1. TypeOK /\ Mailbox(p) /\ q \in Party /\ q # p /\ Mailbox(q)
  BY Parties DEF MailInv
<1>2. PICK causes \in SUBSET {"gap", "stale"} : Encrypt(p, causes)
  BY DEF Send, SendMessage, SendMessageUnsaved, SendMessageUnsynced, SendMessageNotPosted,
         SendMessageCrash
<1>3. /\ sends' \in [Party -> Nat] /\ keys' \in [Party -> Nat]
      /\ sealed' \subseteq [key : ChainKey \X Nat, body : Party \X Nat]
      /\ cause' \subseteq {"crossed", "gap", "stale", "replayed"}
      /\ UNCHANGED <<poll, rejected, returned>>
      /\ Sealed(p) \in Envelope /\ poll[p].pc = "idle"
  BY <1>1, <1>2, EncryptTypes
<1>4. faults' \in 0 .. MaxFaults
  <2>1. faults \in 0 .. MaxFaults
    BY <1>1 DEF TypeOK
  <2> QED
    BY <1>1, <2>1, FaultCounted
       DEF Send, SendMessage, SendMessageUnsaved, SendMessageUnsynced, SendMessageNotPosted,
           SendMessageCrash
<1>5. CASE Advance(p) /\ Save(p) /\ Post(p)
  <2>1. /\ mem' \in [Party -> ClientState] /\ handled' = handled
        /\ \A r \in Party : mem'[r].pending = mem[r].pending
    BY <1>1, <1>5, AdvanceTypes
  <2>2. /\ disk' \in [Party -> ClientState]
        /\ saved' \in [Party -> SUBSET [id : Nat, body : Party \X Nat]]
        /\ disk'[p] = mem'[p] /\ saved'[p] = handled[p]
        /\ disk'[q] = disk[q] /\ saved'[q] = saved[q]
    BY <1>1, <1>5, <2>1, SaveTypes
  <2>3. /\ inbox' \in [Party -> Seq(Entry)] /\ nextId' \in [Party -> Nat \ {0}]
        /\ inbox'[q] = EnqueueEnvelope(inbox[q], nextId[q], Sealed(p)) /\ nextId'[q] = nextId[q] + 1
        /\ inbox'[p] = inbox[p] /\ nextId'[p] = nextId[p]
    BY <1>1, <1>3, <1>5, PostTypes
  <2>4. Mailbox(p)'
    BY <1>1, <1>3, <2>1, <2>2, <2>3, MailSaved
  <2>5. Mailbox(q)'
    BY <1>1, <1>3, <2>1, <2>2, <2>3, MailPosted
  <2>6. TypeOK'
    BY <1>1, <1>3, <1>4, <2>1, <2>2, <2>3 DEF TypeOK
  <2> QED
    BY <2>4, <2>5, <2>6, BothMailboxes DEF MailInv
<1>6. CASE Advance(p) /\ UNCHANGED <<disk, saved>> /\ Post(p)
  <2>1. /\ mem' \in [Party -> ClientState] /\ handled' = handled
        /\ \A r \in Party : mem'[r].pending = mem[r].pending
    BY <1>1, <1>6, AdvanceTypes
  <2>3. /\ inbox' \in [Party -> Seq(Entry)] /\ nextId' \in [Party -> Nat \ {0}]
        /\ inbox'[q] = EnqueueEnvelope(inbox[q], nextId[q], Sealed(p)) /\ nextId'[q] = nextId[q] + 1
        /\ inbox'[p] = inbox[p] /\ nextId'[p] = nextId[p]
    BY <1>1, <1>3, <1>6, PostTypes
  <2>4. Mailbox(p)'
    BY <1>1, <1>3, <1>6, <2>1, <2>3, MailUntouched
  <2>5. Mailbox(q)'
    BY <1>1, <1>3, <1>6, <2>1, <2>3, MailPosted
  <2>6. TypeOK'
    BY <1>1, <1>3, <1>4, <1>6, <2>1, <2>3 DEF TypeOK
  <2> QED
    BY <2>4, <2>5, <2>6, BothMailboxes DEF MailInv
<1>7. CASE Advance(p) /\ UNCHANGED <<disk, saved, store>>
  <2>1. /\ mem' \in [Party -> ClientState] /\ handled' = handled
        /\ \A r \in Party : mem'[r].pending = mem[r].pending
    BY <1>1, <1>7, AdvanceTypes
  <2>2. inbox' = inbox /\ nextId' = nextId /\ disk' = disk /\ saved' = saved
    BY <1>7 DEF store
  <2>4. Mailbox(p)'
    BY <1>1, <1>3, <2>1, <2>2, MailUntouched
  <2>5. Mailbox(q)'
    BY <1>1, <1>3, <2>1, <2>2, MailUntouched
  <2>6. TypeOK'
    BY <1>1, <1>3, <1>4, <2>1, <2>2 DEF TypeOK
  <2> QED
    BY <2>4, <2>5, <2>6, BothMailboxes DEF MailInv
<1>8. CASE Reload(p) /\ UNCHANGED <<disk, saved>> /\ Post(p)
  <2>1. /\ mem' \in [Party -> ClientState]
        /\ handled' \in [Party -> SUBSET [id : Nat, body : Party \X Nat]]
        /\ mem'[p] = disk[p] /\ handled'[p] = saved[p]
        /\ mem'[q] = mem[q] /\ handled'[q] = handled[q]
    BY <1>1, <1>8, ReloadTypes
  <2>2. disk' = disk /\ saved' = saved
    BY <1>8
  <2>3. /\ inbox' \in [Party -> Seq(Entry)] /\ nextId' \in [Party -> Nat \ {0}]
        /\ inbox'[q] = EnqueueEnvelope(inbox[q], nextId[q], Sealed(p)) /\ nextId'[q] = nextId[q] + 1
        /\ inbox'[p] = inbox[p] /\ nextId'[p] = nextId[p]
    BY <1>1, <1>3, <1>8, PostTypes
  <2>4. Mailbox(p)'
    <3>1. PollOk(poll[p], inbox[p], Ids(saved[p]), disk[p].pending)
      BY <1>1, <1>3 DEF Mailbox, PollOk
    <3> QED
      BY <1>1, <1>3, <2>1, <2>2, <2>3, <3>1 DEF Mailbox
  <2>5. Mailbox(q)'
    BY <1>1, <1>3, <2>1, <2>2, <2>3, MailPosted
  <2>6. TypeOK'
    BY <1>1, <1>3, <1>4, <2>1, <2>2, <2>3 DEF TypeOK
  <2> QED
    BY <2>4, <2>5, <2>6, BothMailboxes DEF MailInv
<1> QED
  BY <1>5, <1>6, <1>7, <1>8
     DEF Send, SendMessage, SendMessageUnsaved, SendMessageUnsynced, SendMessageNotPosted,
         SendMessageCrash

----------------------------------------------------------------------------
\* Types and mailboxes over a ProcessInbox call.

\* DrainInbox keeps the mail invariant.
LEMMA DrainKeepsMail ==
    ASSUME MailInv, NEW p \in Party, DrainInbox(p)
    PROVE  MailInv'
<1> DEFINE q == Peer(p)
           left == DropAcked(inbox[p], poll[p].ack)
<1>1. TypeOK /\ Mailbox(p) /\ q \in Party /\ q # p /\ Mailbox(q)
  BY Parties DEF MailInv
<1>2. /\ HasIds(Entry) /\ inbox[p] \in Seq(Entry) /\ poll[p] \in PollState(Entry)
      /\ Ordered(inbox[p]) /\ poll[p].ack \in Nat /\ nextId[p] \in Nat \ {0}
      /\ PollOk(poll[p], inbox[p], Ids(handled[p]), mem[p].pending) /\ poll[p].pc = "drain"
  BY <1>1, UserTypes DEF Mailbox, DrainInbox
<1>3. PICK n \in PageLengths(left) : poll' = [poll EXCEPT ![p] = Served(poll[p], PageOf(left, n))]
  BY DEF DrainInbox
<1>4. PICK next : next = Served(poll[p], PageOf(left, n))
  OBVIOUS
<1>5. next \in PollState(Entry) /\ next.done = 0 /\ PollOk(next, left, Ids(handled[p]), 0)
  BY <1>2, <1>4, ServedOk, ZenonT(60)
<1>6. left \in Seq(Entry) /\ Ordered(left) /\ InboxIds(left) \subseteq InboxIds(inbox[p])
  <2>1. PICK box \in Seq(Entry), ack \in Nat : box = inbox[p] /\ ack = poll[p].ack
    BY <1>2
  <2>2. HasIds(Entry) /\ Ordered(box)
    BY <1>2, <2>1
  <2>3. PICK rest : rest = DropAcked(box, ack)
    OBVIOUS
  <2>4. rest \in Seq(Entry) /\ Ordered(rest) /\ InboxIds(rest) = {x \in InboxIds(box) : x > ack}
    BY <2>2, <2>3, Dropped
  <2>5. InboxIds(rest) \subseteq InboxIds(box)
    BY <2>4
  <2> QED
    BY <2>1, <2>3, <2>4, <2>5
<1> HIDE DEF q, left
<1>7. inbox' = [inbox EXCEPT ![p] = left] /\ mem' = [mem EXCEPT ![p].pending = 0]
  BY DEF DrainInbox, left
<1>8. UNCHANGED <<disk, keys, sends, nextId, faults, history>>
  BY DEF DrainInbox
<1>9. /\ inbox \in [Party -> Seq(Entry)] /\ mem \in [Party -> ClientState]
      /\ poll \in [Party -> PollState(Entry)]
  BY <1>1 DEF TypeOK
<1>10. mem' \in [Party -> ClientState] /\ mem'[p].pending = 0 /\ mem'[q] = mem[q]
  BY <1>1, <1>7, <1>9 DEF ClientState
<1>11. inbox' \in [Party -> Seq(Entry)] /\ inbox'[p] = left /\ inbox'[q] = inbox[q]
  BY <1>1, <1>6, <1>7, <1>9
<1>12. poll' \in [Party -> PollState(Entry)] /\ poll'[p] = next /\ poll'[q] = poll[q]
  BY <1>1, <1>3, <1>4, <1>5, <1>9
<1>13. UpTo(left, Ids(saved[p]), disk[p].pending)
  BY <1>1, <1>6, FewerUpTo DEF Mailbox
<1>14. Mailbox(p)'
  BY <1>1, <1>2, <1>5, <1>6, <1>8, <1>10, <1>11, <1>12, <1>13 DEF Mailbox, history
<1>15. Mailbox(q)'
  BY <1>1, <1>8, <1>10, <1>11, <1>12, MailUntouched DEF history
<1>16. TypeOK'
  BY <1>1, <1>8, <1>10, <1>11, <1>12 DEF TypeOK, history
<1> QED
  BY <1>14, <1>15, <1>16, BothMailboxes DEF MailInv, q

\* A failed DrainInbox keeps the mail invariant.
LEMMA DrainFailureKeepsMail ==
    ASSUME MailInv, NEW p \in Party, DrainInboxFails(p)
    PROVE  MailInv' /\ mem' = mem
<1> DEFINE q == Peer(p)
<1>1. TypeOK /\ Mailbox(p) /\ q \in Party /\ q # p /\ Mailbox(q)
  BY Parties DEF MailInv
<1>2. /\ HasIds(Entry) /\ inbox[p] \in Seq(Entry) /\ poll[p] \in PollState(Entry)
      /\ Ordered(inbox[p]) /\ poll[p].ack \in Nat /\ nextId[p] \in Nat \ {0}
      /\ poll[p].page = <<>> /\ poll[p].ack = mem[p].pending
      /\ UpTo(inbox[p], Ids(handled[p]), mem[p].pending) /\ poll[p].pc = "drain"
  BY <1>1, UserTypes DEF Mailbox, DrainInboxFails, PollOk
<1> DEFINE left == inbox'[p]
<1>3. inbox \in [Party -> Seq(Entry)] /\ mem \in [Party -> ClientState]
  BY <1>1 DEF TypeOK
<1>4. left \in {inbox[p], DropAcked(inbox[p], poll[p].ack)} /\ inbox' = [inbox EXCEPT ![p] = left]
  BY <1>3 DEF DrainInboxFails
<1>5. left \in Seq(Entry) /\ Ordered(left) /\ InboxIds(left) \subseteq InboxIds(inbox[p])
  <2>1. PICK fewer : fewer = DropAcked(inbox[p], poll[p].ack)
    OBVIOUS
  <2>2. fewer \in Seq(Entry) /\ Ordered(fewer) /\ InboxIds(fewer) \subseteq InboxIds(inbox[p])
    BY <1>2, <2>1, Dropped
  <2> QED
    BY <1>2, <1>4, <2>1, <2>2
<1>6. UpTo(left, Ids(handled[p]), mem[p].pending) /\ UpTo(left, Ids(saved[p]), disk[p].pending)
  BY <1>1, <1>2, <1>5, FewerUpTo DEF Mailbox
<1>7. PICK next : next = NotServed(poll[p])
  OBVIOUS
<1>8. /\ next \in PollState(Entry) /\ next.done \in {0, poll[p].done}
      /\ PollOk(next, left, Ids(handled[p]), mem[p].pending)
  BY <1>2, <1>6, <1>7, NotServedOk
<1>9. mem' = mem
  BY <1>2, <1>3 DEF DrainInboxFails, ClientState
<1>10. UNCHANGED <<disk, keys, sends, nextId, history>> /\ faults' \in 0 .. MaxFaults
  BY <1>1, FaultCounted DEF DrainInboxFails
<1>11. poll' \in [Party -> PollState(Entry)] /\ poll'[p] = next /\ poll'[q] = poll[q]
  BY <1>1, <1>7, <1>8 DEF DrainInboxFails, TypeOK
<1>12. inbox' \in [Party -> Seq(Entry)] /\ inbox'[q] = inbox[q]
  BY <1>1, <1>3, <1>4, <1>5
<1>13. Mailbox(p)'
  BY <1>1, <1>2, <1>5, <1>6, <1>8, <1>9, <1>10, <1>11 DEF Mailbox, history
<1>14. Mailbox(q)'
  BY <1>1, <1>9, <1>10, <1>11, <1>12, MailUntouched DEF history
<1>15. TypeOK'
  BY <1>1, <1>9, <1>10, <1>11, <1>12 DEF TypeOK, history
<1> QED
  BY <1>9, <1>13, <1>14, <1>15, BothMailboxes DEF MailInv, q

\* The handling of an envelope keeps the mail invariant.
LEMMA HandleKeepsMail ==
    ASSUME MailInv, NEW p \in Party, HandleEnvelope(p)
    PROVE  MailInv'
<1> DEFINE q == Peer(p)
           item == Head(poll[p].page)
           H == Ids(handled[p])
<1>1. TypeOK /\ Mailbox(p) /\ q \in Party /\ q # p /\ Mailbox(q)
  BY Parties DEF MailInv
<1>2. /\ HasIds(Entry) /\ inbox[p] \in Seq(Entry) /\ poll[p] \in PollState(Entry)
      /\ Ordered(inbox[p]) /\ nextId[p] \in Nat \ {0} /\ H \in SUBSET Nat /\ Session(p) \in SessionState
      /\ PollOk(poll[p], inbox[p], H, mem[p].pending) /\ poll[p].pc = "handle"
      /\ mem[p].pending \in Nat /\ poll[p].done \in Nat /\ poll[p].done < nextId[p]
      /\ mem[p].pending < nextId[p]
      /\ handled[p] \in SUBSET [id : Nat, body : Party \X Nat]
  BY <1>1, UserTypes DEF Mailbox, HandleEnvelope
<1>3. item.id \in InboxIds(inbox[p]) /\ item \in Entries(inbox[p])
  BY <1>2, HandledOk
<1>4. item \in Entry /\ item.id \in Nat /\ item.env \in Envelope /\ item.id < nextId[p]
  <2>1. item \in Entry
    BY <1>2, <1>3, BoxTypes
  <2> QED
    BY <1>1, <1>3, <2>1 DEF Entry, Mailbox
<1>5. HandleChatMessage(Session(p), item.env) \in SessionState
  BY <1>2, <1>4, HandledTypes
<1>6. /\ poll'[p] \in PollState(Entry) /\ poll' = [poll EXCEPT ![p] = poll'[p]]
      /\ poll'[p].done < nextId[p]
      /\ PendingAfter(poll'[p], mem[p].pending) \in Nat
      /\ PendingAfter(poll'[p], mem[p].pending) < nextId[p]
      /\ PollOk(poll'[p], inbox[p], Ids(handled'[p]), PendingAfter(poll'[p], mem[p].pending))
      /\ handled' = [handled EXCEPT ![p] = handled'[p]]
      /\ handled'[p] \in SUBSET [id : Nat, body : Party \X Nat]
      /\ \A h \in Ids(handled'[p]) : h < nextId[p]
      /\ rejected' \in [Party -> SUBSET Nat]
  <2>1. /\ poll \in [Party -> PollState(Entry)] /\ rejected \in [Party -> SUBSET Nat]
        /\ handled \in [Party -> SUBSET [id : Nat, body : Party \X Nat]]
        /\ \A h \in H : h < nextId[p]
    BY <1>1 DEF TypeOK, Mailbox
  <2>2. CASE Accepts(Session(p), item.env)
    <3>1. PICK e : e = [id |-> item.id, body |-> item.env.body]
      OBVIOUS
    <3>2. e \in [id : Nat, body : Party \X Nat] /\ e.id = item.id
      BY <1>4, <3>1 DEF Envelope
    <3>3. /\ handled' = [handled EXCEPT ![p] = handled[p] \cup {e}]
          /\ poll' = [poll EXCEPT ![p] = Handled(poll[p])] /\ rejected' = rejected
      BY <2>2, <3>1 DEF HandleEnvelope
    <3>4. Ids(handled[p] \cup {e}) = H \cup {item.id}
      BY <3>2 DEF Ids
    <3>5. PICK next : next = Handled(poll[p])
      OBVIOUS
    <3>6. /\ next \in PollState(Entry) /\ next.done \in {0, item.id}
          /\ PendingAfter(next, mem[p].pending) \in {mem[p].pending, item.id}
          /\ PollOk(next, inbox[p], H \cup {item.id}, PendingAfter(next, mem[p].pending))
      BY <1>2, <3>5, HandledOk
    <3>7. poll'[p] = next /\ handled'[p] = handled[p] \cup {e}
      BY <2>1, <3>3, <3>5
    <3>8. \A h \in H \cup {item.id} : h < nextId[p]
      BY <1>4, <2>1
    <3>9. poll' = [poll EXCEPT ![p] = poll'[p]] /\ handled' = [handled EXCEPT ![p] = handled'[p]]
      BY <3>3, <3>5, <3>7
    <3>10. Ids(handled'[p]) = H \cup {item.id} /\ handled'[p] \in SUBSET [id : Nat, body : Party \X Nat]
      BY <1>2, <3>2, <3>4, <3>7
    <3> HIDE DEF item, H
    <3>11. /\ next.done < nextId[p]
           /\ PendingAfter(next, mem[p].pending) \in Nat
           /\ PendingAfter(next, mem[p].pending) < nextId[p]
      BY <1>2, <1>4, <3>6
    <3> QED
      BY <2>1, <3>3, <3>6, <3>7, <3>8, <3>9, <3>10, <3>11
  <2>3. CASE ~Accepts(Session(p), item.env)
    <3>1. /\ handled' = handled /\ poll' = [poll EXCEPT ![p] = Refused(poll[p])]
          /\ rejected' = [rejected EXCEPT ![p] = rejected[p] \cup {item.id}]
      BY <2>3 DEF HandleEnvelope
    <3>2. PICK next : next = Refused(poll[p])
      OBVIOUS
    <3>3. /\ next \in PollState(Entry) /\ next.done = 0
          /\ PendingAfter(next, mem[p].pending) = poll[p].done
          /\ PollOk(next, inbox[p], H, PendingAfter(next, mem[p].pending))
      BY <1>2, <3>2, RefusedOk
    <3>4. poll'[p] = next /\ handled'[p] = handled[p] /\ handled' = [handled EXCEPT ![p] = handled'[p]]
      BY <2>1, <3>1, <3>2
    <3>5. rejected' \in [Party -> SUBSET Nat]
      BY <1>4, <2>1, <3>1
    <3> QED
      BY <1>2, <2>1, <3>1, <3>2, <3>3, <3>4, <3>5
  <2> QED
    BY <2>2, <2>3
<1>7. PICK s \in SessionState, n \in Nat : /\ s = HandleChatMessage(Session(p), item.env)
                                            /\ n = PendingAfter(poll'[p], mem[p].pending)
  BY <1>5, <1>6
<1>8. mem' = [mem EXCEPT ![p] = [session |-> s, pending |-> n]]
  BY <1>7 DEF HandleEnvelope, Session
<1>9. UNCHANGED <<disk, keys, sends, inbox, nextId, faults, saved, returned, sealed, cause>>
  BY DEF HandleEnvelope, store
<1> HIDE DEF q, item, H
<1>10. mem' \in [Party -> ClientState] /\ mem'[p].pending = n /\ mem'[q] = mem[q]
  BY <1>1, <1>8 DEF ClientState, TypeOK
<1>11. /\ poll' \in [Party -> PollState(Entry)] /\ poll'[q] = poll[q] /\ handled'[q] = handled[q]
       /\ handled' \in [Party -> SUBSET [id : Nat, body : Party \X Nat]]
  BY <1>1, <1>6 DEF TypeOK
<1>12. Mailbox(p)'
  BY <1>1, <1>6, <1>7, <1>9, <1>10 DEF Mailbox
<1>13. Mailbox(q)'
  BY <1>1, <1>9, <1>10, <1>11, MailUntouched
<1>14. TypeOK'
  BY <1>1, <1>6, <1>9, <1>10, <1>11 DEF TypeOK
<1> QED
  BY <1>12, <1>13, <1>14, BothMailboxes DEF MailInv, q

\* The steps that only begin, end or save a call.
LEMMA TurnKeepsMail ==
    ASSUME MailInv, NEW p \in Party,
           ProcessInbox(p) \/ GiveUp(p) \/ SaveLocalState(p) \/ Return(p)
    PROVE  MailInv' /\ mem' = mem /\ UNCHANGED <<keys, sends, inbox, nextId, handled, sealed, cause>>
<1> DEFINE q == Peer(p)
<1>1. TypeOK /\ Mailbox(p) /\ q \in Party /\ q # p /\ Mailbox(q)
  BY Parties DEF MailInv
<1>2. /\ mem[p].pending \in Nat /\ nextId[p] \in Nat \ {0} /\ poll[p] \in PollState(Entry)
      /\ poll[p].pc # "handle" /\ UpTo(inbox[p], Ids(handled[p]), mem[p].pending)
      /\ poll[p].out \in Seq(Nat)
  BY <1>1, UserTypes DEF Mailbox, PollOk, ProcessInbox, GiveUp, SaveLocalState, Return
<1>3. /\ Idle \in PollState(Entry) /\ Idle.done = 0
      /\ PollOk(Idle, inbox[p], Ids(handled[p]), mem[p].pending)
  BY <1>2, IdleOk
<1>4. /\ poll \in [Party -> PollState(Entry)] /\ faults \in 0 .. MaxFaults
      /\ returned \in [Party -> Seq(Nat)]
  BY <1>1 DEF TypeOK
<1>5. CASE GiveUp(p) \/ Return(p)
  <2>1. /\ poll' = [poll EXCEPT ![p] = Idle] /\ returned' \in [Party -> Seq(Nat)]
        /\ UNCHANGED <<mem, disk, keys, sends, inbox, nextId, faults, handled, saved, rejected,
                       sealed, cause>>
    <3>1. CASE GiveUp(p)
      BY <1>4, <3>1 DEF GiveUp, store, history
    <3>2. CASE Return(p)
      <4>1. returned[p] \o poll[p].out \in Seq(Nat)
        BY <1>2, <1>4
      <4>2. returned' = [returned EXCEPT ![p] = returned[p] \o poll[p].out]
        BY <3>2 DEF Return
      <4>3. returned' \in [Party -> Seq(Nat)]
        BY <1>4, <4>1, <4>2
      <4> QED
        BY <3>2, <4>3 DEF Return, store
    <3> QED
      BY <1>5, <3>1, <3>2
  <2>2. Mailbox(p)' /\ Mailbox(q)'
    BY <1>1, <1>2, <1>3, <1>4, <2>1, MailUntouched DEF Mailbox
  <2>3. TypeOK'
    BY <1>1, <1>3, <2>1 DEF TypeOK
  <2> QED
    BY <2>1, <2>2, <2>3, BothMailboxes DEF MailInv
<1>6. CASE ProcessInbox(p)
  <2>1. PICK next : next = StartPoll(mem[p].pending)
    OBVIOUS
  <2>2. /\ next \in PollState(Entry) /\ next.done = 0
        /\ PollOk(next, inbox[p], Ids(handled[p]), mem[p].pending)
    BY <1>2, <2>1, StartOk
  <2>3. /\ poll' = [poll EXCEPT ![p] = next]
        /\ UNCHANGED <<mem, disk, keys, sends, inbox, nextId, faults, handled, saved, rejected,
                       returned, sealed, cause>>
    BY <1>6, <2>1 DEF ProcessInbox, store, history
  <2>4. Mailbox(p)' /\ Mailbox(q)'
    BY <1>1, <1>2, <1>4, <2>2, <2>3, MailUntouched DEF Mailbox
  <2>5. TypeOK'
    BY <1>1, <2>2, <2>3 DEF TypeOK
  <2> QED
    BY <2>3, <2>4, <2>5, BothMailboxes DEF MailInv
<1>7. CASE SaveLocalState(p)
  <2>1. PICK next : next = [poll[p] EXCEPT !.pc = "return"]
    OBVIOUS
  <2>2. /\ next \in PollState(Entry) /\ next.done = poll[p].done /\ next.pc = "return"
        /\ next.page = poll[p].page
    BY <1>2, <2>1 DEF PollState
  <2>3. PollOk(next, inbox[p], Ids(handled[p]), mem[p].pending)
    BY <1>1, <1>2, <2>2 DEF Mailbox, PollOk
  <2>4. /\ poll' = [poll EXCEPT ![p] = next]
        /\ UNCHANGED <<mem, keys, sends, inbox, nextId, handled, rejected, returned, sealed, cause>>
        /\ Save(p) \/ UNCHANGED <<disk, saved>>
    BY <1>7, <2>1 DEF SaveLocalState, store
  <2>5. faults' \in 0 .. MaxFaults
    BY <1>1, <1>4, <1>7, FaultCounted DEF SaveLocalState
  <2>6. /\ disk' \in [Party -> ClientState]
        /\ saved' \in [Party -> SUBSET [id : Nat, body : Party \X Nat]]
        /\ disk'[q] = disk[q] /\ saved'[q] = saved[q]
        /\ \/ disk'[p] = mem[p] /\ saved'[p] = handled[p]
           \/ disk'[p] = disk[p] /\ saved'[p] = saved[p]
    <3>1. CASE Save(p)
      <4>1. mem' \in [Party -> ClientState] /\ mem'[p] = mem[p]
        BY <1>1, <2>4 DEF TypeOK
      <4> QED
        BY <1>1, <3>1, <4>1, SaveTypes
    <3>2. CASE UNCHANGED <<disk, saved>>
      BY <1>1, <3>2 DEF TypeOK
    <3> QED
      BY <2>4, <3>1, <3>2
  <2>7. Mailbox(p)'
    <3>1. /\ Ordered(inbox[p]) /\ \A x \in InboxIds(inbox[p]) : x < nextId[p]
          /\ poll[p].done < nextId[p]
          /\ mem[p].pending < nextId[p] /\ \A h \in Ids(handled[p]) : h < nextId[p]
          /\ disk'[p].pending < nextId[p] /\ \A h \in Ids(saved'[p]) : h < nextId[p]
          /\ UpTo(inbox[p], Ids(saved'[p]), disk'[p].pending)
      BY <1>1, <1>2, <2>6 DEF Mailbox
    <3>2. poll'[p] = next
      BY <1>4, <2>4
    <3> QED
      BY <2>2, <2>3, <2>4, <3>1, <3>2 DEF Mailbox
  <2>8. Mailbox(q)'
    BY <1>1, <1>4, <2>4, <2>6, MailUntouched
  <2>9. TypeOK'
    BY <1>1, <2>2, <2>4, <2>5, <2>6 DEF TypeOK
  <2> QED
    BY <2>4, <2>7, <2>8, <2>9, BothMailboxes DEF MailInv
<1> QED
  BY <1>5, <1>6, <1>7

\* A restart keeps the mail invariant.
LEMMA RestartKeepsMail ==
    ASSUME MailInv, NEW p \in Party, Restart(p)
    PROVE  MailInv'
<1> DEFINE q == Peer(p)
<1>1. TypeOK /\ Mailbox(p) /\ q \in Party /\ q # p /\ Mailbox(q)
  BY Parties DEF MailInv
<1>2. /\ mem' \in [Party -> ClientState]
      /\ handled' \in [Party -> SUBSET [id : Nat, body : Party \X Nat]]
      /\ mem'[p] = disk[p] /\ handled'[p] = saved[p]
      /\ mem'[q] = mem[q] /\ handled'[q] = handled[q]
  BY <1>1, ReloadTypes DEF Restart
<1>3. /\ UNCHANGED <<disk, keys, sends, inbox, nextId, saved, rejected, returned, sealed>>
      /\ poll' = [poll EXCEPT ![p] = Idle] /\ cause' \in {cause, cause \cup {"stale"}}
      /\ faults' \in 0 .. MaxFaults
  BY <1>1, FaultCounted DEF Restart, store
<1>4. poll'[p] = Idle /\ poll'[q] = poll[q]
  BY <1>1, <1>3 DEF TypeOK
<1>5. Mailbox(p)' /\ Mailbox(q)' /\ poll'[p] \in PollState(Entry)
  BY <1>1, <1>2, <1>3, <1>4, MailReloaded, MailUntouched
<1>6. TypeOK'
  BY <1>1, <1>2, <1>3, <1>4, <1>5 DEF TypeOK
<1> QED
  BY <1>5, <1>6, BothMailboxes DEF MailInv

\* An envelope delivered again keeps the mail invariant.
LEMMA ReplayKeepsMail ==
    ASSUME MailInv, NEW p \in Party, Replay(p)
    PROVE  MailInv'
<1> DEFINE q == Peer(p)
<1>1. TypeOK /\ Mailbox(p) /\ q \in Party /\ q # p /\ Mailbox(q)
  BY Parties DEF MailInv
<1>2. PICK i \in DOMAIN inbox[p] :
        inbox' = [inbox EXCEPT ![p] = EnqueueEnvelope(inbox[p], nextId[p], inbox[p][i].env)]
  BY DEF Replay
<1>3. /\ nextId' = [nextId EXCEPT ![p] = nextId[p] + 1] /\ cause' = cause \cup {"replayed"}
      /\ UNCHANGED <<mem, disk, poll, keys, sends, handled, saved, rejected, returned, sealed>>
      /\ faults' \in 0 .. MaxFaults
  BY <1>1, FaultCounted DEF Replay, client
<1>4. inbox[p] \in Seq(Entry)
  BY <1>1, UserTypes
<1>5. inbox[p][i] \in Entry
  BY <1>4
<1>6. PICK env \in Envelope : env = inbox[p][i].env
  BY <1>5 DEF Entry
<1>7. /\ inbox'[p] = EnqueueEnvelope(inbox[p], nextId[p], env) /\ nextId'[p] = nextId[p] + 1
      /\ inbox'[q] = inbox[q] /\ nextId'[q] = nextId[q]
  BY <1>1, <1>2, <1>3, <1>6 DEF TypeOK
<1>8. Mailbox(p)' /\ inbox'[p] \in Seq(Entry) /\ nextId'[p] \in Nat \ {0}
  BY <1>1, <1>3, <1>7, MailPosted
<1>9. Mailbox(q)'
  BY <1>1, <1>3, <1>7, MailUntouched
<1>10. /\ inbox' = [inbox EXCEPT ![p] = inbox'[p]] /\ nextId' = [nextId EXCEPT ![p] = nextId'[p]]
  BY <1>2, <1>3, <1>6, <1>7
<1>11. inbox' \in [Party -> Seq(Entry)] /\ nextId' \in [Party -> Nat \ {0}]
  BY <1>1, <1>8, <1>10 DEF TypeOK
<1>12. TypeOK'
  BY <1>1, <1>3, <1>11 DEF TypeOK
<1> QED
  BY <1>8, <1>9, <1>12, BothMailboxes DEF MailInv

----------------------------------------------------------------------------
\* The mailbox invariant.

\* The mail invariant holds before any message.
LEMMA InitialMail == Init => MailInv
<1> SUFFICES ASSUME Init PROVE MailInv
  OBVIOUS
<1>1. Alice \in Party /\ Bob \in Party
  BY DEF Party
<1>2. /\ InitiatorSession(Alice, Bob) \in SessionState
      /\ ResponderSession(Bob, Alice) \in SessionState
  BY <1>1, HandshakeSessions
<1>3. mem \in [Party -> ClientState] /\ \A p \in Party : mem[p].pending = 0
  BY <1>2 DEF Init, ClientState
<1>4. /\ <<>> \in Seq(Entry) /\ <<>> \in Seq(Nat) /\ Ordered(<<>>) /\ InboxIds(<<>>) = {}
  BY EmptyBox
<1>5. Ids({}) = {}
  BY DEF Ids
<1>6. UpTo(<<>>, {}, 0)
  BY <1>4 DEF UpTo
<1>7. Idle \in PollState(Entry) /\ PollOk(Idle, <<>>, {}, 0) /\ Idle.done = 0
  BY <1>6, IdleOk
<1>8. TypeOK
  BY <1>3, <1>4, <1>7, MessagingAssumption DEF Init, TypeOK
<1>9. ASSUME NEW p \in Party PROVE Mailbox(p)
  <2>1. /\ inbox[p] = <<>> /\ nextId[p] = 1 /\ poll[p] = Idle /\ mem[p].pending = 0
        /\ disk[p].pending = 0 /\ handled[p] = {} /\ saved[p] = {}
    BY <1>3 DEF Init
  <2> QED
    <3>1. /\ PollOk(poll[p], inbox[p], Ids(handled[p]), mem[p].pending)
          /\ UpTo(inbox[p], Ids(saved[p]), disk[p].pending)
          /\ Ordered(inbox[p])
      BY <1>4, <1>5, <1>6, <1>7, <2>1
    <3>2. /\ InboxIds(inbox[p]) = {} /\ Ids(handled[p]) = {} /\ Ids(saved[p]) = {}
      BY <1>4, <1>5, <2>1
    <3>3. /\ poll[p].done < nextId[p] /\ mem[p].pending < nextId[p] /\ disk[p].pending < nextId[p]
      BY <1>7, <2>1
    <3> QED
      BY <3>1, <3>2, <3>3 DEF Mailbox
<1> QED
  BY <1>8, <1>9 DEF MailInv

\* Every step keeps the mail invariant.
LEMMA MailStep == MailInv /\ [Next]_vars => MailInv'
<1> SUFFICES ASSUME MailInv, [Next]_vars PROVE MailInv'
  OBVIOUS
<1>1. CASE UNCHANGED vars
  <2>1. UNCHANGED <<mem, disk, inbox, nextId, poll, keys, sends, faults, handled, saved, rejected,
                    returned, sealed, cause>>
    BY <1>1 DEF vars, client, store, history
  <2> QED
    BY <2>1 DEF MailInv, TypeOK, Mailbox
<1>2. CASE Next
  <2>1. PICK p \in Party : Send(p) \/ PollStep(p) \/ DrainInboxFails(p) \/ Restart(p) \/ Replay(p)
    BY <1>2 DEF Next
  <2> QED
    BY <2>1, SendKeepsMail, DrainKeepsMail, DrainFailureKeepsMail, HandleKeepsMail, TurnKeepsMail,
       RestartKeepsMail, ReplayKeepsMail DEF PollStep
<1> QED
  BY <1>1, <1>2

\* However sends, polls, lost answers, failed saves, restarts and replays
\* interleave, each mailbox is ordered, and what a session has handled of it
\* is what the acknowledgement that goes with the session covers: in memory
\* and in the state file, between calls and inside a page.
THEOREM MailInvHolds == Spec => []MailInv
BY InitialMail, MailStep, PTL DEF Spec

\* Every variable keeps its type, for any number of sends and faults.
THEOREM TypeCorrect == Spec => []TypeOK
<1>1. MailInv => TypeOK
  BY DEF MailInv
<1> QED
  BY <1>1, MailInvHolds, PTL

\* No ProcessInbox call looks again at an envelope its session has advanced
\* past, whatever failed or restarted before.
THEOREM NeverHandledTwice == Spec => []NoneHandledTwice
<1>1. MailInv => NoneHandledTwice
  <2> SUFFICES ASSUME MailInv, NEW p \in Party
               PROVE  InboxIds(poll[p].page) \cap Ids(handled[p]) = {}
    BY DEF NoneHandledTwice
  <2>1. TypeOK /\ Mailbox(p)
    BY DEF MailInv
  <2> QED
    BY <2>1, UserTypes, PageUnhandled DEF Mailbox
<1> QED
  BY <1>1, MailInvHolds, PTL

\* What a mailbox held it still holds when mail arrives.
LEMMA PostedIds ==
    ASSUME TypeOK, NEW p \in Party, Mailbox(p), NEW env \in Envelope
    PROVE  InboxIds(inbox[p]) \subseteq InboxIds(EnqueueEnvelope(inbox[p], nextId[p], env))
<1>1. inbox[p] \in Seq(Entry) /\ HasIds(Entry) /\ nextId[p] \in Nat \ {0}
  BY UserTypes
<1>2. [id |-> nextId[p], env |-> env] \in Entry
  BY <1>1 DEF Entry
<1> QED
  BY <1>1, <1>2, Enqueued DEF Mailbox

\* DrainInbox deletes an entry only when the session in memory has handled
\* it, so a refused envelope and those behind it stay in the mailbox.
THEOREM OnlyHandledDeleted == Spec => AckedWasHandled
<1>1. MailInv /\ [Next]_vars =>
        [\A p \in Party : InboxIds(inbox[p]) \ InboxIds(inbox'[p]) \subseteq Ids(handled[p])]_vars
  <2> SUFFICES ASSUME MailInv, Next, NEW p \in Party
               PROVE  InboxIds(inbox[p]) \ InboxIds(inbox'[p]) \subseteq Ids(handled[p])
    OBVIOUS
  <2>1. PICK r \in Party : Send(r) \/ PollStep(r) \/ DrainInboxFails(r) \/ Restart(r) \/ Replay(r)
    BY DEF Next
  <2>2. TypeOK /\ Mailbox(p) /\ Mailbox(r) /\ Mailbox(Peer(r)) /\ Peer(r) \in Party
    BY <2>1, Parties DEF MailInv
  <2>3. CASE Send(r)
    <3>1. CASE Post(r)
      <4>1. PICK causes \in SUBSET {"gap", "stale"} : Encrypt(r, causes)
        BY <2>3 DEF Send, SendMessage, SendMessageUnsaved, SendMessageUnsynced,
                    SendMessageNotPosted, SendMessageCrash
      <4>2. Sealed(r) \in Envelope
        BY <2>1, <2>2, <4>1, EncryptTypes
      <4>3. /\ inbox'[Peer(r)] = EnqueueEnvelope(inbox[Peer(r)], nextId[Peer(r)], Sealed(r))
            /\ inbox'[r] = inbox[r]
        BY <2>1, <2>2, <3>1, <4>2, PostTypes
      <4>4. InboxIds(inbox[Peer(r)]) \subseteq InboxIds(inbox'[Peer(r)])
        BY <2>1, <2>2, <4>2, <4>3, PostedIds
      <4>5. p \in {r, Peer(r)}
        BY <2>1 DEF Party, Peer
      <4> QED
        BY <4>3, <4>4, <4>5
    <3>2. CASE UNCHANGED store
      BY <3>2 DEF store
    <3> QED
      BY <2>3, <3>1, <3>2 DEF Send, SendMessage, SendMessageUnsaved, SendMessageUnsynced,
                              SendMessageNotPosted, SendMessageCrash
  <2>4. CASE DrainInbox(r) \/ DrainInboxFails(r)
    <3>1. /\ inbox \in [Party -> Seq(Entry)]
          /\ \/ inbox' = [inbox EXCEPT ![r] = DropAcked(inbox[r], poll[r].ack)]
             \/ inbox' = inbox
          /\ poll[r].pc = "drain"
      BY <2>2, <2>4 DEF DrainInbox, DrainInboxFails, TypeOK
    <3>2. CASE inbox' = inbox \/ p # r
      BY <3>1, <3>2
    <3>3. CASE p = r /\ inbox' = [inbox EXCEPT ![p] = DropAcked(inbox[p], poll[p].ack)]
      <4>1. /\ inbox[p] \in Seq(Entry) /\ HasIds(Entry) /\ Ordered(inbox[p]) /\ poll[p].ack \in Nat
            /\ UpTo(inbox[p], Ids(handled[p]), poll[p].ack)
        BY <2>2, <3>1, <3>3, UserTypes DEF Mailbox, PollOk
      <4>2. InboxIds(inbox'[p]) = {x \in InboxIds(inbox[p]) : x > poll[p].ack}
        <5>1. inbox'[p] = DropAcked(inbox[p], poll[p].ack)
          BY <3>1, <3>3
        <5> QED
          BY <4>1, <5>1, Dropped
      <4>3. InboxIds(inbox[p]) \subseteq Nat
        BY <4>1, BoxTypes
      <4> QED
        BY <4>1, <4>2, <4>3 DEF UpTo
    <3> QED
      BY <3>1, <3>2, <3>3
  <2>5. CASE Replay(r)
    <3>1. PICK i \in DOMAIN inbox[r] :
            inbox' = [inbox EXCEPT ![r] = EnqueueEnvelope(inbox[r], nextId[r], inbox[r][i].env)]
      BY <2>5 DEF Replay
    <3>2. inbox[r] \in Seq(Entry)
      BY <2>1, <2>2, UserTypes
    <3>3. inbox[r][i] \in Entry
      BY <3>2
    <3>4. PICK env \in Envelope : env = inbox[r][i].env
      BY <3>3 DEF Entry
    <3>5. InboxIds(inbox[r]) \subseteq InboxIds(EnqueueEnvelope(inbox[r], nextId[r], env))
      BY <2>1, <2>2, PostedIds
    <3>6. CASE p = r
      BY <2>2, <3>1, <3>4, <3>5, <3>6 DEF TypeOK
    <3>7. CASE p # r
      BY <2>2, <3>1, <3>7 DEF TypeOK
    <3> QED
      BY <3>6, <3>7
  <2>6. CASE inbox' = inbox
    BY <2>6
  <2>7. HandleEnvelope(r) \/ ProcessInbox(r) \/ GiveUp(r) \/ SaveLocalState(r) \/ Return(r) \/ Restart(r)
          => inbox' = inbox
    BY DEF HandleEnvelope, ProcessInbox, GiveUp, SaveLocalState, Return, Restart, store
  <2> QED
    BY <2>1, <2>3, <2>4, <2>5, <2>6, <2>7 DEF PollStep
<1> QED
  BY <1>1, MailInvHolds, PTL DEF Spec, AckedWasHandled

----------------------------------------------------------------------------
\* What a step does to the sessions, in memory and in the state file, to the
\* envelopes and to the keys used.

\* All that SendMessage changes, whichever of its outcomes happens.
LEMMA SendEffect ==
    ASSUME MailInv, NEW p \in Party, Send(p)
    PROVE  /\ sealed' = sealed \cup {[key |-> Sealed(p).key, body |-> Body(p)]}
           /\ sends' = [sends EXCEPT ![p] = sends[p] + 1]
           /\ keys' = IF RatchetDue(Session(p)) THEN [keys EXCEPT ![p] = keys[p] + 1] ELSE keys
           /\ cause \subseteq cause'
           /\ \A r \in Party : Entries(inbox'[r]) \subseteq
                                 Entries(inbox[r]) \cup {[id |-> nextId[r], env |-> Sealed(p)]}
           /\ \A r \in Party : r # p =>
                /\ mem'[r] = mem[r] /\ handled'[r] = handled[r]
                /\ disk'[r] = disk[r] /\ saved'[r] = saved[r]
           /\ \/ mem'[p].session = AfterSend(Session(p), Fresh(p)) /\ handled'[p] = handled[p]
              \/ mem'[p] = disk[p] /\ handled'[p] = saved[p] /\ "stale" \in cause'
           /\ \/ disk'[p] = disk[p] /\ saved'[p] = saved[p]
              \/ disk'[p] = mem'[p] /\ saved'[p] = handled'[p]
<1>1. TypeOK /\ Mailbox(Peer(p)) /\ Peer(p) \in Party /\ Peer(p) # p
  BY Parties DEF MailInv
<1>2. PICK causes \in SUBSET {"gap", "stale"} : Encrypt(p, causes)
  BY DEF Send, SendMessage, SendMessageUnsaved, SendMessageUnsynced, SendMessageNotPosted,
         SendMessageCrash
<1>3. Sealed(p) \in Envelope
  BY <1>1, <1>2, EncryptTypes
<1>4. /\ sealed' = sealed \cup {[key |-> Sealed(p).key, body |-> Body(p)]}
      /\ sends' = [sends EXCEPT ![p] = sends[p] + 1]
      /\ keys' = IF RatchetDue(Session(p)) THEN [keys EXCEPT ![p] = keys[p] + 1] ELSE keys
      /\ cause \subseteq cause'
  BY <1>2 DEF Encrypt
<1>5. \A r \in Party : Entries(inbox'[r]) \subseteq
                         Entries(inbox[r]) \cup {[id |-> nextId[r], env |-> Sealed(p)]}
  <2>1. CASE Post(p)
    <3>1. /\ inbox'[Peer(p)] = EnqueueEnvelope(inbox[Peer(p)], nextId[Peer(p)], Sealed(p))
          /\ inbox'[p] = inbox[p]
      BY <1>1, <1>3, <2>1, PostTypes
    <3>2. inbox[Peer(p)] \in Seq(Entry) /\ HasIds(Entry) /\ nextId[Peer(p)] \in Nat \ {0}
      BY <1>1, UserTypes
    <3>3. [id |-> nextId[Peer(p)], env |-> Sealed(p)] \in Entry
      BY <1>3, <3>2 DEF Entry
    <3>4. Entries(inbox'[Peer(p)]) =
            Entries(inbox[Peer(p)]) \cup {[id |-> nextId[Peer(p)], env |-> Sealed(p)]}
      BY <1>1, <3>1, <3>2, <3>3, Enqueued DEF Mailbox
    <3>5. \A r \in Party : r = p \/ r = Peer(p)
      BY DEF Party, Peer
    <3> QED
      BY <3>1, <3>4, <3>5
  <2>2. CASE UNCHANGED store
    BY <2>2 DEF store
  <2> QED
    BY <2>1, <2>2 DEF Send, SendMessage, SendMessageUnsaved, SendMessageUnsynced,
                      SendMessageNotPosted, SendMessageCrash
<1>6. CASE Advance(p) /\ (Save(p) \/ UNCHANGED <<disk, saved>>)
  <2>1. /\ mem' \in [Party -> ClientState] /\ handled' = handled
        /\ mem'[p].session = AfterSend(Session(p), Fresh(p))
        /\ \A r \in Party : r # p => mem'[r] = mem[r]
    BY <1>1, <1>6, AdvanceTypes
  <2>2. /\ \A r \in Party : r # p => disk'[r] = disk[r] /\ saved'[r] = saved[r]
        /\ \/ disk'[p] = disk[p] /\ saved'[p] = saved[p]
           \/ disk'[p] = mem'[p] /\ saved'[p] = handled'[p]
    BY <1>1, <1>6, <2>1, SaveTypes
  <2> QED
    BY <1>4, <1>5, <2>1, <2>2
<1>7. CASE Reload(p) /\ UNCHANGED <<disk, saved>> /\ Encrypt(p, {"stale"})
  <2>1. /\ mem'[p] = disk[p] /\ handled'[p] = saved[p]
        /\ \A r \in Party : r # p => mem'[r] = mem[r] /\ handled'[r] = handled[r]
    BY <1>1, <1>7, ReloadTypes
  <2>2. "stale" \in cause'
    BY <1>7 DEF Encrypt
  <2> QED
    BY <1>4, <1>5, <1>7, <2>1, <2>2
<1> QED
  BY <1>6, <1>7 DEF Send, SendMessage, SendMessageUnsaved, SendMessageUnsynced,
                    SendMessageNotPosted, SendMessageCrash

\* HandleChatMessage of the envelope at the head of the page.
HandleEffect(p, item) ==
    /\ mem'[p].session = HandleChatMessage(mem[p].session, item.env)
    /\ handled'[p] = IF Accepts(mem[p].session, item.env)
                     THEN handled[p] \cup {[id |-> item.id, body |-> item.env.body]}
                     ELSE handled[p]

\* All that the other steps change.
LEMMA OtherEffect ==
    ASSUME MailInv, [Next]_vars, \A p \in Party : ~Send(p)
    PROVE  /\ sealed' = sealed /\ sends' = sends /\ keys' = keys /\ cause \subseteq cause'
           /\ \A r \in Party : \A e \in Entries(inbox'[r]) : \E d \in Entries(inbox[r]) : e.env = d.env
           /\ \A r \in Party :
                \/ mem'[r].session = mem[r].session /\ handled'[r] = handled[r]
                \/ /\ mem'[r] = disk[r] /\ handled'[r] = saved[r]
                   /\ "stale" \in cause' \/ disk[r].session.sendChain = mem[r].session.sendChain
                \/ \E item \in Entries(inbox[r]) : HandleEffect(r, item)
           /\ \A r \in Party :
                \/ disk'[r] = disk[r] /\ saved'[r] = saved[r]
                \/ disk'[r] = mem[r] /\ saved'[r] = handled[r]
<1>1. TypeOK
  BY DEF MailInv
<1>2. CASE UNCHANGED <<mem, inbox, handled, disk, saved, sealed, sends, keys, cause>>
  BY <1>2
<1>3. CASE \E p \in Party : DrainInbox(p) \/ DrainInboxFails(p)
  <2>1. PICK p \in Party : DrainInbox(p) \/ DrainInboxFails(p)
    BY <1>3
  <2>2. /\ inbox[p] \in Seq(Entry) /\ HasIds(Entry) /\ Ordered(inbox[p]) /\ poll[p].ack \in Nat
        /\ inbox \in [Party -> Seq(Entry)] /\ mem \in [Party -> ClientState]
    BY <1>1, <2>1, UserTypes DEF MailInv, Mailbox, TypeOK
  <2>3. PICK left : left = DropAcked(inbox[p], poll[p].ack)
    OBVIOUS
  <2>4. Entries(left) \subseteq Entries(inbox[p])
    BY <2>2, <2>3, Dropped
  <2>5. inbox' = [inbox EXCEPT ![p] = left] \/ inbox' = inbox
    BY <2>1, <2>3 DEF DrainInbox, DrainInboxFails
  <2>6. \A r \in Party : Entries(inbox'[r]) \subseteq Entries(inbox[r])
    BY <2>2, <2>4, <2>5
  <2>7. \A r \in Party : mem'[r].session = mem[r].session
    <3>1. PICK n : mem' = [mem EXCEPT ![p].pending = n]
      BY <2>1 DEF DrainInbox, DrainInboxFails
    <3> QED
      BY <2>2, <3>1 DEF ClientState
  <2>8. UNCHANGED <<handled, disk, saved, sealed, sends, keys, cause>>
    BY <2>1 DEF DrainInbox, DrainInboxFails, history
  <2> QED
    BY <2>6, <2>7, <2>8
<1>4. CASE \E p \in Party : HandleEnvelope(p)
  <2>1. PICK p \in Party : HandleEnvelope(p)
    BY <1>4
  <2>2. PICK item : item = Head(poll[p].page)
    OBVIOUS
  <2>3. item \in Entries(inbox[p])
    BY <1>1, <2>1, <2>2, UserTypes, HandledOk DEF MailInv, Mailbox, HandleEnvelope
  <2>4. /\ mem \in [Party -> ClientState]
        /\ handled \in [Party -> SUBSET [id : Nat, body : Party \X Nat]]
    BY <1>1 DEF TypeOK
  <2>5. PICK n : mem' = [mem EXCEPT ![p] = [session |-> HandleChatMessage(mem[p].session, item.env),
                                           pending |-> n]]
    BY <2>1, <2>2 DEF HandleEnvelope
  <2>6. mem'[p].session = HandleChatMessage(mem[p].session, item.env)
        /\ \A r \in Party : r # p => mem'[r] = mem[r]
    BY <2>4, <2>5
  <2>7. /\ handled'[p] = IF Accepts(mem[p].session, item.env)
                         THEN handled[p] \cup {[id |-> item.id, body |-> item.env.body]}
                         ELSE handled[p]
        /\ \A r \in Party : r # p => handled'[r] = handled[r]
    <3>1. CASE Accepts(mem[p].session, item.env)
      <4>1. handled' = [handled EXCEPT ![p] = handled[p] \cup {[id |-> item.id, body |-> item.env.body]}]
        BY <2>1, <2>2, <3>1 DEF HandleEnvelope, Session
      <4> QED
        BY <2>4, <3>1, <4>1
    <3>2. CASE ~Accepts(mem[p].session, item.env)
      <4>1. handled' = handled
        BY <2>1, <2>2, <3>2 DEF HandleEnvelope, Session
      <4> QED
        BY <3>2, <4>1
    <3> QED
      BY <3>1, <3>2
  <2>8. HandleEffect(p, item)
    BY <2>6, <2>7 DEF HandleEffect
  <2>9. UNCHANGED <<inbox, disk, saved, sealed, sends, keys, cause>>
    BY <2>1 DEF HandleEnvelope, store
  <2> QED
    BY <2>3, <2>6, <2>7, <2>8, <2>9
<1>5. CASE \E p \in Party : ProcessInbox(p) \/ GiveUp(p) \/ Return(p)
  BY <1>2, <1>5 DEF ProcessInbox, GiveUp, Return, store, history
<1>6. CASE \E p \in Party : SaveLocalState(p)
  <2>1. PICK p \in Party : SaveLocalState(p)
    BY <1>6
  <2>2. UNCHANGED <<mem, inbox, handled, sealed, sends, keys, cause>>
    BY <2>1 DEF SaveLocalState, store
  <2>3. mem' \in [Party -> ClientState]
    BY <1>1, <2>2 DEF TypeOK
  <2>4. CASE Save(p)
    <3>1. /\ disk'[p] = mem[p] /\ saved'[p] = handled[p]
          /\ \A r \in Party : r # p => disk'[r] = disk[r] /\ saved'[r] = saved[r]
      BY <1>1, <2>1, <2>2, <2>3, <2>4, SaveTypes
    <3> QED
      BY <2>2, <3>1
  <2>5. CASE UNCHANGED <<disk, saved>>
    BY <2>2, <2>5
  <2> QED
    BY <2>1, <2>4, <2>5 DEF SaveLocalState
<1>7. CASE \E p \in Party : Restart(p)
  <2>1. PICK p \in Party : Restart(p)
    BY <1>7
  <2>2. /\ mem'[p] = disk[p] /\ handled'[p] = saved[p]
        /\ \A r \in Party : r # p => mem'[r] = mem[r] /\ handled'[r] = handled[r]
    BY <1>1, <2>1, ReloadTypes DEF Restart
  <2>3. UNCHANGED <<inbox, disk, saved, sealed, sends, keys>> /\ cause \subseteq cause'
    BY <2>1 DEF Restart, store
  <2>4. "stale" \in cause' \/ disk[p].session.sendChain = mem[p].session.sendChain
    BY <2>1 DEF Restart, StaleRestart, Session
  <2> QED
    BY <2>2, <2>3, <2>4
<1>8. CASE \E p \in Party : Replay(p)
  <2>1. PICK p \in Party : Replay(p)
    BY <1>8
  <2>2. PICK i \in DOMAIN inbox[p] :
          inbox' = [inbox EXCEPT ![p] = EnqueueEnvelope(inbox[p], nextId[p], inbox[p][i].env)]
    BY <2>1 DEF Replay
  <2>3. /\ inbox[p] \in Seq(Entry) /\ HasIds(Entry) /\ Ordered(inbox[p]) /\ nextId[p] \in Nat \ {0}
        /\ inbox \in [Party -> Seq(Entry)] /\ \A x \in InboxIds(inbox[p]) : x < nextId[p]
    BY <1>1, <2>1, UserTypes DEF MailInv, Mailbox, TypeOK
  <2>4. PICK d : d = inbox[p][i]
    OBVIOUS
  <2>5. d \in Entry /\ d \in Entries(inbox[p])
    BY <2>3, <2>4 DEF Entries
  <2>6. PICK e : e = [id |-> nextId[p], env |-> d.env]
    OBVIOUS
  <2>7. e \in Entry /\ e.env = d.env
    BY <2>3, <2>5, <2>6 DEF Entry
  <2>8. Entries(EnqueueEnvelope(inbox[p], nextId[p], d.env)) = Entries(inbox[p]) \cup {e}
    BY <2>3, <2>6, <2>7, Enqueued
  <2>9. \A r \in Party : \A f \in Entries(inbox'[r]) : \E g \in Entries(inbox[r]) : f.env = g.env
    BY <2>2, <2>3, <2>4, <2>5, <2>7, <2>8
  <2>10. UNCHANGED <<mem, handled, disk, saved, sealed, sends, keys>> /\ cause \subseteq cause'
    BY <2>1 DEF Replay, client
  <2> QED
    BY <2>9, <2>10
<1>9. CASE UNCHANGED vars
  BY <1>2, <1>9 DEF vars, client, store, history
<1> QED
  BY <1>3, <1>4, <1>5, <1>6, <1>7, <1>8, <1>9 DEF Next, PollStep

----------------------------------------------------------------------------
\* A ciphertext is opened once.

\* The chain key c was left behind before the chain key d.
Before(c, d) ==
    \/ Len(c.path) < Len(d.path)
    \/ Len(c.path) = Len(d.path) /\ Len(c.used) < Len(d.used)

\* The receiving chain is past the key of everything the session has handled.
Opened(s, envelopes) ==
    /\ Len(s.recvChain.path) <= Len(s.root)
    /\ \A h \in envelopes : \E x \in sealed : x.body = h.body /\ Before(x.key[1], s.recvChain)
    /\ \A g, h \in envelopes : g.body = h.body => g = h

\* An envelope of a mailbox was sealed by a SendMessage call, and each call
\* seals a body of its own.
FromSends ==
    /\ \A x \in sealed : x.body[2] <= sends[x.body[1]]
    /\ \A x, y \in sealed : x.body = y.body => x = y
    /\ \A p \in Party : \A e \in Entries(inbox[p]) : [key |-> e.env.key, body |-> e.env.body] \in sealed

OpenInv ==
    /\ MailInv
    /\ FromSends
    /\ \A p \in Party : Opened(mem[p].session, handled[p]) /\ Opened(disk[p].session, saved[p])

\* Receiving only moves the receiving chain on, and what is accepted was
\* sealed with a key the chain had not left yet.
LEMMA ChainMovesOn ==
    ASSUME NEW s \in SessionState, NEW env \in Envelope, Len(s.recvChain.path) <= Len(s.root)
    PROVE  /\ Len(HandleChatMessage(s, env).recvChain.path) <= Len(HandleChatMessage(s, env).root)
           /\ \A c \in ChainKey : Before(c, s.recvChain) => Before(c, HandleChatMessage(s, env).recvChain)
           /\ Accepts(s, env) => /\ ~Before(env.key[1], s.recvChain)
                                 /\ Before(env.key[1], HandleChatMessage(s, env).recvChain)
<1>1. PICK r : r = RatchetReceive(s, env)
  OBVIOUS
<1>2. PICK h : h = HandleChatMessage(s, env)
  OBVIOUS
<1>3. /\ r \in SessionState /\ h \in SessionState /\ h.root = r.root
      /\ Accepts(s, env) => env.key[1] = r.recvChain
                            /\ h.recvChain = NextChain(r.recvChain, r.recvCounter)
      /\ ~Accepts(s, env) => h = r
  BY <1>1, <1>2, RatchetedTypes, HandledTypes
<1>4. \A t \in SessionState : /\ t.root \in RootKey /\ t.recvChain \in ChainKey /\ t.recvCounter \in Nat
  BY DEF SessionState
<1>5. \A c \in ChainKey : Len(c.path) \in Nat /\ Len(c.used) \in Nat
  BY DEF ChainKey, RootKey
<1>6. \A t \in SessionState : Len(t.root) \in Nat
  BY <1>4 DEF RootKey
<1>7. \/ r.recvChain = s.recvChain /\ r.root = s.root
      \/ Len(r.root) = Len(s.root) + 1 /\ Len(r.recvChain.path) = Len(r.root)
  <2>1. CASE r = s
    BY <2>1
  <2>2. CASE /\ env.ratchet \in RatchetKey
             /\ r.root = Append(s.root, SharedSecret(s.local, env.ratchet))
             /\ r.recvChain = NewChain("ratchet", Append(s.root, SharedSecret(s.local, env.ratchet)))
    <3>1. s.root \in RootKey /\ s.local \in RatchetKey
      BY DEF SessionState
    <3>2. r.root \in RootKey /\ Len(r.root) = Len(s.root) + 1 /\ r.recvChain = NewChain("ratchet", r.root)
      BY <2>2, <3>1, Derived
    <3> QED
      BY <3>2, ChainTypes
  <2> QED
    BY <1>1, <2>1, <2>2, RatchetedTypes
<1>8. /\ Len(r.recvChain.path) <= Len(r.root)
      /\ \A c \in ChainKey : Before(c, s.recvChain) => Before(c, r.recvChain)
      /\ ~Before(r.recvChain, s.recvChain)
  BY <1>3, <1>4, <1>5, <1>6, <1>7 DEF Before
<1>9. CASE Accepts(s, env)
  <2>1. /\ h.recvChain \in ChainKey /\ h.recvChain.path = r.recvChain.path
        /\ Len(h.recvChain.used) = Len(r.recvChain.used) + 1
    <3>1. PICK c \in ChainKey, n \in Nat : c = r.recvChain /\ n = r.recvCounter
      BY <1>3, <1>4
    <3>2. h.recvChain = NextChain(c, n)
      BY <1>3, <1>9, <3>1
    <3> QED
      BY <3>1, <3>2, NextTypes
  <2>2. \A c \in ChainKey : Before(c, r.recvChain) => Before(c, h.recvChain)
    BY <1>3, <1>4, <1>5, <2>1 DEF Before
  <2>3. Before(r.recvChain, h.recvChain)
    BY <1>3, <1>4, <1>5, <2>1 DEF Before
  <2> QED
    BY <1>2, <1>3, <1>8, <1>9, <2>1, <2>2, <2>3
<1>10. CASE ~Accepts(s, env)
  BY <1>2, <1>3, <1>8, <1>10
<1> QED
  BY <1>9, <1>10

\* A send opens nothing.
LEMMA OpenedBySend ==
    ASSUME NEW s \in SessionState, NEW fresh \in RatchetKey, NEW envelopes, Opened(s, envelopes)
    PROVE  Opened(AfterSend(s, fresh), envelopes)
<1>1. /\ AfterSend(s, fresh).recvChain = s.recvChain
      /\ AfterSend(s, fresh).root = SendingSession(s, fresh).root
  BY SentTypes
<1>2. s.root \in RootKey /\ s.remote \in RatchetKey /\ s.recvChain \in ChainKey
  BY DEF SessionState
<1>3. Len(s.root) \in Nat /\ Len(s.recvChain.path) \in Nat
  BY <1>2 DEF RootKey, ChainKey
<1>4. Len(SendingSession(s, fresh).root) \in {Len(s.root), Len(s.root) + 1}
  BY <1>2, SendingTypes, Derived
<1> QED
  BY <1>1, <1>3, <1>4 DEF Opened

\* More keys used leave it true.
LEMMA OpenedLater ==
    ASSUME NEW s, NEW envelopes, Opened(s, envelopes), sealed \subseteq sealed'
    PROVE  Opened(s, envelopes)'
BY DEF Opened

\* An accepted envelope is opened with a key the chain has then left behind.
LEMMA OpenedByHandling ==
    ASSUME TypeOK, FromSends, NEW p \in Party, NEW item \in Entries(inbox[p]),
           Opened(mem[p].session, handled[p]), HandleEffect(p, item)
    PROVE  Opened(mem'[p].session, handled'[p])
<1> DEFINE s == mem[p].session
           after == mem'[p].session
           new == [id |-> item.id, body |-> item.env.body]
           used == [key |-> item.env.key, body |-> item.env.body]
<1>1. s \in SessionState /\ inbox[p] \in Seq(Entry) /\ HasIds(Entry)
  BY UserTypes DEF Session
<1>2. item \in Entry
  BY <1>1, BoxTypes
<1>3. item.env \in Envelope
  BY <1>2 DEF Entry
<1>4. after = HandleChatMessage(s, item.env)
  BY DEF HandleEffect
<1>5. Len(s.recvChain.path) <= Len(s.root)
  BY DEF Opened
<1>6. /\ Len(after.recvChain.path) <= Len(after.root)
      /\ \A c \in ChainKey : Before(c, s.recvChain) => Before(c, after.recvChain)
      /\ Accepts(s, item.env) => /\ ~Before(item.env.key[1], s.recvChain)
                                 /\ Before(item.env.key[1], after.recvChain)
  BY <1>1, <1>3, <1>4, <1>5, ChainMovesOn
<1>7. used \in sealed /\ used.body = new.body /\ used.key = item.env.key
  BY DEF FromSends
<1>8. \A x \in sealed : x.key[1] \in ChainKey
  BY DEF TypeOK
<1>9. \A h \in handled[p] : \E x \in sealed : x.body = h.body /\ Before(x.key[1], s.recvChain)
  BY DEF Opened
<1>10. \A h \in handled[p] : \E x \in sealed : x.body = h.body /\ Before(x.key[1], after.recvChain)
  <2> HIDE DEF after, s
  <2> QED
    BY <1>6, <1>8, <1>9
<1>11. CASE Accepts(s, item.env)
  <2>1. handled'[p] = handled[p] \cup {new}
    BY <1>11 DEF HandleEffect
  <2>2. \A h \in handled[p] : h.body # new.body
    <3> SUFFICES ASSUME NEW h \in handled[p], h.body = new.body PROVE FALSE
      OBVIOUS
    <3>1. PICK x \in sealed : x.body = h.body /\ Before(x.key[1], s.recvChain)
      BY <1>9
    <3>2. x = used
      BY <1>7, <3>1 DEF FromSends
    <3> QED
      BY <1>6, <1>7, <1>11, <3>1, <3>2
  <2>3. \A g, h \in handled[p] : g.body = h.body => g = h
    BY DEF Opened
  <2> HIDE DEF s, after, new, used
  <2>4. \A g, h \in handled[p] \cup {new} : g.body = h.body => g = h
    BY <2>2, <2>3
  <2>5. \A h \in handled[p] \cup {new} : \E x \in sealed : x.body = h.body /\ Before(x.key[1], after.recvChain)
    BY <1>6, <1>7, <1>10, <1>11
  <2>6. Opened(after, handled[p] \cup {new})
    BY <1>6, <2>4, <2>5 DEF Opened
  <2> QED
    BY <2>1, <2>6 DEF after
<1>12. CASE ~Accepts(s, item.env)
  <2>1. handled'[p] = handled[p]
    BY <1>12 DEF HandleEffect
  <2>2. Opened(after, handled[p])
    <3>1. \A g, h \in handled[p] : g.body = h.body => g = h
      BY DEF Opened
    <3> HIDE DEF s, after, new, used
    <3> QED
      BY <1>6, <1>10, <3>1 DEF Opened
  <2> QED
    BY <2>1, <2>2
<1> QED
  BY <1>11, <1>12

\* Nothing is opened before any message.
LEMMA InitialOpened == Init => OpenInv
<1> SUFFICES ASSUME Init PROVE OpenInv
  OBVIOUS
<1>1. MailInv
  BY InitialMail
<1>2. FromSends
  BY EmptyBox DEF Init, FromSends
<1>3. ASSUME NEW p \in Party PROVE Opened(mem[p].session, {})
  <2>1. /\ HandshakeKeys.root = <<>> /\ HandshakeKeys.c1 \in ChainKey /\ HandshakeKeys.c2 \in ChainKey
        /\ HandshakeKeys.c1.path = <<>> /\ HandshakeKeys.c2.path = <<>>
    BY EmptyBox, ChainTypes DEF HandshakeKeys, RootKey
  <2>2. NextChain(HandshakeKeys.c1, 0).path = <<>>
    BY <2>1, NextTypes
  <2>3. mem[p].session.recvChain.path = <<>> /\ mem[p].session.root = <<>>
    BY <2>1, <2>2 DEF Init, InitiatorSession, ResponderSession
  <2>4. Len(<<>>) <= Len(<<>>)
    OBVIOUS
  <2> QED
    BY <2>3, <2>4 DEF Opened
<1>4. disk = mem /\ \A p \in Party : handled[p] = {} /\ saved[p] = {}
  BY DEF Init
<1> QED
  BY <1>1, <1>2, <1>3, <1>4 DEF OpenInv

\* Every step keeps the opened envelopes behind the chains.
LEMMA OpenedStep == OpenInv /\ [Next]_vars => OpenInv'
<1> SUFFICES ASSUME OpenInv, [Next]_vars PROVE OpenInv'
  OBVIOUS
<1>1. MailInv /\ MailInv' /\ TypeOK /\ FromSends
  BY MailStep DEF OpenInv, MailInv
<1>2. \A r \in Party : Opened(mem[r].session, handled[r]) /\ Opened(disk[r].session, saved[r])
  BY DEF OpenInv
<1>3. CASE \E p \in Party : Send(p)
  <2>1. PICK p \in Party : Send(p)
    BY <1>3
  <2>2. PICK new : new = [key |-> Sealed(p).key, body |-> Body(p)]
    OBVIOUS
  <2>3. /\ sealed' = sealed \cup {new}
        /\ sends' = [sends EXCEPT ![p] = sends[p] + 1]
        /\ \A r \in Party : Entries(inbox'[r]) \subseteq
                              Entries(inbox[r]) \cup {[id |-> nextId[r], env |-> Sealed(p)]}
        /\ \A r \in Party : r # p =>
             /\ mem'[r] = mem[r] /\ handled'[r] = handled[r]
             /\ disk'[r] = disk[r] /\ saved'[r] = saved[r]
        /\ \/ mem'[p].session = AfterSend(Session(p), Fresh(p)) /\ handled'[p] = handled[p]
           \/ mem'[p] = disk[p] /\ handled'[p] = saved[p]
        /\ \/ disk'[p] = disk[p] /\ saved'[p] = saved[p]
           \/ disk'[p] = mem'[p] /\ saved'[p] = handled'[p]
    BY <1>1, <2>1, <2>2, SendEffect
  <2>4. /\ Session(p) = mem[p].session /\ Session(p) \in SessionState /\ Fresh(p) \in RatchetKey
        /\ Body(p) = <<p, sends[p] + 1>> /\ Body(p) \in Party \X Nat
        /\ sends \in [Party -> Nat] /\ sealed \subseteq [key : ChainKey \X Nat, body : Party \X Nat]
    BY <1>1, UserTypes DEF Session, Body, TypeOK
  <2>5. Opened(AfterSend(Session(p), Fresh(p)), handled[p])
    BY <1>2, <2>4, OpenedBySend
  <2>6. \A r \in Party : Opened(mem'[r].session, handled'[r]) /\ Opened(disk'[r].session, saved'[r])
    BY <1>2, <2>3, <2>5
  <2>7. \A r \in Party : (Opened(mem[r].session, handled[r]) /\ Opened(disk[r].session, saved[r]))'
    BY <2>3, <2>6 DEF Opened
  <2>8. new.body = Body(p) /\ Sealed(p).body = Body(p) /\ new.key = Sealed(p).key
    BY <2>2, <2>4, SealedTypes DEF Sealed
  <2>9. \A x \in sealed' : x.body[2] <= sends'[x.body[1]]
    BY <2>3, <2>4, <2>8 DEF FromSends, OpenInv
  <2>10. \A x \in sealed : x.body # new.body
    BY <1>1, <2>4, <2>8 DEF FromSends
  <2>11. \A x, y \in sealed' : x.body = y.body => x = y
    BY <1>1, <2>3, <2>10 DEF FromSends
  <2>12. \A r \in Party : \A e \in Entries(inbox'[r]) : [key |-> e.env.key, body |-> e.env.body] \in sealed'
    <3> SUFFICES ASSUME NEW r \in Party, NEW e \in Entries(inbox'[r])
                 PROVE  [key |-> e.env.key, body |-> e.env.body] \in sealed'
      OBVIOUS
    <3>1. CASE e \in Entries(inbox[r])
      BY <1>1, <2>3, <3>1 DEF FromSends
    <3>2. CASE e = [id |-> nextId[r], env |-> Sealed(p)]
      BY <2>2, <2>3, <2>8, <3>2
    <3> QED
      BY <2>3, <3>1, <3>2
  <2>13. FromSends'
    BY <2>9, <2>11, <2>12 DEF FromSends
  <2> QED
    BY <1>1, <2>7, <2>13 DEF OpenInv
<1>4. CASE \A p \in Party : ~Send(p)
  <2>1. /\ sealed' = sealed /\ sends' = sends
        /\ \A r \in Party : \A e \in Entries(inbox'[r]) : \E d \in Entries(inbox[r]) : e.env = d.env
        /\ \A r \in Party :
             \/ mem'[r].session = mem[r].session /\ handled'[r] = handled[r]
             \/ mem'[r] = disk[r] /\ handled'[r] = saved[r]
             \/ \E item \in Entries(inbox[r]) : HandleEffect(r, item)
        /\ \A r \in Party :
             \/ disk'[r] = disk[r] /\ saved'[r] = saved[r]
             \/ disk'[r] = mem[r] /\ saved'[r] = handled[r]
    BY <1>1, <1>4, OtherEffect
  <2>2. FromSends'
    BY <1>1, <2>1 DEF FromSends
  <2>3. \A r \in Party : Opened(mem'[r].session, handled'[r])
    BY <1>1, <1>2, <2>1, OpenedByHandling
  <2>4. \A r \in Party : Opened(disk'[r].session, saved'[r])
    BY <1>2, <2>1
  <2>5. \A r \in Party : (Opened(mem[r].session, handled[r]) /\ Opened(disk[r].session, saved[r]))'
    BY <2>1, <2>3, <2>4 DEF Opened
  <2> QED
    BY <1>1, <2>2, <2>5 DEF OpenInv
<1> QED
  BY <1>3, <1>4

\* A ciphertext is decrypted at most once in the life of a session, however
\* often the mailbox holds it and however the client restarts: the receiving
\* chain, in memory as in the state file, is past the key of everything its
\* session has handled.
THEOREM OpenedAtMostOnce == Spec => []OpenedOnce
<1>1. OpenInv => OpenedOnce
  BY DEF OpenInv, Opened, OpenedOnce
<1> QED
  BY <1>1, InitialOpened, OpenedStep, PTL DEF Spec

----------------------------------------------------------------------------
\* A message key is used once.

\* The ratchet keys generated so far.
Generated == {k \in RatchetKey : k[2] <= keys[k[1]]}

\* A session and an envelope made of such keys.
MadeOf(K, s) ==
    /\ s.root \in Seq(SUBSET K) /\ s.sendChain.path \in Seq(SUBSET K)
    /\ s.local \in K /\ s.remote \in K

KeysGenerated ==
    /\ \A p \in Party : MadeOf(Generated, mem[p].session) /\ MadeOf(Generated, disk[p].session)
    /\ \A p \in Party : \A e \in Entries(inbox[p]) : e.env.ratchet \in Generated \cup {NoKey}
    /\ \A x \in sealed : x.key[1].path \in Seq(SUBSET Generated)

\* Two chain keys of one chain.
SameChain(c, d) == c.label = d.label /\ c.path = d.path

\* A user's sending chain is past every key the user sealed with, and the peer
\* neither has nor had a key of it.
SealsAhead ==
    /\ \A p \in Party : ~SameChain(mem[p].session.sendChain, mem[Peer(p)].session.sendChain)
    /\ \A p \in Party : \A x \in sealed :
         SameChain(x.key[1], mem[p].session.sendChain) =>
           x.body[1] = p /\ Len(x.key[1].used) < Len(mem[p].session.sendChain.used)
    /\ MessageKeyUnique

KeyInv == MailInv /\ KeysGenerated /\ ("stale" \notin cause => SealsAhead)

\* A root key of some ratchet keys is one of more of them.
LEMMA MorePaths ==
    ASSUME NEW K, NEW L, K \subseteq L, NEW path \in Seq(SUBSET K)
    PROVE  path \in Seq(SUBSET L)
<1>1. \A i \in 1 .. Len(path) : path[i] \in SUBSET L
  OBVIOUS
<1> QED
  BY <1>1

\* A session made of some ratchet keys is made of more of them.
LEMMA MoreKeys ==
    ASSUME NEW K, NEW L, K \subseteq L, NEW s, MadeOf(K, s)
    PROVE  MadeOf(L, s)
BY MorePaths DEF MadeOf

\* A path that ends with a new key is new.
LEMMA NewPath ==
    ASSUME NEW K, NEW root \in RootKey, NEW k \in RatchetKey, NEW l \in RatchetKey, k \notin K,
           NEW path \in Seq(SUBSET K)
    PROVE  path # Append(root, SharedSecret(k, l))
<1>1. PICK new : new = Append(root, SharedSecret(k, l))
  OBVIOUS
<1>2. SharedSecret(k, l) \in SUBSET RatchetKey /\ k \in SharedSecret(k, l)
  BY DEF SharedSecret
<1>3. new \in Seq(SUBSET RatchetKey) /\ Len(new) = Len(root) + 1 /\ new[Len(new)] = SharedSecret(k, l)
  BY <1>1, <1>2 DEF RootKey
<1>4. Len(root) \in Nat
  BY DEF RootKey
<1>5. ASSUME path = new PROVE FALSE
  <2>1. Len(path) \in 1 .. Len(path)
    BY <1>3, <1>4, <1>5
  <2>2. path[Len(path)] \in SUBSET K
    BY <2>1
  <2> QED
    BY <1>2, <1>3, <1>5, <2>2
<1> QED
  BY <1>1, <1>5

\* Sending.
LEMMA MadeBySend ==
    ASSUME NEW K \in SUBSET RatchetKey, NEW L \in SUBSET RatchetKey, K \subseteq L,
           NEW s \in SessionState, MadeOf(K, s), NEW fresh \in RatchetKey,
           RatchetDue(s) => fresh \in L
    PROVE  /\ MadeOf(L, AfterSend(s, fresh))
           /\ SendingSession(s, fresh).sendChain.path \in Seq(SUBSET L)
           /\ AfterSend(s, fresh).sendChain.path = SendingSession(s, fresh).sendChain.path
           /\ AfterSend(s, fresh).sendChain.label = SendingSession(s, fresh).sendChain.label
           /\ Len(AfterSend(s, fresh).sendChain.used) = Len(SendingSession(s, fresh).sendChain.used) + 1
<1>1. PICK r : r = SendingSession(s, fresh)
  OBVIOUS
<1>2. PICK t : t = AfterSend(s, fresh)
  OBVIOUS
<1>3. /\ r \in SessionState /\ r.remote = s.remote /\ t.remote = s.remote
      /\ t.root = r.root /\ t.local = r.local /\ t.sendChain = NextChain(r.sendChain, r.sendCounter)
  BY <1>1, <1>2, SendingTypes, SentTypes
<1>4. r.sendChain \in ChainKey /\ r.sendCounter \in Nat
  BY <1>3 DEF SessionState
<1>5. /\ t.sendChain.path = r.sendChain.path /\ t.sendChain.label = r.sendChain.label
      /\ Len(t.sendChain.used) = Len(r.sendChain.used) + 1
  BY <1>3, <1>4, NextTypes
<1>6. r.root \in Seq(SUBSET L) /\ r.sendChain.path \in Seq(SUBSET L) /\ r.local \in L /\ r.remote \in L
  <2>1. CASE RatchetDue(s)
    <3>1. PICK dh : dh = SharedSecret(fresh, s.remote)
      OBVIOUS
    <3>2. s.root \in Seq(SUBSET L) /\ s.root \in RootKey /\ s.remote \in L /\ s.remote \in RatchetKey
          /\ fresh \in L
      BY <2>1, MorePaths DEF MadeOf, SessionState
    <3>3. dh \in SUBSET L
      BY <3>1, <3>2 DEF SharedSecret
    <3>4. Append(s.root, dh) \in Seq(SUBSET L)
      BY <3>2, <3>3
    <3>5. Append(s.root, dh) \in RootKey
      BY <3>1, <3>2, Derived
    <3>6. /\ r.root = Append(s.root, dh) /\ r.sendChain = NewChain("ratchet", Append(s.root, dh))
          /\ r.local = fresh
      BY <1>1, <2>1, <3>1, SendingTypes
    <3>7. r.sendChain.path = Append(s.root, dh)
      BY <3>5, <3>6, ChainTypes
    <3> QED
      BY <1>3, <3>2, <3>4, <3>6, <3>7
  <2>2. CASE ~RatchetDue(s)
    <3>1. r = s
      BY <1>1, <2>2, SendingTypes
    <3> QED
      BY <3>1, MorePaths DEF MadeOf
  <2> QED
    BY <2>1, <2>2
<1>7. MadeOf(L, t)
  BY <1>3, <1>5, <1>6 DEF MadeOf
<1> QED
  BY <1>1, <1>2, <1>5, <1>6, <1>7

\* Receiving.
LEMMA MadeByHandling ==
    ASSUME NEW K \in SUBSET RatchetKey, NEW s \in SessionState, MadeOf(K, s),
           NEW env \in Envelope, env.ratchet \in K \cup {NoKey}
    PROVE  /\ MadeOf(K, HandleChatMessage(s, env))
           /\ HandleChatMessage(s, env).sendChain = s.sendChain
<1>1. PICK r : r = RatchetReceive(s, env)
  OBVIOUS
<1>2. PICK h : h = HandleChatMessage(s, env)
  OBVIOUS
<1>3. /\ h.sendChain = s.sendChain /\ h.local = s.local /\ h.root = r.root /\ h.remote = r.remote
  BY <1>1, <1>2, HandledTypes
<1>4. r.root \in Seq(SUBSET K) /\ r.remote \in K
  <2>1. CASE r = s
    BY <2>1 DEF MadeOf
  <2>2. CASE /\ env.ratchet \in RatchetKey /\ env.ratchet # NoKey /\ r.remote = env.ratchet
             /\ r.root = Append(s.root, SharedSecret(s.local, env.ratchet))
    <3>1. s.local \in K /\ env.ratchet \in K /\ s.root \in Seq(SUBSET K)
      BY <2>2 DEF MadeOf
    <3>2. SharedSecret(s.local, env.ratchet) \in SUBSET K
      BY <3>1 DEF SharedSecret
    <3>3. Append(s.root, SharedSecret(s.local, env.ratchet)) \in Seq(SUBSET K)
      BY <3>1, <3>2
    <3> QED
      BY <2>2, <3>1, <3>3
  <2> QED
    BY <1>1, <2>1, <2>2, RatchetedTypes
<1> QED
  BY <1>2, <1>3, <1>4 DEF MadeOf

\* The first chains have sealed nothing.
LEMMA InitialKeys == Init => KeyInv
<1> SUFFICES ASSUME Init PROVE KeyInv
  OBVIOUS
<1>1. MailInv
  BY InitialMail
<1>2. Alice \in Party /\ Bob \in Party /\ Alice # Bob
  BY MessagingAssumption DEF Party
<1>3. <<Alice, 0>> \in Generated /\ <<Bob, 0>> \in Generated
  BY <1>2 DEF Init, Generated, RatchetKey
<1>4. /\ HandshakeKeys.root = <<>> /\ HandshakeKeys.c1 \in ChainKey /\ HandshakeKeys.c2 \in ChainKey
      /\ HandshakeKeys.c1.path = <<>> /\ HandshakeKeys.c2.path = <<>>
      /\ HandshakeKeys.c1.label = "c1" /\ HandshakeKeys.c2.label = "c2"
  BY EmptyBox, ChainTypes DEF HandshakeKeys, RootKey
<1>5. NextChain(HandshakeKeys.c1, 0).path = <<>> /\ NextChain(HandshakeKeys.c1, 0).label = "c1"
  BY <1>4, NextTypes
<1>6. /\ mem[Alice].session = InitiatorSession(Alice, Bob)
      /\ mem[Bob].session = ResponderSession(Bob, Alice)
  BY <1>2 DEF Init
<1>7. /\ mem[Alice].session.root = <<>> /\ mem[Bob].session.root = <<>>
      /\ mem[Alice].session.sendChain.path = <<>> /\ mem[Bob].session.sendChain.path = <<>>
      /\ mem[Alice].session.sendChain.label = "c1" /\ mem[Bob].session.sendChain.label = "c2"
      /\ mem[Alice].session.local = <<Alice, 0>> /\ mem[Bob].session.local = <<Bob, 0>>
      /\ mem[Alice].session.remote = <<Bob, 0>> /\ mem[Bob].session.remote = <<Alice, 0>>
  BY <1>4, <1>5, <1>6 DEF InitiatorSession, ResponderSession
<1>8. <<>> \in Seq(SUBSET Generated)
  BY EmptyBox
<1>9. MadeOf(Generated, mem[Alice].session) /\ MadeOf(Generated, mem[Bob].session)
  BY <1>3, <1>7, <1>8 DEF MadeOf
<1>10. disk = mem /\ sealed = {} /\ \A p \in Party : Entries(inbox[p]) = {}
  BY EmptyBox DEF Init
<1>11. KeysGenerated
  BY <1>9, <1>10 DEF KeysGenerated, Party
<1>12. SealsAhead
  BY <1>2, <1>7, <1>10 DEF SealsAhead, SameChain, MessageKeyUnique, Party, Peer
<1> QED
  BY <1>1, <1>11, <1>12 DEF KeyInv

\* A message is sealed on a chain that no earlier message of the peer used and
\* whose earlier keys are behind.
LEMMA SealsOnOwnChain ==
    ASSUME TypeOK, KeysGenerated, SealsAhead, NEW p \in Party,
           NEW c, c = SendingSession(Session(p), Fresh(p)).sendChain
    PROVE  /\ \A x \in sealed : SameChain(x.key[1], c) =>
                x.body[1] = p /\ Len(x.key[1].used) < Len(c.used)
           /\ ~SameChain(c, mem[Peer(p)].session.sendChain)
<1>1. /\ Session(p) = mem[p].session /\ Session(p) \in SessionState /\ Fresh(p) \in RatchetKey
      /\ Fresh(p) = <<p, keys[p] + 1>> /\ keys[p] \in Nat /\ Peer(p) \in Party
  BY UserTypes, Parties DEF Session, Fresh
<1>2. CASE ~RatchetDue(Session(p))
  <2>1. c = mem[p].session.sendChain
    BY <1>1, <1>2, SendingTypes
  <2> QED
    BY <2>1 DEF SealsAhead
<1>3. CASE RatchetDue(Session(p))
  <2>1. PICK path : path = Append(Session(p).root, SharedSecret(Fresh(p), Session(p).remote))
    OBVIOUS
  <2>2. Session(p).root \in RootKey /\ Session(p).remote \in RatchetKey
    BY <1>1 DEF SessionState
  <2>3. path \in RootKey /\ c = NewChain("ratchet", path)
    BY <1>1, <1>3, <2>1, <2>2, Derived, SendingTypes
  <2>4. c.path = path
    BY <2>3, ChainTypes
  <2>5. Fresh(p) \notin Generated
    BY <1>1 DEF Generated
  <2>6. \A old \in Seq(SUBSET Generated) : old # c.path
    BY <1>1, <2>1, <2>2, <2>4, <2>5, NewPath
  <2>7. /\ \A x \in sealed : x.key[1].path \in Seq(SUBSET Generated)
        /\ mem[Peer(p)].session.sendChain.path \in Seq(SUBSET Generated)
    BY <1>1 DEF KeysGenerated, MadeOf
  <2> QED
    BY <2>6, <2>7 DEF SameChain
<1> QED
  BY <1>2, <1>3

\* SendMessage keeps the sealed keys behind the sending chain, unless the session
\* was stale.
LEMMA SendKeepsKeys ==
    ASSUME KeyInv, NEW p \in Party, Send(p)
    PROVE  KeysGenerated' /\ ("stale" \notin cause' => SealsAhead')
<1>1. MailInv /\ TypeOK /\ KeysGenerated
  BY DEF KeyInv, MailInv
<1>2. PICK new : new = [key |-> Sealed(p).key, body |-> Body(p)]
  OBVIOUS
<1>3. /\ sealed' = sealed \cup {new} /\ cause \subseteq cause'
      /\ keys' = IF RatchetDue(Session(p)) THEN [keys EXCEPT ![p] = keys[p] + 1] ELSE keys
      /\ \A r \in Party : Entries(inbox'[r]) \subseteq
                            Entries(inbox[r]) \cup {[id |-> nextId[r], env |-> Sealed(p)]}
      /\ \A r \in Party : r # p => mem'[r] = mem[r] /\ disk'[r] = disk[r]
      /\ \/ mem'[p].session = AfterSend(Session(p), Fresh(p))
         \/ mem'[p] = disk[p] /\ "stale" \in cause'
      /\ disk'[p] = disk[p] \/ disk'[p] = mem'[p]
  BY <1>1, <1>2, SendEffect
<1>4. /\ Session(p) = mem[p].session /\ Session(p) \in SessionState /\ Fresh(p) \in RatchetKey
      /\ Fresh(p) = <<p, keys[p] + 1>> /\ keys \in [Party -> Nat]
      /\ Body(p) = <<p, sends[p] + 1>> /\ Body(p) \in Party \X Nat
      /\ sealed \subseteq [key : ChainKey \X Nat, body : Party \X Nat]
  BY <1>1, UserTypes DEF Session, Fresh, Body, TypeOK
<1>5. PICK K \in SUBSET RatchetKey, L \in SUBSET RatchetKey : K = Generated /\ L = Generated'
  BY DEF Generated
<1>6. K \subseteq L /\ (RatchetDue(Session(p)) => Fresh(p) \in L)
  BY <1>3, <1>4, <1>5 DEF Generated, RatchetKey
<1>7. PICK c : c = SendingSession(Session(p), Fresh(p)).sendChain
  OBVIOUS
<1>8. PICK t : t = AfterSend(Session(p), Fresh(p))
  OBVIOUS
<1>9. MadeOf(K, Session(p))
  BY <1>1, <1>4, <1>5 DEF KeysGenerated
<1>10. /\ MadeOf(L, t) /\ c.path \in Seq(SUBSET L)
       /\ t.sendChain.path = c.path /\ t.sendChain.label = c.label
       /\ Len(t.sendChain.used) = Len(c.used) + 1
  BY <1>4, <1>6, <1>7, <1>8, <1>9, MadeBySend
<1>11. /\ Sealed(p).key = <<c, SendingSession(Session(p), Fresh(p)).sendCounter>>
       /\ Sealed(p).ratchet = IF RatchetDue(Session(p)) THEN Fresh(p) ELSE NoKey
  BY <1>4, <1>7, SealedTypes DEF Sealed
<1>12. new.key[1] = c /\ new.key = Sealed(p).key /\ new.body = Body(p) /\ new.body[1] = p
  BY <1>2, <1>4, <1>11
<1>13. KeysGenerated'
  <2>1. \A r \in Party : MadeOf(L, mem[r].session) /\ MadeOf(L, disk[r].session)
    BY <1>1, <1>5, <1>6, MoreKeys DEF KeysGenerated
  <2>2. \A r \in Party : MadeOf(L, mem'[r].session) /\ MadeOf(L, disk'[r].session)
    BY <1>3, <1>8, <1>10, <2>1
  <2>3. ASSUME NEW r \in Party, NEW e \in Entries(inbox'[r]) PROVE e.env.ratchet \in L \cup {NoKey}
    <3>1. CASE e \in Entries(inbox[r])
      BY <1>1, <1>5, <1>6, <3>1 DEF KeysGenerated
    <3>2. CASE e = [id |-> nextId[r], env |-> Sealed(p)]
      BY <1>6, <1>11, <3>2
    <3> QED
      BY <1>3, <2>3, <3>1, <3>2
  <2>4. \A x \in sealed' : x.key[1].path \in Seq(SUBSET L)
    <3>1. \A x \in sealed : x.key[1].path \in Seq(SUBSET L)
      BY <1>1, <1>5, <1>6, MorePaths DEF KeysGenerated
    <3> QED
      BY <1>3, <1>10, <1>12, <3>1
  <2>5. \A r \in Party : (MadeOf(Generated, mem[r].session) /\ MadeOf(Generated, disk[r].session))'
    BY <1>5, <2>2 DEF MadeOf
  <2> QED
    BY <1>5, <2>3, <2>4, <2>5 DEF KeysGenerated
<1>14. ASSUME "stale" \notin cause' PROVE SealsAhead'
  <2>1. SealsAhead /\ mem'[p].session = t
    BY <1>3, <1>8, <1>14 DEF KeyInv
  <2>2. PICK q \in Party : q = Peer(p) /\ Peer(q) = p /\ q # p
    BY Parties
  <2>3. /\ \A x \in sealed : SameChain(x.key[1], c) => x.body[1] = p /\ Len(x.key[1].used) < Len(c.used)
        /\ ~SameChain(c, mem[q].session.sendChain)
    BY <1>1, <1>7, <2>1, <2>2, SealsOnOwnChain
  <2>4. /\ \A x \in sealed : SameChain(x.key[1], mem[q].session.sendChain) =>
             x.body[1] = q /\ Len(x.key[1].used) < Len(mem[q].session.sendChain.used)
        /\ \A x, y \in sealed : x.key = y.key => x.body = y.body
    BY <2>1 DEF SealsAhead, MessageKeyUnique
  <2>5. /\ \A x \in sealed : Len(x.key[1].used) \in Nat
        /\ Len(c.used) \in Nat
    <3>1. SendingSession(Session(p), Fresh(p)) \in SessionState
      BY <1>4, SendingTypes
    <3>2. c \in ChainKey
      BY <1>7, <3>1 DEF SessionState
    <3> QED
      BY <1>4, <3>2 DEF ChainKey
  <2>6. \A x \in sealed : x.key # new.key
    BY <1>12, <2>3, <2>5 DEF SameChain
  <2>7. \A x, y \in sealed' : x.key = y.key => x.body = y.body
    BY <1>3, <2>4, <2>6
  <2>8. \A x \in sealed' : SameChain(x.key[1], t.sendChain) =>
          x.body[1] = p /\ Len(x.key[1].used) < Len(t.sendChain.used)
    BY <1>3, <1>10, <1>12, <2>3, <2>5 DEF SameChain
  <2>9. \A x \in sealed' : SameChain(x.key[1], mem[q].session.sendChain) =>
          x.body[1] = q /\ Len(x.key[1].used) < Len(mem[q].session.sendChain.used)
    BY <1>3, <1>12, <2>3, <2>4
  <2>10. ~SameChain(t.sendChain, mem[q].session.sendChain) /\ ~SameChain(mem[q].session.sendChain, t.sendChain)
    BY <1>10, <2>3 DEF SameChain
  <2>11. mem'[q] = mem[q] /\ \A r \in Party : r = p \/ r = q
    BY <1>3, <2>2 DEF Party, Peer
  <2>12. /\ \A r \in Party : ~SameChain(mem'[r].session.sendChain, mem'[Peer(r)].session.sendChain)
         /\ \A r \in Party : \A x \in sealed' :
              SameChain(x.key[1], mem'[r].session.sendChain) =>
                x.body[1] = r /\ Len(x.key[1].used) < Len(mem'[r].session.sendChain.used)
    BY <2>1, <2>2, <2>8, <2>9, <2>10, <2>11
  <2> QED
    BY <2>7, <2>12 DEF SealsAhead, SameChain, MessageKeyUnique
<1> QED
  BY <1>13, <1>14

\* No other step returns a sending chain to a key it has used, unless the client
\* restarted from a stale file.
LEMMA OthersKeepKeys ==
    ASSUME KeyInv, [Next]_vars, \A p \in Party : ~Send(p)
    PROVE  KeysGenerated' /\ ("stale" \notin cause' => SealsAhead')
<1>1. MailInv /\ TypeOK /\ KeysGenerated
  BY DEF KeyInv, MailInv
<1>2. /\ sealed' = sealed /\ keys' = keys /\ cause \subseteq cause'
      /\ \A r \in Party : \A e \in Entries(inbox'[r]) : \E d \in Entries(inbox[r]) : e.env = d.env
      /\ \A r \in Party :
           \/ mem'[r].session = mem[r].session
           \/ /\ mem'[r] = disk[r]
              /\ "stale" \in cause' \/ disk[r].session.sendChain = mem[r].session.sendChain
           \/ \E item \in Entries(inbox[r]) : HandleEffect(r, item)
      /\ \A r \in Party : disk'[r] = disk[r] \/ disk'[r] = mem[r]
  BY <1>1, OtherEffect
<1>3. Generated' = Generated /\ Generated \in SUBSET RatchetKey
  BY <1>2 DEF Generated
<1>4. \A r \in Party : MadeOf(Generated, mem[r].session) /\ MadeOf(Generated, disk[r].session)
  BY <1>1 DEF KeysGenerated
<1>5. ASSUME NEW r \in Party, NEW item \in Entries(inbox[r]), HandleEffect(r, item)
      PROVE  MadeOf(Generated, mem'[r].session) /\ mem'[r].session.sendChain = mem[r].session.sendChain
  <2>1. mem[r].session \in SessionState /\ inbox[r] \in Seq(Entry) /\ HasIds(Entry)
    BY <1>1, UserTypes DEF Session
  <2>2. item \in Entry
    BY <2>1, BoxTypes
  <2>3. item.env \in Envelope /\ item.env.ratchet \in Generated \cup {NoKey}
    BY <1>1, <2>2 DEF Entry, KeysGenerated
  <2>4. mem'[r].session = HandleChatMessage(mem[r].session, item.env)
    BY <1>5 DEF HandleEffect
  <2> QED
    BY <1>3, <1>4, <2>1, <2>3, <2>4, MadeByHandling
<1>6. \A r \in Party : MadeOf(Generated, mem'[r].session)
  BY <1>2, <1>4, <1>5
<1>7. \A r \in Party : MadeOf(Generated, disk'[r].session)
  BY <1>2, <1>4
<1>8. KeysGenerated'
  <2>1. \A r \in Party : (MadeOf(Generated, mem[r].session) /\ MadeOf(Generated, disk[r].session))'
    BY <1>3, <1>6, <1>7 DEF MadeOf
  <2>2. \A r \in Party : \A e \in Entries(inbox'[r]) : e.env.ratchet \in Generated \cup {NoKey}
    BY <1>1, <1>2 DEF KeysGenerated
  <2>3. \A x \in sealed' : x.key[1].path \in Seq(SUBSET Generated)
    BY <1>1, <1>2 DEF KeysGenerated
  <2> QED
    BY <1>3, <2>1, <2>2, <2>3 DEF KeysGenerated
<1>9. ASSUME "stale" \notin cause' PROVE SealsAhead'
  <2>1. SealsAhead
    BY <1>2, <1>9 DEF KeyInv
  <2>2. \A r \in Party : mem'[r].session.sendChain = mem[r].session.sendChain
    BY <1>2, <1>5, <1>9
  <2>3. \A r \in Party : Peer(r) \in Party
    BY Parties
  <2> QED
    BY <1>2, <2>1, <2>2, <2>3, ZenonT(60) DEF SealsAhead, SameChain, MessageKeyUnique
<1> QED
  BY <1>8, <1>9

\* Every step keeps the key invariant.
LEMMA KeyStep == KeyInv /\ [Next]_vars => KeyInv'
<1> SUFFICES ASSUME KeyInv, [Next]_vars PROVE KeyInv'
  OBVIOUS
<1>1. MailInv'
  BY MailStep DEF KeyInv
<1>2. KeysGenerated' /\ ("stale" \notin cause' => SealsAhead')
  BY SendKeepsKeys, OthersKeepKeys
<1> QED
  BY <1>1, <1>2 DEF KeyInv

\* Two plaintexts are encrypted under one message key and nonce only after a
\* restart from a stale state file, whatever calls and saves failed and however
\* ratchet steps crossed: a ratchet step mixes in a key nobody has seen, and
\* between steps the chain only moves on.
THEOREM KeyReuseNeedsRestart == Spec => []KeyReuseNeedsStaleRestart
<1>1. KeyInv => KeyReuseNeedsStaleRestart
  BY DEF KeyInv, SealsAhead, KeyReuseNeedsStaleRestart
<1> QED
  BY <1>1, InitialKeys, KeyStep, PTL DEF Spec

----------------------------------------------------------------------------
\* ProcessInbox implements Channel while the state file can be written.

\* What the user was shown is saved, and what a call will show next comes
\* behind it.
InOrder(p) ==
    /\ Promise!Increasing(returned[p]) /\ Promise!Increasing(poll[p].out)
    /\ \A x \in Range(returned[p]) :
         /\ 0 < x /\ x \in Ids(handled[p]) /\ x \in Ids(saved[p])
         /\ \A y \in Range(poll[p].out) : x < y
    /\ \A y \in Range(poll[p].out) :
         0 < y /\ y \in Ids(handled[p]) /\ (poll[p].pc = "return" => y \in Ids(saved[p]))
    /\ poll[p].pc = "idle" => poll[p].out = <<>>

DeliveryInv == MailInv /\ \A p \in Party : InOrder(p)

\* Showing a block behind what was shown.
LEMMA Shown ==
    ASSUME NEW s \in Seq(Nat), NEW t \in Seq(Nat), Promise!Increasing(s), Promise!Increasing(t),
           \A x \in Range(s) : \A y \in Range(t) : x < y
    PROVE  /\ s \o t \in Seq(Nat) /\ Promise!Increasing(s \o t)
           /\ Range(s \o t) = Range(s) \cup Range(t)
           /\ Len(s \o t) = Len(s) + Len(t)
           /\ SubSeq(s \o t, Len(s) + 1, Len(s) + Len(t)) = t
           /\ t = <<>> => s \o t = s
           /\ \A k \in Len(s) + 1 .. Len(s) + Len(t) : (s \o t)[k] \in Range(t)
<1> DEFINE u == s \o t
<1>1. /\ u \in Seq(Nat) /\ Len(u) = Len(s) + Len(t) /\ Len(s) \in Nat /\ Len(t) \in Nat
      /\ \A i \in 1 .. Len(s) : u[i] = s[i]
      /\ \A i \in 1 .. Len(t) : u[Len(s) + i] = t[i]
      /\ DOMAIN u = 1 .. Len(s) + Len(t) /\ DOMAIN s = 1 .. Len(s) /\ DOMAIN t = 1 .. Len(t)
  OBVIOUS
<1>2. \A i \in DOMAIN u : \/ i \in DOMAIN s /\ u[i] = s[i]
                          \/ i - Len(s) \in DOMAIN t /\ u[i] = t[i - Len(s)] /\ i > Len(s)
  <2> SUFFICES ASSUME NEW i \in 1 .. Len(s) + Len(t), ~(i \in 1 .. Len(s))
               PROVE  i - Len(s) \in 1 .. Len(t) /\ u[i] = t[i - Len(s)] /\ i > Len(s)
    BY <1>1
  <2>1. PICK j \in 1 .. Len(t) : i = Len(s) + j
    <3>1. i - Len(s) \in 1 .. Len(t) /\ i = Len(s) + (i - Len(s))
      BY <1>1
    <3> QED
      BY <3>1
  <2>2. i - Len(s) = j
    BY <1>1, <2>1
  <2> QED
    BY <1>1, <2>1, <2>2
<1> HIDE DEF u
<1>3. Promise!Increasing(u)
  <2> SUFFICES ASSUME NEW i \in DOMAIN u, NEW j \in DOMAIN u, i < j PROVE u[i] < u[j]
    BY DEF Promise!Increasing
  <2>1. CASE i \in DOMAIN s /\ u[i] = s[i] /\ j \in DOMAIN s /\ u[j] = s[j]
    BY <2>1 DEF Promise!Increasing
  <2>2. CASE i \in DOMAIN s /\ u[i] = s[i] /\ j - Len(s) \in DOMAIN t /\ u[j] = t[j - Len(s)]
    BY <2>2 DEF Range
  <2>3. CASE /\ i - Len(s) \in DOMAIN t /\ u[i] = t[i - Len(s)]
             /\ j - Len(s) \in DOMAIN t /\ u[j] = t[j - Len(s)]
    <3>1. i - Len(s) < j - Len(s)
      BY <1>1
    <3> QED
      BY <2>3, <3>1 DEF Promise!Increasing
  <2> QED
    BY <1>1, <1>2, <2>1, <2>2, <2>3, SMTT(40)
<1>4. Range(u) = Range(s) \cup Range(t)
  <2>1. Range(u) \subseteq Range(s) \cup Range(t)
    BY <1>2 DEF Range
  <2>2. Range(s) \subseteq Range(u)
    BY <1>1 DEF Range
  <2>3. ASSUME NEW j \in DOMAIN t PROVE t[j] \in Range(u)
    <3>1. Len(s) + j \in DOMAIN u /\ u[Len(s) + j] = t[j]
      BY <1>1
    <3> QED
      BY <3>1 DEF Range
  <2> QED
    BY <2>1, <2>2, <2>3 DEF Range
<1>5. SubSeq(u, Len(s) + 1, Len(s) + Len(t)) = t
  <2>1. PICK v : v = SubSeq(u, Len(s) + 1, Len(s) + Len(t))
    OBVIOUS
  <2>2. /\ v \in Seq(Nat) /\ Len(v) = Len(t) /\ \A i \in 1 .. Len(t) : v[i] = u[Len(s) + i]
    BY <1>1, <2>1, SMTT(40)
  <2>3. \A i \in 1 .. Len(v) : v[i] = t[i]
    BY <1>1, <2>2
  <2>4. v = t
    BY <2>2, <2>3, SeqEqual
  <2> QED
    BY <2>1, <2>4
<1>6. t = <<>> => u = s
  BY ConcatEmptySeq DEF u
<1>7. ASSUME NEW k \in Len(s) + 1 .. Len(s) + Len(t) PROVE u[k] \in Range(t)
  <2>1. k \in DOMAIN u /\ k \notin DOMAIN s
    BY <1>1
  <2>2. k - Len(s) \in DOMAIN t /\ u[k] = t[k - Len(s)]
    BY <1>2, <2>1
  <2> QED
    BY <2>2 DEF Range
<1> QED
  BY <1>1, <1>3, <1>4, <1>5, <1>6, <1>7 DEF u

\* One more plaintext.
LEMMA OneMore ==
    ASSUME NEW s \in Seq(Nat), NEW id \in Nat, Promise!Increasing(s), \A x \in Range(s) : x < id
    PROVE  /\ Promise!Increasing(Append(s, id))
           /\ Range(Append(s, id)) = Range(s) \cup {id}
<1>1. PICK u : u = Append(s, id)
  OBVIOUS
<1>2. /\ u \in Seq(Nat) /\ DOMAIN u = 1 .. Len(s) + 1 /\ DOMAIN s = 1 .. Len(s) /\ Len(s) \in Nat
      /\ \A i \in 1 .. Len(s) : u[i] = s[i]
      /\ u[Len(s) + 1] = id
  BY <1>1
<1>3. Range(u) = Range(s) \cup {id}
  <2>1. \A i \in DOMAIN u : (i \in DOMAIN s /\ u[i] = s[i]) \/ u[i] = id
    BY <1>2
  <2>2. \A i \in DOMAIN s : i \in DOMAIN u /\ u[i] = s[i]
    BY <1>2
  <2>3. Len(s) + 1 \in DOMAIN u
    BY <1>2
  <2> QED
    BY <1>2, <2>1, <2>2, <2>3 DEF Range
<1>4. Promise!Increasing(u)
  <2> SUFFICES ASSUME NEW i \in DOMAIN u, NEW j \in DOMAIN u, i < j PROVE u[i] < u[j]
    BY DEF Promise!Increasing
  <2>1. i \in DOMAIN s /\ u[i] = s[i]
    BY <1>2
  <2>2. CASE j \in DOMAIN s
    BY <1>2, <2>1, <2>2 DEF Promise!Increasing
  <2>3. CASE j = Len(s) + 1
    BY <1>2, <2>1, <2>3 DEF Range
  <2> QED
    BY <1>2, <2>2, <2>3
<1> QED
  BY <1>1, <1>3, <1>4

\* A user whose call does not move.
LEMMA OrderUntouched ==
    ASSUME NEW p \in Party, InOrder(p), returned'[p] = returned[p], poll'[p] = poll[p],
           handled'[p] = handled[p], saved'[p] \in {saved[p], handled[p]}
    PROVE  InOrder(p)'
BY DEF InOrder

\* A user whose process died.
LEMMA OrderReloaded ==
    ASSUME NEW p \in Party, InOrder(p), returned'[p] = returned[p],
           poll'[p].out = <<>>, handled'[p] = saved[p], saved'[p] = saved[p]
    PROVE  InOrder(p)'
<1>1. Promise!Increasing(<<>>) /\ Range(<<>>) = {}
  BY DEF Promise!Increasing, Range
<1> QED
  BY <1>1 DEF InOrder

\* A call that goes on with the plaintexts it has.
LEMMA OrderGoesOn ==
    ASSUME NEW p \in Party, InOrder(p), returned'[p] = returned[p], poll'[p].out = poll[p].out,
           poll'[p].pc # "return", poll'[p].pc = "idle" => poll[p].out = <<>>,
           handled'[p] = handled[p], saved'[p] = saved[p]
    PROVE  InOrder(p)'
BY DEF InOrder

\* The handling of an envelope keeps what the user is shown in order.
LEMMA OrderHandled ==
    ASSUME MailInv, NEW p \in Party, InOrder(p), HandleEnvelope(p)
    PROVE  InOrder(p)'
<1> DEFINE item == Head(poll[p].page)
           H == Ids(handled[p])
<1>1. TypeOK /\ Mailbox(p)
  BY DEF MailInv
<1>2. /\ HasIds(Entry) /\ inbox[p] \in Seq(Entry) /\ poll[p] \in PollState(Entry)
      /\ Ordered(inbox[p]) /\ H \in SUBSET Nat /\ poll[p].out \in Seq(Nat)
      /\ PollOk(poll[p], inbox[p], H, mem[p].pending) /\ poll[p].pc = "handle"
      /\ handled \in [Party -> SUBSET [id : Nat, body : Party \X Nat]]
      /\ poll \in [Party -> PollState(Entry)]
  BY <1>1, UserTypes DEF Mailbox, HandleEnvelope, TypeOK
<1>3. returned' = returned /\ saved' = saved
  BY DEF HandleEnvelope
<1>4. CASE Accepts(Session(p), item.env)
  <2>1. PICK next : next = Handled(poll[p])
    OBVIOUS
  <2>2. PICK id : id = item.id
    OBVIOUS
  <2>3. /\ id \in InboxIds(inbox[p]) /\ \A h \in H : h < id
        /\ next.pc \in {"handle", "drain", "end"} /\ next.out = Append(poll[p].out, id)
    BY <1>2, <2>1, <2>2, HandledOk
  <2>4. id \in Nat /\ 0 < id
    BY <1>2, <2>3, BoxTypes
  <2>5. PICK e : e = [id |-> id, body |-> item.env.body]
    OBVIOUS
  <2>6. e.id = id /\ handled'[p] = handled[p] \cup {e} /\ poll'[p] = next
    BY <1>2, <1>4, <2>1, <2>2, <2>5 DEF HandleEnvelope
  <2>7. Ids(handled'[p]) = H \cup {id}
    BY <2>6 DEF Ids
  <2>8. /\ Promise!Increasing(poll[p].out) /\ Promise!Increasing(returned[p])
        /\ \A x \in Range(returned[p]) :
             0 < x /\ x \in H /\ x \in Ids(saved[p]) /\ \A y \in Range(poll[p].out) : x < y
        /\ \A y \in Range(poll[p].out) : 0 < y /\ y \in H
    BY DEF InOrder
  <2> HIDE DEF item, H
  <2>9. Promise!Increasing(next.out) /\ Range(next.out) = Range(poll[p].out) \cup {id}
    BY <1>2, <2>3, <2>4, <2>8, OneMore
  <2>10. \A x \in Range(returned[p]) : \A y \in Range(next.out) : x < y
    BY <2>3, <2>8, <2>9
  <2>11. \A y \in Range(next.out) : 0 < y /\ y \in Ids(handled'[p])
    BY <2>4, <2>7, <2>8, <2>9
  <2> QED
    BY <1>3, <2>3, <2>6, <2>7, <2>8, <2>9, <2>10, <2>11 DEF InOrder, H
<1>5. CASE ~Accepts(Session(p), item.env)
  <2>1. PICK next : next = Refused(poll[p])
    OBVIOUS
  <2>2. next.pc \in {"drain", "end"} /\ next.out = poll[p].out
    BY <1>2, <2>1, RefusedOk
  <2>3. handled' = handled /\ poll'[p] = next
    BY <1>2, <1>5, <2>1 DEF HandleEnvelope
  <2> QED
    BY <1>3, <2>2, <2>3, OrderGoesOn
<1> QED
  BY <1>4, <1>5

\* A drain keeps what the user is shown in order.
LEMMA OrderDrained ==
    ASSUME MailInv, NEW p \in Party, InOrder(p), DrainInbox(p) \/ DrainInboxFails(p)
    PROVE  InOrder(p)'
<1>1. TypeOK /\ Mailbox(p)
  BY DEF MailInv
<1>2. /\ HasIds(Entry) /\ inbox[p] \in Seq(Entry) /\ poll[p] \in PollState(Entry) /\ Ordered(inbox[p])
      /\ PollOk(poll[p], inbox[p], Ids(handled[p]), mem[p].pending) /\ poll[p].pc = "drain"
      /\ poll \in [Party -> PollState(Entry)]
  BY <1>1, UserTypes DEF Mailbox, DrainInbox, DrainInboxFails, TypeOK
<1>3. UNCHANGED <<returned, handled, saved>>
  BY DEF DrainInbox, DrainInboxFails, history
<1>4. CASE DrainInbox(p)
  <2>1. PICK left : left = DropAcked(inbox[p], poll[p].ack)
    OBVIOUS
  <2>2. PICK n \in PageLengths(left) : poll' = [poll EXCEPT ![p] = Served(poll[p], PageOf(left, n))]
    BY <1>4, <2>1 DEF DrainInbox
  <2>3. PICK next : next = Served(poll[p], PageOf(left, n))
    OBVIOUS
  <2>4. next.out = poll[p].out /\ next.pc \in {"handle", "end"}
    <3>1. PICK state, box, H, pending : /\ state = poll[p] /\ box = inbox[p]
                                        /\ H = Ids(handled[p]) /\ pending = mem[p].pending
      OBVIOUS
    <3>2. /\ state \in PollState(Entry) /\ box \in Seq(Entry) /\ Ordered(box)
          /\ PollOk(state, box, H, pending) /\ state.pc = "drain"
          /\ n \in PageLengths(DropAcked(box, state.ack))
      BY <1>2, <2>1, <3>1
    <3>3. /\ Served(state, PageOf(DropAcked(box, state.ack), n)).out = state.out
          /\ Served(state, PageOf(DropAcked(box, state.ack), n)).pc \in {"handle", "end"}
      BY <1>2, <3>2, ServedOk
    <3> QED
      BY <2>1, <2>3, <3>1, <3>3
  <2>5. poll'[p] = next
    BY <1>2, <2>2, <2>3
  <2> QED
    BY <1>3, <2>4, <2>5, OrderGoesOn
<1>5. CASE DrainInboxFails(p)
  <2>1. PICK next : next = NotServed(poll[p])
    OBVIOUS
  <2>2. poll[p].page = <<>> /\ UpTo(inbox[p], Ids(handled[p]), mem[p].pending)
    BY <1>2 DEF PollOk
  <2>3. /\ next.out = poll[p].out /\ next.pc \in {"idle", "end"}
        /\ next.pc = "idle" => poll[p].out = <<>>
    BY <1>2, <2>1, <2>2, NotServedOk
  <2>4. poll'[p] = next
    BY <1>2, <1>5, <2>1 DEF DrainInboxFails
  <2> QED
    BY <1>3, <2>3, <2>4, OrderGoesOn
<1> QED
  BY <1>4, <1>5

\* The turns of a call, none of whose saves fails.
LEMMA OrderTurned ==
    ASSUME "save" \notin FaultKinds, MailInv, NEW p \in Party, InOrder(p),
           ProcessInbox(p) \/ GiveUp(p) \/ SaveLocalState(p) \/ Return(p)
    PROVE  InOrder(p)'
<1>1. TypeOK /\ Mailbox(p)
  BY DEF MailInv
<1>2. /\ poll[p] \in PollState(Entry) /\ poll[p].out \in Seq(Nat) /\ mem[p].pending \in Nat
      /\ poll \in [Party -> PollState(Entry)] /\ returned \in [Party -> Seq(Nat)]
      /\ saved \in [Party -> SUBSET [id : Nat, body : Party \X Nat]]
  BY <1>1, UserTypes DEF TypeOK
<1>3. Idle.pc = "idle" /\ Idle.out = <<>>
  BY DEF Idle
<1>4. CASE ProcessInbox(p)
  <2>1. PICK next : next = StartPoll(mem[p].pending)
    OBVIOUS
  <2>2. next.out = <<>> /\ next.pc = "drain"
    BY <2>1 DEF StartPoll, Idle
  <2>3. poll'[p] = next /\ UNCHANGED <<returned, handled, saved>> /\ poll[p].out = <<>>
    BY <1>2, <1>4, <2>1 DEF ProcessInbox, history, InOrder
  <2> QED
    BY <2>2, <2>3, OrderGoesOn
<1>5. CASE GiveUp(p)
  <2>1. poll'[p] = Idle /\ UNCHANGED <<returned, handled, saved>> /\ poll[p].out = <<>>
    BY <1>2, <1>5 DEF GiveUp, history, Fails
  <2> QED
    BY <1>3, <2>1, OrderGoesOn
<1>6. CASE SaveLocalState(p)
  <2>1. Save(p) /\ UNCHANGED <<returned, handled>>
    BY <1>6 DEF SaveLocalState, Fault
  <2>2. saved'[p] = handled[p]
    BY <1>2, <2>1 DEF Save
  <2>3. PICK next : next = [poll[p] EXCEPT !.pc = "return"]
    OBVIOUS
  <2>4. next.out = poll[p].out /\ next.pc = "return"
    BY <1>2, <2>3 DEF PollState
  <2>5. poll'[p] = next
    BY <1>2, <1>6, <2>3 DEF SaveLocalState
  <2> QED
    BY <2>1, <2>2, <2>4, <2>5 DEF InOrder
<1>7. CASE Return(p)
  <2>1. PICK s \in Seq(Nat), t \in Seq(Nat) : s = returned[p] /\ t = poll[p].out
    BY <1>2
  <2>2. /\ Promise!Increasing(s) /\ Promise!Increasing(t)
        /\ \A x \in Range(s) : \A y \in Range(t) : x < y
        /\ \A x \in Range(s) : 0 < x /\ x \in Ids(handled[p]) /\ x \in Ids(saved[p])
        /\ \A y \in Range(t) : 0 < y /\ y \in Ids(handled[p]) /\ y \in Ids(saved[p])
    BY <1>7, <2>1 DEF InOrder, Return
  <2>3. PICK u : u = s \o t
    OBVIOUS
  <2>4. Promise!Increasing(u) /\ Range(u) = Range(s) \cup Range(t)
    BY <2>2, <2>3, Shown
  <2>5. /\ returned'[p] = u /\ poll'[p].out = <<>> /\ poll'[p].pc = "idle"
        /\ UNCHANGED <<handled, saved>>
    BY <1>2, <1>3, <1>7, <2>1, <2>3 DEF Return
  <2>6. Promise!Increasing(<<>>) /\ Range(<<>>) = {}
    BY DEF Promise!Increasing, Range
  <2> QED
    BY <2>2, <2>4, <2>5, <2>6 DEF InOrder
<1> QED
  BY <1>4, <1>5, <1>6, <1>7

\* Nothing is shown before any message.
LEMMA InitialOrder == Init => DeliveryInv
<1> SUFFICES ASSUME Init PROVE DeliveryInv
  OBVIOUS
<1>1. Idle.pc = "idle" /\ Idle.out = <<>>
  BY DEF Idle
<1>2. Promise!Increasing(<<>>) /\ Range(<<>>) = {}
  BY DEF Promise!Increasing, Range
<1>3. ASSUME NEW p \in Party PROVE InOrder(p)
  <2>1. returned[p] = <<>> /\ poll[p] = Idle
    BY DEF Init
  <2> QED
    BY <1>1, <1>2, <2>1 DEF InOrder
<1> QED
  BY <1>3, InitialMail DEF DeliveryInv

\* Every step keeps the delivery invariant, when every save succeeds.
LEMMA OrderStep ==
    ASSUME "save" \notin FaultKinds, DeliveryInv, [Next]_vars
    PROVE  DeliveryInv'
<1>1. MailInv /\ MailInv' /\ TypeOK /\ \A r \in Party : InOrder(r)
  BY MailStep DEF DeliveryInv, MailInv
<1>2. CASE UNCHANGED vars
  <2>1. UNCHANGED <<returned, poll, handled, saved>>
    BY <1>2 DEF vars, client, history
  <2> QED
    BY <1>1, <2>1, OrderUntouched DEF DeliveryInv
<1>3. ASSUME NEW p \in Party, Send(p) PROVE \A r \in Party : InOrder(r)'
  <2>1. /\ \A r \in Party : r # p => handled'[r] = handled[r] /\ saved'[r] = saved[r]
        /\ handled'[p] = handled[p] \/ handled'[p] = saved[p]
        /\ saved'[p] = saved[p] \/ saved'[p] = handled'[p]
    BY <1>1, <1>3, SendEffect
  <2>2. PICK causes \in SUBSET {"gap", "stale"} : Encrypt(p, causes)
    BY <1>3 DEF Send, SendMessage, SendMessageUnsaved, SendMessageUnsynced, SendMessageNotPosted,
                SendMessageCrash
  <2>3. returned' = returned /\ poll' = poll /\ poll[p].out = <<>>
    BY <1>1, <2>2 DEF Encrypt, InOrder
  <2>4. InOrder(p)'
    BY <1>1, <2>1, <2>3, OrderUntouched, OrderReloaded
  <2> QED
    BY <1>1, <2>1, <2>3, <2>4, OrderUntouched
<1>4. ASSUME NEW p \in Party, PollStep(p) \/ DrainInboxFails(p) PROVE \A r \in Party : InOrder(r)'
  <2>1. InOrder(p)'
    BY <1>1, <1>4, OrderHandled, OrderDrained, OrderTurned DEF PollStep
  <2>2. \A r \in Party : r # p => /\ returned'[r] = returned[r] /\ poll'[r] = poll[r]
                                  /\ handled'[r] = handled[r] /\ saved'[r] = saved[r]
    <3>1. /\ returned \in [Party -> Seq(Nat)] /\ poll \in [Party -> PollState(Entry)]
          /\ handled \in [Party -> SUBSET [id : Nat, body : Party \X Nat]]
          /\ saved \in [Party -> SUBSET [id : Nat, body : Party \X Nat]]
      BY <1>1 DEF TypeOK
    <3> SUFFICES ASSUME NEW r \in Party, r # p
                 PROVE  /\ returned'[r] = returned[r] /\ poll'[r] = poll[r]
                        /\ handled'[r] = handled[r] /\ saved'[r] = saved[r]
      OBVIOUS
    <3>2. CASE ProcessInbox(p) \/ GiveUp(p) \/ Return(p)
      BY <3>1, <3>2 DEF ProcessInbox, GiveUp, Return, history
    <3>3. CASE DrainInbox(p) \/ DrainInboxFails(p)
      BY <3>1, <3>3 DEF DrainInbox, DrainInboxFails, history
    <3>4. CASE HandleEnvelope(p)
      BY <3>1, <3>4 DEF HandleEnvelope
    <3>5. CASE SaveLocalState(p)
      BY <3>1, <3>5 DEF SaveLocalState, Save
    <3> QED
      BY <1>4, <3>2, <3>3, <3>4, <3>5 DEF PollStep
  <2> QED
    BY <1>1, <2>1, <2>2, OrderUntouched
<1>5. ASSUME NEW p \in Party, Restart(p) PROVE \A r \in Party : InOrder(r)'
  <2>1. /\ handled'[p] = saved[p] /\ \A r \in Party : r # p => handled'[r] = handled[r]
    BY <1>1, <1>5, ReloadTypes DEF Restart
  <2>2. saved' = saved /\ returned' = returned
    BY <1>5 DEF Restart
  <2>3. poll'[p].out = <<>> /\ \A r \in Party : r # p => poll'[r] = poll[r]
    BY <1>1, <1>5 DEF Restart, TypeOK, Idle
  <2>4. InOrder(p)'
    BY <1>1, <2>1, <2>2, <2>3, OrderReloaded
  <2> QED
    BY <1>1, <2>1, <2>2, <2>3, <2>4, OrderUntouched
<1>6. ASSUME NEW p \in Party, Replay(p) PROVE \A r \in Party : InOrder(r)'
  <2>1. UNCHANGED <<returned, poll, handled, saved>>
    BY <1>6 DEF Replay, client
  <2> QED
    BY <1>1, <2>1, OrderUntouched
<1> QED
  BY <1>1, <1>2, <1>3, <1>4, <1>5, <1>6 DEF Next, DeliveryInv

\* Which step of Channel a step is.
LEMMA ShowsOrPosts ==
    ASSUME DeliveryInv, Next
    PROVE  [Promise!Next]_<<[p \in Party |-> nextId[p] - 1], returned>>
<1> DEFINE posted == [p \in Party |-> nextId[p] - 1]
<1>1. TypeOK /\ MailInv /\ \A r \in Party : InOrder(r) /\ Mailbox(r)
  BY DEF DeliveryInv, MailInv
<1>2. nextId \in [Party -> Nat \ {0}] /\ returned \in [Party -> Seq(Nat)]
  BY <1>1 DEF TypeOK
<1>3. ASSUME NEW p \in Party, nextId' = [nextId EXCEPT ![p] = nextId[p] + 1], returned' = returned
      PROVE  Promise!Next
  <2>1. posted' = [posted EXCEPT ![p] = posted[p] + 1]
    <3>1. \A r \in Party : nextId'[r] - 1 = IF r = p THEN (nextId[p] - 1) + 1 ELSE nextId[r] - 1
      BY <1>2, <1>3
    <3>2. posted' = [r \in Party |-> IF r = p THEN (nextId[p] - 1) + 1 ELSE nextId[r] - 1]
      BY <3>1
    <3>3. [posted EXCEPT ![p] = posted[p] + 1] =
            [r \in Party |-> IF r = p THEN (nextId[p] - 1) + 1 ELSE nextId[r] - 1]
      OBVIOUS
    <3> QED
      BY <3>2, <3>3
  <2> QED
    BY <1>3, <2>1 DEF Promise!Next, Promise!Post
<1>4. CASE nextId' = nextId /\ returned' = returned
  BY <1>4
<1>5. ASSUME NEW p \in Party, Return(p)
      PROVE  [Promise!Next]_<<posted, returned>>
  <2>1. PICK s \in Seq(Nat), t \in Seq(Nat) : s = returned[p] /\ t = poll[p].out
    BY <1>1, <1>2, UserTypes
  <2>2. PICK u : u = s \o t
    OBVIOUS
  <2>3. /\ u \in Seq(Nat) /\ Promise!Increasing(u) /\ Len(u) = Len(s) + Len(t)
        /\ SubSeq(u, Len(s) + 1, Len(u)) = t /\ (t = <<>> => u = s)
        /\ \A k \in Len(s) + 1 .. Len(u) : u[k] \in Range(t)
    <3>1. /\ Promise!Increasing(s) /\ Promise!Increasing(t)
          /\ \A x \in Range(s) : \A y \in Range(t) : x < y
      BY <1>1, <2>1 DEF InOrder
    <3> QED
      BY <2>2, <3>1, Shown
  <2>4. returned' = [returned EXCEPT ![p] = u] /\ returned'[p] = u /\ nextId' = nextId
    BY <1>2, <1>5, <2>1, <2>2 DEF Return, store
  <2>5. CASE t = <<>>
    BY <1>2, <2>1, <2>3, <2>4, <2>5
  <2>6. CASE t # <<>>
    <3>1. PICK n : n = Len(s) + 1
      OBVIOUS
    <3>2. Len(t) \in Nat \ {0} /\ Len(s) \in Nat
      BY <2>6
    <3>3. n \in 1 .. Len(returned'[p])
      BY <2>3, <2>4, <3>1, <3>2
    <3>4. returned' = [returned EXCEPT ![p] = returned[p] \o SubSeq(returned'[p], n, Len(returned'[p]))]
      BY <2>1, <2>2, <2>3, <2>4, <3>1
    <3>5. \A k \in n .. Len(returned'[p]) : returned'[p][k] \in 1 .. posted[p]
      <4>1. \A y \in Range(t) : 0 < y /\ y \in Ids(handled[p])
        BY <1>1, <2>1 DEF InOrder
      <4>2. \A h \in Ids(handled[p]) : h \in Nat /\ h < nextId[p]
        BY <1>1, UserTypes DEF Mailbox
      <4>3. \A y \in Range(t) : y \in 1 .. posted[p]
        BY <1>2, <4>1, <4>2
      <4> QED
        BY <2>3, <2>4, <3>1, <4>3
    <3>6. Promise!Show(p)
      BY <2>3, <2>4, <3>3, <3>4, <3>5 DEF Promise!Show
    <3> QED
      BY <3>6 DEF Promise!Next
  <2> QED
    BY <2>5, <2>6
<1>6. PICK p \in Party : Send(p) \/ PollStep(p) \/ DrainInboxFails(p) \/ Restart(p) \/ Replay(p)
  BY DEF Next
<1>7. CASE Send(p)
  <2>1. returned' = returned
    BY <1>7 DEF Send, SendMessage, SendMessageUnsaved, SendMessageUnsynced, SendMessageNotPosted,
                SendMessageCrash, Encrypt
  <2>2. \/ nextId' = nextId
        \/ nextId' = [nextId EXCEPT ![Peer(p)] = nextId[Peer(p)] + 1]
    BY <1>7 DEF Send, SendMessage, SendMessageUnsaved, SendMessageUnsynced, SendMessageNotPosted,
                SendMessageCrash, Post, store
  <2>3. Peer(p) \in Party
    BY <1>6, Parties
  <2> QED
    BY <1>3, <1>4, <2>1, <2>2, <2>3
<1>8. CASE Replay(p)
  <2>1. returned' = returned /\ nextId' = [nextId EXCEPT ![p] = nextId[p] + 1]
    BY <1>8 DEF Replay
  <2> QED
    BY <1>3, <2>1
<1>9. CASE PollStep(p) \/ DrainInboxFails(p) \/ Restart(p)
  <2>1. Return(p) \/ (nextId' = nextId /\ returned' = returned)
    BY <1>9 DEF PollStep, ProcessInbox, DrainInbox, HandleEnvelope, GiveUp, SaveLocalState,
                DrainInboxFails, Restart, store, history
  <2> QED
    BY <1>4, <1>5, <2>1
<1> QED
  BY <1>6, <1>7, <1>8, <1>9

\* ProcessInbox shows a user each message at most once and in the order the
\* store accepted them, whatever answers are lost, polls repeated and
\* processes restarted, while SaveLocalState does not fail.
THEOREM DeliveryRefines ==
    ASSUME "save" \notin FaultKinds
    PROVE  Spec => DeliversInOrderOnce
<1>1. Init => Promise!Init
  BY DEF Init, Promise!Init
<1>2. DeliveryInv /\ [Next]_vars => DeliveryInv'
  BY OrderStep
<1>3. DeliveryInv /\ [Next]_vars => [Promise!Next]_<<[p \in Party |-> nextId[p] - 1], returned>>
  <2>1. ASSUME UNCHANGED vars PROVE UNCHANGED <<[p \in Party |-> nextId[p] - 1], returned>>
    BY <2>1 DEF vars, store, history
  <2> QED
    BY <2>1, ShowsOrPosts
<1> QED
  BY <1>1, <1>2, <1>3, InitialOrder, PTL DEF Spec, DeliversInOrderOnce, Promise!Spec

----------------------------------------------------------------------------
\* The two ends keep deriving the same keys.  The invariant says how they
\* differ while messages are under way.

\* The envelopes of a mailbox a session has yet to handle, and those that come
\* with a ratchet key.
Waiting(box, envelopes) == {e \in Entries(box) : e.id \notin Ids(envelopes)}
WithKey(W) == {e \in W : e.env.ratchet # NoKey}

\* The entry f is the one behind e, e is the first, and it is the last.
Behind(e, f, W) == e.id < f.id /\ \A g \in W : ~(e.id < g.id /\ g.id < f.id)
First(e, W) == \A g \in W : e.id <= g.id
Last(e, W) == \A g \in W : g.id <= e.id

Path(e) == e.env.key[1].path
NextKey(e) == <<NextChain(e.env.key[1], e.env.key[2]), e.env.key[2] + 1>>

\* The chain from the sending session s over the envelopes W on their way to
\* the receiving session t: each message key follows from the one before it.
ChainLinked(s, t, W) ==
    /\ W = {} => <<s.sendChain, s.sendCounter>> = <<t.recvChain, t.recvCounter>>
    /\ \A e \in W : e.env.number = e.env.key[2]
    /\ \A e \in W : Last(e, W) => <<s.sendChain, s.sendCounter>> = NextKey(e)
    /\ \A e \in W \ WithKey(W) : First(e, W) => e.env.key = <<t.recvChain, t.recvCounter>>
    /\ \A e \in W, f \in W \ WithKey(W) : Behind(e, f, W) => f.env.key = NextKey(e)

\* The roots: what s has mixed in beyond t is what W carries, one step after
\* the other, each made with the key t has now.
RootLinked(s, t, W) ==
    /\ Len(t.root) <= Len(s.root) => t.root = SubSeq(s.root, 1, Len(t.root))
    /\ Len(s.root) <= Len(t.root) => s.local = t.remote
    /\ \A e \in WithKey(W) :
         /\ e.env.key = <<NewChain("ratchet", Path(e)), 0>>
         /\ Len(t.root) < Len(Path(e)) /\ Len(Path(e)) <= Len(s.root)
         /\ Path(e) = SubSeq(s.root, 1, Len(Path(e)))
         /\ s.root[Len(Path(e))] = SharedSecret(t.local, e.env.ratchet)
         /\ e.env.ratchet # t.remote
         /\ Len(Path(e)) = Len(s.root) => e.env.ratchet = s.local
    /\ \A e, f \in WithKey(W) :
         e.id < f.id => Len(Path(e)) < Len(Path(f)) /\ e.env.ratchet # f.env.ratchet
    /\ \A n \in Len(t.root) + 1 .. Len(s.root) : \E e \in WithKey(W) : Len(Path(e)) = n

\* What s sends reaches t as t expects it.
Joined(s, t, W) == ChainLinked(s, t, W) /\ RootLinked(s, t, W)

\* A user in memory and in the state file; the file counts while nothing was
\* sent since it was written and nothing was deleted that it has not handled.
Views(p) == {<<mem[p].session, handled[p]>>, <<disk[p].session, saved[p]>>}
Current(p) == {v \in Views(p) : v[1].sendChain = mem[p].session.sendChain /\ Deleted(p) \subseteq Ids(v[2])}

\* From whichever views the two users go on.
Linked(p, q) == \A v \in Current(p), w \in Current(q) : Joined(v[1], w[1], Waiting(inbox[q], w[2]))

\* The sending chain of the state file is that of the session in memory, or
\* one it has left.
FileBehind(p) ==
    \/ /\ disk[p].session.sendChain = mem[p].session.sendChain
       /\ disk[p].session.sendCounter = mem[p].session.sendCounter
       /\ disk[p].session.local = mem[p].session.local
    \/ Before(disk[p].session.sendChain, mem[p].session.sendChain)

\* A user who refused nothing and has handled what is no longer in the mailbox.
Steady(p) ==
    /\ rejected[p] = {} /\ Deleted(p) \subseteq Ids(handled[p]) /\ FileBehind(p)
    /\ Len(mem[p].session.sendChain.path) <= Len(mem[p].session.root)
    /\ Len(disk[p].session.sendChain.path) <= Len(disk[p].session.root)

InStep == \A p \in Party : Steady(p) /\ Linked(p, Peer(p))

\* The inductive invariant.
SyncInv == KeyInv /\ (cause = {} => InStep)

\* The counters of a session over a message.
LEMMA SentCounters ==
    ASSUME NEW s \in SessionState, NEW fresh \in RatchetKey, NEW body
    PROVE  /\ AfterSend(s, fresh).recvCounter = s.recvCounter
           /\ AfterSend(s, fresh).sendCounter = SendingSession(s, fresh).sendCounter + 1
           /\ SendingSession(s, fresh).sendCounter = IF RatchetDue(s) THEN 0 ELSE s.sendCounter
           /\ ChatEnvelope(s, fresh, body).number = SendingSession(s, fresh).sendCounter
<1>1. PICK r : r = SendingSession(s, fresh)
  OBVIOUS
<1>2. r \in SessionState
  BY <1>1, SendingTypes
<1>3. r.sendCounter = (IF RatchetDue(s) THEN 0 ELSE s.sendCounter) /\ r.recvCounter = s.recvCounter
  <2>1. CASE RatchetDue(s)
    <3>1. PICK root, chain :
            /\ root = DeriveRatchetRootAndChain(SharedSecret(fresh, s.remote), s.root).root
            /\ chain = DeriveRatchetRootAndChain(SharedSecret(fresh, s.remote), s.root).chain
      OBVIOUS
    <3>2. r = [s EXCEPT !.local = fresh, !.sendChain = chain, !.root = root, !.sendCounter = 0]
      BY <1>1, <2>1, <3>1 DEF SendingSession, RatchetSend
    <3> QED
      BY <2>1, <3>2 DEF SessionState
  <2>2. CASE ~RatchetDue(s)
    BY <1>1, <2>2 DEF SendingSession
  <2> QED
    BY <2>1, <2>2
<1>4. AfterSend(s, fresh).recvCounter = r.recvCounter /\ AfterSend(s, fresh).sendCounter = r.sendCounter + 1
  <2>1. PICK chain : chain = NextChain(r.sendChain, r.sendCounter)
    OBVIOUS
  <2>2. AfterSend(s, fresh) = [r EXCEPT !.sendChain = chain, !.sendCounter = r.sendCounter + 1]
    BY <1>1, <2>1 DEF AfterSend
  <2> QED
    BY <1>2, <2>2 DEF SessionState
<1>5. ChatEnvelope(s, fresh, body).number = r.sendCounter
  BY <1>1 DEF ChatEnvelope
<1> QED
  BY <1>1, <1>3, <1>4, <1>5

\* What HandleChatMessage does to the counters and to the root key.
LEMMA HandledCounters ==
    ASSUME NEW s \in SessionState, NEW env \in Envelope
    PROVE  /\ HandleChatMessage(s, env).sendCounter = s.sendCounter
           /\ Accepts(s, env) => HandleChatMessage(s, env).recvCounter = RatchetReceive(s, env).recvCounter + 1
           /\ env.ratchet \in {NoKey, s.remote} => RatchetReceive(s, env) = s
           /\ env.ratchet \notin {NoKey, s.remote} =>
                /\ RatchetReceive(s, env).recvCounter = 0 /\ RatchetReceive(s, env).remote = env.ratchet
                /\ RatchetReceive(s, env).root = Append(s.root, SharedSecret(s.local, env.ratchet))
                /\ RatchetReceive(s, env).recvChain =
                     NewChain("ratchet", Append(s.root, SharedSecret(s.local, env.ratchet)))
<1>1. PICK r : r = RatchetReceive(s, env)
  OBVIOUS
<1>2. r \in SessionState /\ r.sendCounter = s.sendCounter
  BY <1>1, RatchetedTypes
<1>3. /\ HandleChatMessage(s, env).sendCounter = r.sendCounter
      /\ Accepts(s, env) => HandleChatMessage(s, env).recvCounter = r.recvCounter + 1
  <2>1. CASE Accepts(s, env)
    <3>1. PICK chain : chain = NextChain(r.recvChain, r.recvCounter)
      OBVIOUS
    <3>2. HandleChatMessage(s, env) = [r EXCEPT !.recvChain = chain, !.recvCounter = r.recvCounter + 1]
      BY <1>1, <2>1, <3>1 DEF Accepts, HandleChatMessage
    <3> QED
      BY <1>2, <3>2 DEF SessionState
  <2>2. CASE ~Accepts(s, env)
    BY <1>1, <2>2 DEF Accepts, HandleChatMessage
  <2> QED
    BY <2>1, <2>2
<1>4. env.ratchet \in {NoKey, s.remote} => r = s
  BY <1>1 DEF RatchetReceive
<1>5. ASSUME env.ratchet \notin {NoKey, s.remote}
      PROVE  /\ r.recvCounter = 0 /\ r.remote = env.ratchet
             /\ r.root = Append(s.root, SharedSecret(s.local, env.ratchet))
             /\ r.recvChain = NewChain("ratchet", Append(s.root, SharedSecret(s.local, env.ratchet)))
  <2>1. PICK root, chain, key :
          /\ root = DeriveRatchetRootAndChain(SharedSecret(s.local, env.ratchet), s.root).root
          /\ chain = DeriveRatchetRootAndChain(SharedSecret(s.local, env.ratchet), s.root).chain
          /\ key = env.ratchet
    OBVIOUS
  <2>2. r = [s EXCEPT !.recvChain = chain, !.root = root, !.remote = key, !.recvCounter = 0]
    BY <1>1, <1>5, <2>1 DEF RatchetReceive
  <2>3. r.recvCounter = 0 /\ r.remote = key /\ r.root = root /\ r.recvChain = chain
    BY <2>2 DEF SessionState
  <2>4. s.root \in RootKey /\ s.local \in RatchetKey /\ env.ratchet \in RatchetKey
    BY <1>5 DEF SessionState, Envelope
  <2> QED
    BY <2>1, <2>3, <2>4, Derived
<1> QED
  BY <1>1, <1>2, <1>3, <1>4, <1>5

\* Prefixes of a root.
LEMMA Prefixes ==
    ASSUME NEW root \in RootKey, NEW dh \in SUBSET RatchetKey
    PROVE  /\ SubSeq(root, 1, Len(root)) = root
           /\ Append(root, dh)[Len(root) + 1] = dh
           /\ SubSeq(Append(root, dh), 1, Len(root) + 1) = Append(root, dh)
           /\ \A n \in 0 .. Len(root) : SubSeq(Append(root, dh), 1, n) = SubSeq(root, 1, n)
           /\ \A n \in 1 .. Len(root) : Append(root, dh)[n] = root[n]
<1>1. root \in Seq(SUBSET RatchetKey)
  BY DEF RootKey
<1>2. PICK new : new = Append(root, dh)
  OBVIOUS
<1>3. /\ new \in Seq(SUBSET RatchetKey) /\ Len(new) = Len(root) + 1 /\ new[Len(root) + 1] = dh
      /\ \A i \in 1 .. Len(root) : new[i] = root[i]
  BY <1>1, <1>2, AppendProperties
<1>4. SubSeq(root, 1, Len(root)) = root /\ SubSeq(new, 1, Len(new)) = new
  BY <1>1, <1>3, SubSeqFull
<1>5. ASSUME NEW n \in 0 .. Len(root) PROVE SubSeq(new, 1, n) = SubSeq(root, 1, n)
  <2>1. PICK a, b : a = SubSeq(new, 1, n) /\ b = SubSeq(root, 1, n)
    OBVIOUS
  <2>2. /\ a \in Seq(SUBSET RatchetKey) /\ b \in Seq(SUBSET RatchetKey) /\ Len(a) = n /\ Len(b) = n
        /\ \A i \in 1 .. n : a[i] = new[i] /\ b[i] = root[i]
    BY <1>1, <1>3, <2>1, SMTT(40)
  <2>3. \A i \in 1 .. Len(a) : a[i] = b[i]
    BY <1>1, <1>3, <2>2, SMTT(40)
  <2> QED
    BY <2>1, <2>2, <2>3, SeqEqual
<1> QED
  BY <1>2, <1>3, <1>4, <1>5

\* The next step of a root is the one its continuation has there.
LEMMA NextPrefix ==
    ASSUME NEW root \in RootKey, NEW longer \in RootKey, Len(root) < Len(longer),
           root = SubSeq(longer, 1, Len(root))
    PROVE  Append(root, longer[Len(root) + 1]) = SubSeq(longer, 1, Len(root) + 1)
<1>1. root \in Seq(SUBSET RatchetKey) /\ longer \in Seq(SUBSET RatchetKey)
  BY DEF RootKey
<1>2. PICK n : n \in Nat /\ n = Len(root)
  <2>1. Len(root) \in Nat
    BY <1>1
  <2> QED
    BY <2>1
<1>3. n + 1 \in 1 .. Len(longer) /\ longer[n + 1] \in SUBSET RatchetKey
  BY <1>1, <1>2
<1>4. PICK a, b : a = Append(root, longer[n + 1]) /\ b = SubSeq(longer, 1, n + 1)
  OBVIOUS
<1>5. /\ a \in Seq(SUBSET RatchetKey) /\ Len(a) = n + 1 /\ a[n + 1] = longer[n + 1]
      /\ \A i \in 1 .. n : a[i] = root[i]
  BY <1>1, <1>2, <1>3, <1>4, AppendProperties
<1>6. /\ b \in Seq(SUBSET RatchetKey) /\ Len(b) = n + 1 /\ \A i \in 1 .. n + 1 : b[i] = longer[i]
  BY <1>1, <1>2, <1>3, <1>4
<1>7. \A i \in 1 .. n : root[i] = longer[i]
  <2>1. PICK c : c = SubSeq(longer, 1, n)
    OBVIOUS
  <2>2. \A i \in 1 .. n : c[i] = longer[i]
    BY <1>1, <1>2, <1>3, <2>1
  <2> QED
    BY <1>2, <2>1, <2>2
<1>8. \A i \in 1 .. Len(a) : a[i] = b[i]
  BY <1>2, <1>5, <1>6, <1>7
<1> QED
  BY <1>2, <1>4, <1>5, <1>6, <1>8, SeqEqual

----------------------------------------------------------------------------
\* A message on its way.

\* One more message behind those under way, and the chain it was sealed with.
LEMMA ChainSent ==
    ASSUME NEW s, NEW t, NEW u, NEW W \in SUBSET Entry, NEW e \in Entry,
           \A g \in W : g.id < e.id, ChainLinked(s, t, W),
           e.env.number = e.env.key[2],
           <<u.sendChain, u.sendCounter>> = NextKey(e),
           e.env.ratchet = NoKey => e.env.key = <<s.sendChain, s.sendCounter>>
    PROVE  ChainLinked(u, t, W \cup {e})
<1> DEFINE X == W \cup {e}
<1>1. \A g \in X : g.id \in Nat
  BY DEF Entry
<1>2. \A g \in W : g.id \in Nat /\ e.id \in Nat /\ g.id < e.id /\ ~(e.id <= g.id) /\ ~(e.id < g.id) /\ g # e
  BY <1>1
<1>3. \A g \in X : g.env.number = g.env.key[2]
  BY DEF ChainLinked
<1>4. ASSUME NEW g \in X, Last(g, X) PROVE <<u.sendChain, u.sendCounter>> = NextKey(g)
  BY <1>2, <1>4 DEF Last
<1>5. ASSUME NEW g \in X \ WithKey(X), First(g, X) PROVE g.env.key = <<t.recvChain, t.recvCounter>>
  <2>1. CASE g = e
    <3>1. W = {} /\ e.env.ratchet = NoKey
      BY <1>2, <1>5, <2>1 DEF First, WithKey
    <3> QED
      BY <2>1, <3>1 DEF ChainLinked
  <2>2. CASE g \in W
    BY <1>5, <2>2 DEF First, WithKey, ChainLinked
  <2> QED
    BY <2>1, <2>2
<1>6. ASSUME NEW f \in X, NEW g \in X \ WithKey(X), Behind(f, g, X) PROVE g.env.key = NextKey(f)
  <2>1. f \in W /\ f.id < g.id
    <3>1. f.id < g.id
      BY <1>6 DEF Behind
    <3> QED
      BY <1>1, <1>2, <3>1
  <2>2. CASE g = e
    <3>1. e.env.ratchet = NoKey
      BY <2>2 DEF WithKey
    <3>2. Last(f, W)
      <4> SUFFICES ASSUME NEW h \in W PROVE h.id <= f.id
        BY DEF Last
      <4>1. ~(f.id < h.id /\ h.id < g.id)
        BY <1>6 DEF Behind
      <4> QED
        BY <1>1, <1>2, <2>1, <2>2, <4>1
    <3> QED
      BY <2>1, <2>2, <3>1, <3>2 DEF ChainLinked
  <2>3. CASE g \in W
    BY <1>6, <2>1, <2>3 DEF Behind, WithKey, ChainLinked
  <2> QED
    BY <2>2, <2>3
<1> QED
  BY <1>3, <1>4, <1>5, <1>6 DEF ChainLinked

\* The chains of two sessions whose sending and receiving ends are the same.
LEMMA ChainKept ==
    ASSUME NEW s, NEW t, NEW u, NEW v, NEW W, ChainLinked(s, t, W),
           u.sendChain = s.sendChain, u.sendCounter = s.sendCounter,
           v.recvChain = t.recvChain, v.recvCounter = t.recvCounter
    PROVE  ChainLinked(u, v, W)
BY DEF ChainLinked

\* The agreement of two ends on the root depends on their keys, and on the
\* ratchet keys under way.
LEMMA RootKept ==
    ASSUME NEW s, NEW t, NEW u, NEW v, NEW W, NEW X, RootLinked(s, t, W), WithKey(X) = WithKey(W),
           u.root = s.root, u.local = s.local,
           v.root = t.root, v.local = t.local, v.remote = t.remote
    PROVE  RootLinked(u, v, X)
BY DEF RootLinked

\* A ratchet step that does not cross another: the peer has nothing to tell
\* about its own root.
LEMMA NothingNew ==
    ASSUME NEW s \in SessionState, NEW t \in SessionState, NEW V \in SUBSET Entry,
           RootLinked(t, s, V), t.local = s.remote
    PROVE  Len(t.root) <= Len(s.root)
<1>1. Len(t.root) \in Nat /\ Len(s.root) \in Nat
  BY DEF SessionState, RootKey
<1>2. ASSUME Len(s.root) < Len(t.root) PROVE FALSE
  <2>1. Len(t.root) \in Len(s.root) + 1 .. Len(t.root)
    BY <1>1, <1>2
  <2>2. PICK f \in WithKey(V) : Len(Path(f)) = Len(t.root)
    BY <2>1 DEF RootLinked
  <2>3. f.env.ratchet = t.local /\ f.env.ratchet # s.remote
    BY <2>2 DEF RootLinked
  <2> QED
    BY <2>3
<1> QED
  BY <1>1, <1>2

\* An end whose root is no shorter than the peer's has no ratchet key under way.
LEMMA NoKeysAhead ==
    ASSUME NEW s \in SessionState, NEW t \in SessionState, NEW V \in SUBSET Entry,
           RootLinked(t, s, V), Len(t.root) <= Len(s.root)
    PROVE  WithKey(V) = {}
<1>1. Len(t.root) \in Nat /\ Len(s.root) \in Nat
  BY DEF SessionState, RootKey
<1>2. ASSUME NEW f \in WithKey(V) PROVE FALSE
  <2>1. Len(s.root) < Len(Path(f)) /\ Len(Path(f)) <= Len(t.root)
    BY DEF RootLinked
  <2>2. Path(f) \in RootKey
    BY DEF Path, WithKey, Entry, Envelope, ChainKey
  <2>3. Len(Path(f)) \in Nat
    BY <2>2 DEF RootKey
  <2> QED
    BY <1>1, <2>1, <2>3
<1> QED
  BY <1>2

\* The ratchet step adds one step to the roots under way.
LEMMA RootSent ==
    ASSUME NEW s \in SessionState, NEW t \in SessionState, NEW u \in SessionState,
           NEW W \in SUBSET Entry, NEW V \in SUBSET Entry, NEW e \in Entry,
           \A g \in W : g.id < e.id, RootLinked(s, t, W), RootLinked(t, s, V),
           t.local = s.remote, u.remote = s.remote, u.local # t.remote,
           \A g \in W : g.env.ratchet # u.local,
           u.root = Append(s.root, SharedSecret(u.local, s.remote)),
           e.env.ratchet = u.local, e.env.key = <<NewChain("ratchet", u.root), 0>>
    PROVE  RootLinked(u, t, W \cup {e}) /\ RootLinked(t, u, V)
<1> DEFINE X == W \cup {e}
<1>1. s.root \in RootKey /\ u.local \in RatchetKey /\ s.remote \in RatchetKey /\ u.root \in RootKey
  BY DEF SessionState
<1>2. PICK dh \in SUBSET RatchetKey : dh = SharedSecret(u.local, s.remote) /\ dh = SharedSecret(t.local, u.local)
  BY <1>1 DEF SharedSecret
<1>3. PICK n \in Nat : n = Len(s.root)
  <2>1. Len(s.root) \in Nat
    BY <1>1 DEF RootKey
  <2> QED
    BY <2>1
<1>4. PICK m \in Nat : m = Len(t.root) /\ m <= n
  <2>1. Len(t.root) \in Nat
    BY DEF SessionState, RootKey
  <2>2. Len(t.root) <= Len(s.root)
    BY NothingNew
  <2> QED
    BY <1>3, <2>1, <2>2
<1>5. /\ Len(u.root) = n + 1 /\ u.root[n + 1] = dh /\ SubSeq(u.root, 1, n + 1) = u.root
      /\ \A i \in 0 .. n : SubSeq(u.root, 1, i) = SubSeq(s.root, 1, i)
      /\ \A i \in 1 .. n : u.root[i] = s.root[i]
  <2>1. Len(u.root) = n + 1
    BY <1>1, <1>3, Derived
  <2> QED
    BY <1>1, <1>2, <1>3, <2>1, Prefixes
<1>6. Path(e) = u.root
  <2>1. NewChain("ratchet", u.root).path = u.root
    BY <1>1, ChainTypes
  <2> QED
    BY <2>1 DEF Path
<1>7. ASSUME NEW g \in WithKey(W)
      PROVE  /\ g.env.key = <<NewChain("ratchet", Path(g)), 0>>
             /\ m < Len(Path(g)) /\ Len(Path(g)) <= n /\ Len(Path(g)) \in Nat
             /\ Path(g) = SubSeq(u.root, 1, Len(Path(g)))
             /\ u.root[Len(Path(g))] = SharedSecret(t.local, g.env.ratchet)
             /\ g.env.ratchet # t.remote
  <2>1. Path(g) \in RootKey
    BY DEF Path, WithKey, Entry, Envelope, ChainKey
  <2>2. PICK i \in Nat : i = Len(Path(g))
    <3>1. Len(Path(g)) \in Nat
      BY <2>1 DEF RootKey
    <3> QED
      BY <3>1
  <2>3. /\ g.env.key = <<NewChain("ratchet", Path(g)), 0>>
        /\ m < i /\ i <= n
        /\ Path(g) = SubSeq(s.root, 1, i)
        /\ s.root[i] = SharedSecret(t.local, g.env.ratchet)
        /\ g.env.ratchet # t.remote
    BY <1>3, <1>4, <2>2 DEF RootLinked
  <2>4. i \in 1 .. n /\ i \in 0 .. n
    BY <2>3
  <2> QED
    BY <1>5, <2>2, <2>3, <2>4
<1>8. WithKey(X) \subseteq WithKey(W) \cup {e} /\ WithKey(W) \subseteq WithKey(X) /\ WithKey(W) \subseteq W
  BY DEF WithKey
<1>9. e \in WithKey(X)
  BY <1>1, MessagingAssumption DEF WithKey, RatchetKey
<1>10. ASSUME NEW g \in WithKey(X)
       PROVE  /\ g.env.key = <<NewChain("ratchet", Path(g)), 0>>
              /\ Len(t.root) < Len(Path(g)) /\ Len(Path(g)) <= Len(u.root)
              /\ Path(g) = SubSeq(u.root, 1, Len(Path(g)))
              /\ u.root[Len(Path(g))] = SharedSecret(t.local, g.env.ratchet)
              /\ g.env.ratchet # t.remote
              /\ Len(Path(g)) = Len(u.root) => g.env.ratchet = u.local
  <2>1. CASE g = e
    <3>1. /\ g.env.key = <<NewChain("ratchet", Path(g)), 0>> /\ g.env.ratchet = u.local
          /\ Path(g) = SubSeq(u.root, 1, Len(Path(g))) /\ Len(Path(g)) = n + 1 /\ Len(u.root) = n + 1
      BY <1>5, <1>6, <2>1
    <3>2. Len(t.root) < Len(Path(g)) /\ Len(Path(g)) <= Len(u.root)
      BY <1>4, <3>1
    <3>3. u.root[Len(Path(g))] = SharedSecret(t.local, g.env.ratchet)
      BY <1>2, <1>5, <3>1
    <3> QED
      BY <3>1, <3>2, <3>3
  <2>2. CASE g \in WithKey(W)
    BY <1>3, <1>4, <1>5, <1>7, <2>2
  <2> QED
    BY <1>8, <2>1, <2>2
<1>11. ASSUME NEW g \in WithKey(X), NEW h \in WithKey(X), g.id < h.id
       PROVE  Len(Path(g)) < Len(Path(h)) /\ g.env.ratchet # h.env.ratchet
  <2>1. g \in WithKey(W)
    <3>1. \A f \in X : f.id \in Nat
      BY DEF Entry
    <3>2. h \in X /\ g \in X
      BY DEF WithKey
    <3>3. g # e
      BY <1>11, <3>1, <3>2
    <3> QED
      BY <1>8, <3>3
  <2>2. CASE h = e
    BY <1>3, <1>5, <1>6, <1>7, <1>8, <2>1, <2>2
  <2>3. CASE h \in WithKey(W)
    BY <1>11, <2>1, <2>3 DEF RootLinked
  <2> QED
    BY <1>8, <2>2, <2>3
<1>12. ASSUME NEW i \in m + 1 .. n + 1 PROVE \E g \in WithKey(X) : Len(Path(g)) = i
  <2>1. CASE i = n + 1
    BY <1>5, <1>6, <1>9, <2>1
  <2>2. CASE i # n + 1
    <3>1. i \in Len(t.root) + 1 .. Len(s.root)
      BY <1>3, <1>4, <2>2
    <3> QED
      BY <1>8, <3>1 DEF RootLinked
  <2> QED
    BY <2>1, <2>2
<1>13. t.root = SubSeq(u.root, 1, Len(t.root)) /\ ~(Len(u.root) <= Len(t.root))
  <2>1. t.root = SubSeq(s.root, 1, m)
    BY <1>3, <1>4 DEF RootLinked
  <2>2. m \in 0 .. n
    BY <1>4
  <2> QED
    BY <1>4, <1>5, <2>1, <2>2
<1>14. RootLinked(u, t, X)
  BY <1>4, <1>5, <1>10, <1>11, <1>12, <1>13 DEF RootLinked
<1>15. WithKey(V) = {}
  BY <1>3, <1>4, NoKeysAhead
<1>16. RootLinked(t, u, V)
  <2>1. Len(u.root) + 1 .. Len(t.root) = {}
    BY <1>3, <1>4, <1>5
  <2> QED
    BY <1>13, <1>15, <2>1 DEF RootLinked
<1> QED
  BY <1>14, <1>16

\* The first of the messages under way is handled.
LEMMA ChainHandled ==
    ASSUME NEW s, NEW t, NEW u, NEW W \in SUBSET Entry, NEW e \in W, First(e, W),
           \A g \in W : g.id = e.id => g = e, ChainLinked(s, t, W),
           <<u.recvChain, u.recvCounter>> = NextKey(e)
    PROVE  ChainLinked(s, u, W \ {e})
<1> DEFINE X == W \ {e}
<1>1. \A g \in W : g.id \in Nat /\ e.id \in Nat
  BY DEF Entry
<1>2. \A g \in X : e.id < g.id /\ ~(g.id < e.id) /\ ~(g.id <= e.id)
  BY <1>1 DEF First
<1>3. ASSUME X = {} PROVE <<s.sendChain, s.sendCounter>> = <<u.recvChain, u.recvCounter>>
  <2>1. Last(e, W)
    BY <1>1, <1>3 DEF Last
  <2> QED
    BY <2>1 DEF ChainLinked
<1>4. ASSUME NEW g \in X, Last(g, X) PROVE <<s.sendChain, s.sendCounter>> = NextKey(g)
  <2>1. Last(g, W)
    BY <1>1, <1>2, <1>4 DEF Last
  <2> QED
    BY <2>1 DEF ChainLinked
<1>5. ASSUME NEW g \in X \ WithKey(X), First(g, X) PROVE g.env.key = <<u.recvChain, u.recvCounter>>
  <2>1. Behind(e, g, W)
    <3>1. \A h \in W : ~(e.id < h.id /\ h.id < g.id)
      BY <1>1, <1>5 DEF First
    <3> QED
      BY <1>2, <3>1 DEF Behind
  <2>2. g \in W \ WithKey(W)
    BY DEF WithKey
  <2> QED
    BY <2>1, <2>2 DEF ChainLinked
<1>6. ASSUME NEW f \in X, NEW g \in X \ WithKey(X), Behind(f, g, X) PROVE g.env.key = NextKey(f)
  <2>1. Behind(f, g, W)
    BY <1>1, <1>2, <1>6 DEF Behind
  <2>2. g \in W \ WithKey(W)
    BY DEF WithKey
  <2> QED
    BY <2>1, <2>2 DEF ChainLinked
<1> QED
  BY <1>3, <1>4, <1>5, <1>6 DEF ChainLinked

\* A first message with a ratchet key carries the next step of the root.
LEMMA NextStep ==
    ASSUME NEW s \in SessionState, NEW t \in SessionState, NEW W \in SUBSET Entry,
           NEW e \in WithKey(W), First(e, W), \A g \in W : g.id = e.id => g = e, RootLinked(s, t, W)
    PROVE  /\ Len(t.root) < Len(s.root) /\ Len(Path(e)) = Len(t.root) + 1
           /\ Path(e) = Append(t.root, SharedSecret(t.local, e.env.ratchet))
           /\ e.env.ratchet \notin {NoKey, t.remote} /\ e.env.key = <<NewChain("ratchet", Path(e)), 0>>
<1>1. PICK n \in Nat, m \in Nat : n = Len(s.root) /\ m = Len(t.root)
  <2>1. Len(t.root) \in Nat /\ Len(s.root) \in Nat
    BY DEF SessionState, RootKey
  <2> QED
    BY <2>1
<1>2. PICK k \in Nat : k = Len(Path(e))
  <2>1. Path(e) \in RootKey
    BY DEF Path, WithKey, Entry, Envelope, ChainKey
  <2>2. Len(Path(e)) \in Nat
    BY <2>1 DEF RootKey
  <2> QED
    BY <2>2
<1>3. /\ m < k /\ k <= n /\ Path(e) = SubSeq(s.root, 1, k)
      /\ s.root[k] = SharedSecret(t.local, e.env.ratchet) /\ e.env.ratchet # t.remote
      /\ e.env.key = <<NewChain("ratchet", Path(e)), 0>>
      /\ t.root = SubSeq(s.root, 1, m)
  BY <1>1, <1>2 DEF RootLinked
<1>4. k = m + 1
  <2>1. m + 1 \in Len(t.root) + 1 .. Len(s.root)
    BY <1>1, <1>2, <1>3
  <2>2. PICK f \in WithKey(W) : Len(Path(f)) = m + 1
    BY <2>1 DEF RootLinked
  <2>3. CASE f = e
    BY <1>2, <2>2, <2>3
  <2>4. CASE f # e
    <3>1. f \in W /\ f.id \in Nat /\ e.id \in Nat
      BY DEF WithKey, Entry
    <3>2. e.id < f.id
      BY <2>4, <3>1 DEF First
    <3>3. Len(Path(e)) < Len(Path(f))
      BY <3>2 DEF RootLinked
    <3> QED
      BY <1>2, <1>3, <2>2, <3>3
  <2> QED
    BY <2>3, <2>4
<1>5. Append(t.root, s.root[m + 1]) = SubSeq(s.root, 1, m + 1)
  <2>1. t.root \in RootKey /\ s.root \in RootKey
    BY DEF SessionState
  <2> QED
    BY <1>1, <1>3, <2>1, NextPrefix
<1> QED
  BY <1>1, <1>2, <1>3, <1>4, <1>5 DEF WithKey

\* The receiver takes that step.
LEMMA RootHandled ==
    ASSUME NEW s \in SessionState, NEW t \in SessionState, NEW u \in SessionState,
           NEW W \in SUBSET Entry, NEW V \in SUBSET Entry,
           NEW e \in WithKey(W), First(e, W), \A g \in W : g.id = e.id => g = e,
           RootLinked(s, t, W), RootLinked(t, s, V),
           u.local = t.local, u.remote = e.env.ratchet, u.root = Path(e)
    PROVE  RootLinked(s, u, W \ {e}) /\ RootLinked(u, s, V)
<1> DEFINE X == W \ {e}
<1>1. PICK n \in Nat, m \in Nat : n = Len(s.root) /\ m = Len(t.root)
  <2>1. Len(t.root) \in Nat /\ Len(s.root) \in Nat
    BY DEF SessionState, RootKey
  <2> QED
    BY <2>1
<1>2. m < n /\ Len(u.root) = m + 1
  BY <1>1, NextStep
<1>3. /\ u.root = SubSeq(s.root, 1, m + 1)
      /\ m + 1 = n => u.remote = s.local
  BY <1>1, <1>2 DEF RootLinked
<1>4. WithKey(X) = WithKey(W) \ {e}
  BY DEF WithKey
<1>5. \A g \in WithKey(X) : Len(u.root) < Len(Path(g)) /\ g.env.ratchet # u.remote
  <2>1. \A g \in W : g.id \in Nat
    BY DEF Entry
  <2> SUFFICES ASSUME NEW g \in WithKey(X) PROVE Len(u.root) < Len(Path(g)) /\ g.env.ratchet # u.remote
    OBVIOUS
  <2>2. g \in WithKey(W) /\ g # e /\ g \in W /\ e \in W
    BY <1>4 DEF WithKey
  <2>3. e.id < g.id
    BY <2>1, <2>2 DEF First
  <2> QED
    BY <2>2, <2>3 DEF RootLinked
<1>6. \A i \in m + 2 .. n : \E g \in WithKey(X) : Len(Path(g)) = i
  <2> SUFFICES ASSUME NEW i \in m + 2 .. n PROVE \E g \in WithKey(X) : Len(Path(g)) = i
    OBVIOUS
  <2>1. i \in Len(t.root) + 1 .. Len(s.root)
    BY <1>1
  <2>2. PICK g \in WithKey(W) : Len(Path(g)) = i
    BY <2>1 DEF RootLinked
  <2>3. g # e
    BY <1>2, <2>2
  <2> QED
    BY <1>4, <2>2, <2>3
<1>7. Len(u.root) + 1 = m + 2 /\ (Len(s.root) <= Len(u.root) => m + 1 = n)
  BY <1>1, <1>2
<1>8. RootLinked(s, u, X)
  <2>1. \A g \in WithKey(X) :
         /\ g.env.key = <<NewChain("ratchet", Path(g)), 0>>
         /\ Len(Path(g)) <= Len(s.root)
         /\ Path(g) = SubSeq(s.root, 1, Len(Path(g)))
         /\ s.root[Len(Path(g))] = SharedSecret(u.local, g.env.ratchet)
         /\ Len(Path(g)) = Len(s.root) => g.env.ratchet = s.local
    BY <1>4 DEF RootLinked
  <2>2. \A g, h \in WithKey(X) :
         g.id < h.id => Len(Path(g)) < Len(Path(h)) /\ g.env.ratchet # h.env.ratchet
    BY <1>4 DEF RootLinked
  <2>3. \A i \in Len(u.root) + 1 .. Len(s.root) : \E g \in WithKey(X) : Len(Path(g)) = i
    BY <1>1, <1>6, <1>7
  <2>4. u.root = SubSeq(s.root, 1, Len(u.root)) /\ (Len(s.root) <= Len(u.root) => s.local = u.remote)
    BY <1>2, <1>3, <1>7
  <2> QED
    BY <1>5, <2>1, <2>2, <2>3, <2>4 DEF RootLinked
<1>9. WithKey(V) = {} /\ t.local = s.remote
  <2>1. WithKey(V) = {}
    BY <1>1, <1>2, NoKeysAhead
  <2> QED
    BY <1>1, <1>2, <2>1 DEF RootLinked
<1>10. RootLinked(u, s, V)
  <2>1. Len(s.root) + 1 .. Len(u.root) = {}
    BY <1>1, <1>2
  <2>2. ASSUME Len(s.root) <= Len(u.root) PROVE s.root = SubSeq(u.root, 1, Len(s.root))
    <3>1. m + 1 = n
      BY <1>7, <2>2
    <3>2. s.root \in Seq(SUBSET RatchetKey)
      BY DEF SessionState, RootKey
    <3>3. SubSeq(s.root, 1, n) = s.root
      BY <1>1, <3>2, SubSeqFull
    <3> QED
      BY <1>1, <1>3, <3>1, <3>3
  <2> QED
    BY <1>9, <2>1, <2>2 DEF RootLinked
<1> QED
  BY <1>8, <1>10

\* SendMessage, its envelope posted.
LEMMA MessageSent ==
    ASSUME NEW s \in SessionState, NEW t \in SessionState, NEW fresh \in RatchetKey,
           NEW body \in Party \X Nat, NEW W \in SUBSET Entry, NEW V \in SUBSET Entry, NEW e \in Entry,
           e.env = ChatEnvelope(s, fresh, body), \A g \in W : g.id < e.id,
           Joined(s, t, W), Joined(t, s, V),
           RatchetDue(s) => /\ t.local = s.remote /\ fresh # t.remote
                            /\ \A g \in W : g.env.ratchet # fresh
    PROVE  Joined(AfterSend(s, fresh), t, W \cup {e}) /\ Joined(t, AfterSend(s, fresh), V)
<1>1. PICK u \in SessionState : u = AfterSend(s, fresh)
  BY SentTypes
<1>2. PICK r \in SessionState : r = SendingSession(s, fresh)
  BY SendingTypes
<1>3. /\ u.recvChain = s.recvChain /\ u.remote = s.remote /\ u.root = r.root /\ u.local = r.local
      /\ u.sendChain = NextChain(r.sendChain, r.sendCounter)
  BY <1>1, <1>2, SentTypes
<1>4. /\ u.recvCounter = s.recvCounter /\ u.sendCounter = r.sendCounter + 1
      /\ r.sendCounter = IF RatchetDue(s) THEN 0 ELSE s.sendCounter
      /\ e.env.number = r.sendCounter
  BY <1>1, <1>2, SentCounters
<1>5. e.env.key = <<r.sendChain, r.sendCounter>> /\ e.env.ratchet = IF RatchetDue(s) THEN fresh ELSE NoKey
  BY <1>2, SealedTypes
<1>6. /\ ~RatchetDue(s) => r = s
      /\ RatchetDue(s) => /\ r.root = Append(s.root, SharedSecret(fresh, s.remote))
                          /\ r.sendChain = NewChain("ratchet", r.root) /\ r.local = fresh
  <2>1. ~RatchetDue(s) => r = s
    BY <1>2, SendingTypes
  <2>2. ASSUME RatchetDue(s)
        PROVE  /\ r.root = Append(s.root, SharedSecret(fresh, s.remote))
               /\ r.sendChain = NewChain("ratchet", Append(s.root, SharedSecret(fresh, s.remote)))
               /\ r.local = fresh
    BY <1>2, <2>2, SendingTypes
  <2> QED
    BY <2>1, <2>2
<1>7. ChainLinked(u, t, W \cup {e})
  <2>1. e.env.key[1] = r.sendChain /\ e.env.key[2] = r.sendCounter
    BY <1>5
  <2>2. <<u.sendChain, u.sendCounter>> = NextKey(e)
    BY <1>3, <1>4, <2>1 DEF NextKey
  <2>3. ASSUME e.env.ratchet = NoKey PROVE e.env.key = <<s.sendChain, s.sendCounter>>
    <3>1. ~RatchetDue(s)
      BY <1>5, <2>3, MessagingAssumption DEF RatchetKey
    <3> QED
      BY <1>5, <1>6, <3>1
  <2>4. ChainLinked(s, t, W)
    BY DEF Joined
  <2> QED
    BY <1>4, <2>1, <2>2, <2>3, <2>4, ChainSent
<1>8. ChainLinked(t, u, V)
  <2>1. ChainLinked(t, s, V)
    BY DEF Joined
  <2> QED
    BY <1>3, <1>4, <2>1, ChainKept
<1>9. RootLinked(u, t, W \cup {e}) /\ RootLinked(t, u, V)
  <2>0. RootLinked(s, t, W) /\ RootLinked(t, s, V)
    BY DEF Joined
  <2>1. CASE RatchetDue(s)
    <3>1. /\ t.local = s.remote /\ u.remote = s.remote /\ u.local = fresh /\ u.local # t.remote
          /\ \A g \in W : g.env.ratchet # u.local
          /\ u.root = Append(s.root, SharedSecret(u.local, s.remote))
          /\ e.env.ratchet = u.local
      BY <1>3, <1>5, <1>6, <2>1
    <3>2. e.env.key = <<NewChain("ratchet", u.root), 0>>
      BY <1>3, <1>4, <1>5, <1>6, <2>1
    <3> QED
      BY <2>0, <3>1, <3>2, RootSent
  <2>2. CASE ~RatchetDue(s)
    <3>1. u.root = s.root /\ u.local = s.local /\ u.remote = s.remote /\ e.env.ratchet = NoKey
      BY <1>3, <1>5, <1>6, <2>2
    <3>2. WithKey(W \cup {e}) = WithKey(W)
      BY <3>1 DEF WithKey
    <3>3. RootLinked(u, t, W \cup {e})
      BY <2>0, <3>1, <3>2, RootKept
    <3>4. RootLinked(t, u, V)
      BY <2>0, <3>1, RootKept
    <3> QED
      BY <3>3, <3>4
  <2> QED
    BY <2>1, <2>2
<1> QED
  BY <1>1, <1>7, <1>8, <1>9 DEF Joined

\* HandleChatMessage, with the first envelope that waits.
LEMMA MessageHandled ==
    ASSUME NEW s \in SessionState, NEW t \in SessionState, NEW W \in SUBSET Entry, NEW V \in SUBSET Entry,
           NEW e \in W, First(e, W), \A g \in W : g.id = e.id => g = e,
           Joined(s, t, W), Joined(t, s, V)
    PROVE  /\ Accepts(t, e.env)
           /\ Joined(s, HandleChatMessage(t, e.env), W \ {e}) /\ Joined(HandleChatMessage(t, e.env), s, V)
<1>0. /\ ChainLinked(s, t, W) /\ RootLinked(s, t, W) /\ ChainLinked(t, s, V) /\ RootLinked(t, s, V)
  BY DEF Joined
<1>1. e.env \in Envelope /\ t.root \in RootKey /\ t.local \in RatchetKey /\ t.recvCounter \in Nat
  BY DEF Entry, SessionState
<1>2. PICK r \in SessionState : r = RatchetReceive(t, e.env)
  BY <1>1, RatchetedTypes
<1>3. e.env.number = e.env.key[2] /\ e.env.key = <<e.env.key[1], e.env.key[2]>>
  <2>1. e.env.key \in ChainKey \X Nat
    BY <1>1 DEF Envelope
  <2> QED
    BY <1>0, <2>1 DEF ChainLinked
<1>4. /\ e.env.key = <<r.recvChain, r.recvCounter>>
      /\ e \in WithKey(W) => r.root = Path(e) /\ r.remote = e.env.ratchet
      /\ e \notin WithKey(W) => r = t
  <2>1. CASE e \in WithKey(W)
    <3>1. /\ Path(e) = Append(t.root, SharedSecret(t.local, e.env.ratchet))
          /\ e.env.ratchet \notin {NoKey, t.remote} /\ e.env.key = <<NewChain("ratchet", Path(e)), 0>>
      BY <1>0, <2>1, NextStep
    <3>2. /\ r.recvCounter = 0 /\ r.remote = e.env.ratchet
          /\ r.root = Append(t.root, SharedSecret(t.local, e.env.ratchet))
          /\ r.recvChain = NewChain("ratchet", Append(t.root, SharedSecret(t.local, e.env.ratchet)))
      BY <1>1, <1>2, <3>1, HandledCounters
    <3> QED
      BY <2>1, <3>1, <3>2
  <2>2. CASE e \notin WithKey(W)
    <3>1. e.env.ratchet = NoKey
      BY <2>2 DEF WithKey
    <3>2. r = t
      BY <1>2, <3>1 DEF RatchetReceive
    <3> QED
      BY <1>0, <2>2, <3>2 DEF ChainLinked
  <2> QED
    BY <2>1, <2>2
<1>5. Accepts(t, e.env)
  <2>1. e.env.key[2] = r.recvCounter
    BY <1>4
  <2> QED
    BY <1>2, <1>3, <1>4, <2>1 DEF Accepts, Opens, MessageKey
<1>6. PICK u \in SessionState : u = HandleChatMessage(t, e.env)
  BY <1>1, HandledTypes
<1>7. /\ u.sendChain = t.sendChain /\ u.local = t.local /\ u.root = r.root /\ u.remote = r.remote
      /\ u.recvChain = NextChain(r.recvChain, r.recvCounter)
  BY <1>1, <1>2, <1>5, <1>6, HandledTypes
<1>8. u.sendCounter = t.sendCounter /\ u.recvCounter = r.recvCounter + 1
  BY <1>1, <1>2, <1>5, <1>6, HandledCounters
<1>9. ChainLinked(s, u, W \ {e})
  <2>1. <<u.recvChain, u.recvCounter>> = NextKey(e)
    BY <1>4, <1>7, <1>8 DEF NextKey
  <2> QED
    BY <1>0, <2>1, ChainHandled
<1>10. ChainLinked(u, s, V)
  BY <1>0, <1>7, <1>8, ChainKept
<1>11. RootLinked(s, u, W \ {e}) /\ RootLinked(u, s, V)
  <2>1. CASE e \in WithKey(W)
    <3>1. u.local = t.local /\ u.remote = e.env.ratchet /\ u.root = Path(e)
      BY <1>4, <1>7, <2>1
    <3> QED
      BY ONLY <1>0, <2>1, <3>1, RootHandled, s \in SessionState, t \in SessionState, u \in SessionState,
              W \in SUBSET Entry, V \in SUBSET Entry, First(e, W), \A g \in W : g.id = e.id => g = e
  <2>2. CASE e \notin WithKey(W)
    <3>1. WithKey(W \ {e}) = WithKey(W) /\ u.root = t.root /\ u.local = t.local /\ u.remote = t.remote
      BY <1>4, <1>7, <2>2 DEF WithKey
    <3>2. RootLinked(s, u, W \ {e})
      BY <1>0, <3>1, RootKept
    <3>3. RootLinked(u, s, V)
      BY <1>0, <3>1, RootKept
    <3> QED
      BY <3>2, <3>3
  <2> QED
    BY <2>1, <2>2
<1> QED
  BY <1>5, <1>6, <1>9, <1>10, <1>11 DEF Joined

----------------------------------------------------------------------------
\* The steps.

\* What a view of a user is.
LEMMA ViewTypes ==
    ASSUME MailInv, NEW p \in Party, NEW v \in Current(p)
    PROVE  /\ v[1] \in SessionState /\ v[2] \in {handled[p], saved[p]}
           /\ v[1].sendChain = mem[p].session.sendChain /\ Deleted(p) \subseteq Ids(v[2])
           /\ \A h \in Ids(v[2]) : h < nextId[p]
           /\ Waiting(inbox[p], v[2]) \in SUBSET Entry
<1>1. /\ mem[p].session \in SessionState /\ disk[p].session \in SessionState /\ inbox[p] \in Seq(Entry)
      /\ HasIds(Entry)
  BY UserTypes DEF MailInv, ClientState
<1>2. /\ v \in Views(p) /\ v[1].sendChain = mem[p].session.sendChain /\ Deleted(p) \subseteq Ids(v[2])
  BY DEF Current
<1>3. \/ v[1] = mem[p].session /\ v[2] = handled[p]
      \/ v[1] = disk[p].session /\ v[2] = saved[p]
  BY <1>2 DEF Views
<1>4. (\A h \in Ids(handled[p]) : h < nextId[p]) /\ (\A h \in Ids(saved[p]) : h < nextId[p])
  BY DEF MailInv, Mailbox
<1>5. Entries(inbox[p]) \subseteq Entry
  BY <1>1, BoxTypes
<1>6. Waiting(inbox[p], v[2]) \in SUBSET Entry
  BY <1>5 DEF Waiting
<1>7. v[1] \in SessionState /\ v[2] \in {handled[p], saved[p]} /\ \A h \in Ids(v[2]) : h < nextId[p]
  BY <1>1, <1>3, <1>4
<1> QED
  BY <1>2, <1>6, <1>7

\* The client in memory is one.
LEMMA MemCurrent ==
    ASSUME NEW p \in Party, Steady(p)
    PROVE  <<mem[p].session, handled[p]>> \in Current(p)
BY DEF Steady, Current, Views

\* No chain comes before itself.
LEMMA NotBeforeItself ==
    ASSUME NEW c \in ChainKey
    PROVE  ~Before(c, c)
<1>1. c.path \in Seq(SUBSET RatchetKey) /\ c.used \in Seq(Nat)
  BY DEF ChainKey, RootKey
<1>2. Len(c.path) \in Nat /\ Len(c.used) \in Nat
  BY <1>1
<1> QED
  BY <1>2 DEF Before

\* While the state file counts, its ratchet key is that of the client.
LEMMA CurrentKey ==
    ASSUME MailInv, NEW p \in Party, Steady(p), NEW v \in Current(p)
    PROVE  v[1].local = mem[p].session.local /\ v[1].sendCounter = mem[p].session.sendCounter
<1>1. v[1] = mem[p].session \/ v[1] = disk[p].session
  BY DEF Current, Views
<1>2. CASE v[1] = disk[p].session
  <2>1. disk[p].session.sendChain = mem[p].session.sendChain
    BY <1>2, ViewTypes
  <2>2. PICK c \in ChainKey : c = mem[p].session.sendChain
    BY UserTypes DEF MailInv, Session, SessionState
  <2>3. ~Before(c, c)
    BY NotBeforeItself
  <2>4. ~Before(disk[p].session.sendChain, mem[p].session.sendChain)
    BY <2>1, <2>2, <2>3
  <2> QED
    BY <1>2, <2>4 DEF Steady, FileBehind
<1> QED
  BY <1>1, <1>2

\* Views that go away, or mail a remaining view has handled, change nothing.
LEMMA LinkedStays ==
    ASSUME NEW p \in Party, NEW q \in Party, Linked(p, q),
           Current(p)' \subseteq Current(p), Current(q)' \subseteq Current(q),
           \A w \in Current(q)' : Waiting(inbox'[q], w[2]) = Waiting(inbox[q], w[2])
    PROVE  Linked(p, q)'
BY DEF Linked

\* A step of the other party that leaves what this one has read alone.
LEMMA SamePeer ==
    ASSUME NEW p \in Party, mem'[p].session = mem[p].session, disk'[p].session = disk[p].session,
           handled'[p] = handled[p], saved'[p] = saved[p], rejected'[p] = rejected[p],
           Deleted(p)' = Deleted(p)
    PROVE  Current(p)' = Current(p) /\ (Steady(p) => Steady(p)')
<1>1. Current(p)' = Current(p)
  BY DEF Current, Views
<1>2. Steady(p) => Steady(p)'
  BY DEF Steady, FileBehind
<1> QED
  BY <1>1, <1>2

\* A client that saves, restarts, or does neither.
LEMMA InStepTurn ==
    ASSUME MailInv, InStep, NEW p \in Party,
           UNCHANGED <<inbox, nextId, rejected>>,
           \A r \in Party : r # p => /\ mem'[r].session = mem[r].session /\ disk'[r].session = disk[r].session
                                     /\ handled'[r] = handled[r] /\ saved'[r] = saved[r],
           \/ /\ mem'[p].session = mem[p].session /\ handled'[p] = handled[p]
              /\ \/ disk'[p].session = disk[p].session /\ saved'[p] = saved[p]
                 \/ disk'[p].session = mem[p].session /\ saved'[p] = handled[p]
           \/ /\ mem'[p].session = disk[p].session /\ handled'[p] = saved[p]
              /\ disk'[p].session = disk[p].session /\ saved'[p] = saved[p]
              /\ disk[p].session.sendChain = mem[p].session.sendChain /\ Deleted(p) \subseteq Ids(saved[p])
    PROVE  InStep'
<1> DEFINE q == Peer(p)
<1>1. q \in Party /\ q # p /\ Peer(q) = p /\ \A r \in Party : r = p \/ r = q
  BY Parties, MessagingAssumption DEF Party, Peer
<1>2. Steady(p) /\ Steady(q) /\ Linked(p, q) /\ Linked(q, p)
  BY <1>1 DEF InStep
<1>3. Deleted(p)' = Deleted(p) /\ Deleted(q)' = Deleted(q)
  BY DEF Deleted
<1>4. Current(q)' = Current(q) /\ Steady(q)'
  BY <1>1, <1>2, <1>3, SamePeer
<1>5. Current(p)' \subseteq Current(p)
  BY <1>3 DEF Current, Views
<1>6. Steady(p)'
  <2>1. rejected'[p] = {} /\ (Deleted(p) \subseteq Ids(handled'[p]))
    BY <1>2 DEF Steady
  <2>2. Len(mem'[p].session.sendChain.path) <= Len(mem'[p].session.root)
    BY <1>2 DEF Steady
  <2>3. Len(disk'[p].session.sendChain.path) <= Len(disk'[p].session.root)
    BY <1>2 DEF Steady
  <2>4. FileBehind(p)'
    BY <1>2 DEF Steady, FileBehind
  <2> QED
    BY <1>3, <2>1, <2>2, <2>3, <2>4 DEF Steady
<1>7. Linked(p, q)' /\ Linked(q, p)'
  BY <1>1, <1>2, <1>4, <1>5, LinkedStays
<1> QED
  BY <1>1, <1>4, <1>6, <1>7 DEF InStep

\* Entries of a mailbox are told apart by their ids.
LEMMA SameEntry ==
    ASSUME NEW box \in Seq(Entry), Ordered(box), NEW e \in Entries(box), NEW f \in Entries(box),
           e.id = f.id
    PROVE  e = f
<1>1. PICK i \in DOMAIN box, j \in DOMAIN box : e = box[i] /\ f = box[j]
  BY DEF Entries
<1>2. DOMAIN box \subseteq Nat /\ \A k \in DOMAIN box : box[k].id \in Nat
  <2>1. \A x \in Entry : x.id \in Nat
    BY DEF Entry
  <2> QED
    BY <2>1
<1>3. ~(i < j) /\ ~(j < i) /\ i \in Nat /\ j \in Nat
  BY <1>1, <1>2 DEF Ordered
<1>4. i = j
  BY <1>3
<1> QED
  BY <1>1, <1>4

\* A DrainInbox call that the store executes.
LEMMA InStepDrain ==
    ASSUME MailInv, InStep, NEW p \in Party, NEW a \in Nat, UpTo(inbox[p], Ids(handled[p]), a),
           inbox'[p] = DropAcked(inbox[p], a), inbox'[Peer(p)] = inbox[Peer(p)],
           UNCHANGED <<nextId, rejected, disk, handled, saved>>,
           \A r \in Party : mem'[r].session = mem[r].session
    PROVE  InStep'
<1> DEFINE q == Peer(p)
<1>1. q \in Party /\ q # p /\ Peer(q) = p /\ \A r \in Party : r = p \/ r = q
  BY Parties, MessagingAssumption DEF Party, Peer
<1>2. Steady(p) /\ Steady(q) /\ Linked(p, q) /\ Linked(q, p)
  BY <1>1 DEF InStep
<1>3. Current(q)' = Current(q) /\ Steady(q)'
  <2>1. Deleted(q)' = Deleted(q)
    BY <1>1 DEF Deleted
  <2> QED
    BY <1>1, <1>2, <2>1, SamePeer
<1>4. PICK box, left : box = inbox[p] /\ left = inbox'[p]
  OBVIOUS
<1>5. box \in Seq(Entry) /\ Ordered(box) /\ HasIds(Entry) /\ nextId[p] \in Nat
  BY <1>4, UserTypes DEF MailInv, Mailbox
<1>6. /\ InboxIds(left) = {x \in InboxIds(box) : x > a} /\ Entries(left) \subseteq Entries(box)
  <2>1. left = DropAcked(box, a)
    BY <1>4
  <2>2. InboxIds(DropAcked(box, a)) = {x \in InboxIds(box) : x > a}
    BY <1>5, Dropped
  <2>3. Entries(DropAcked(box, a)) \subseteq Entries(box)
    BY <1>5, Dropped
  <2> QED
    BY <2>1, <2>2, <2>3
<1>7. InboxIds(box) \subseteq Nat
  BY <1>5, BoxTypes
<1>8. /\ Deleted(p) \subseteq Deleted(p)'
      /\ \A x \in InboxIds(box) \ InboxIds(left) : x \in Deleted(p)' /\ x \in Ids(handled[p])
      /\ \A x \in Deleted(p)' : x \in Deleted(p) \/ x \in Ids(handled[p])
  <2>1. Deleted(p) = (1 .. nextId[p] - 1) \ InboxIds(box) /\ Deleted(p)' = (1 .. nextId[p] - 1) \ InboxIds(left)
    BY <1>4 DEF Deleted
  <2>2. \A x \in InboxIds(box) : x \in 1 .. nextId[p] - 1
    <3>1. \A x \in InboxIds(box) : x < nextId[p]
      BY <1>4 DEF MailInv, Mailbox
    <3>2. InboxIds(box) \subseteq Nat \ {0}
      BY <1>5, BoxTypes
    <3> QED
      BY <1>5, <3>1, <3>2
  <2>3. \A x \in InboxIds(box) : x <= a => x \in Ids(handled[p])
    BY <1>4 DEF UpTo
  <2> QED
    BY <1>6, <1>7, <2>1, <2>2, <2>3
<1>9. Current(p)' \subseteq Current(p)
  BY <1>8 DEF Current, Views
<1>10. Steady(p)'
  <2>1. Deleted(p)' \subseteq Ids(handled'[p])
    BY <1>2, <1>8 DEF Steady
  <2> QED
    BY <1>2, <2>1 DEF Steady, FileBehind
<1>11. ASSUME NEW w \in Current(p)' PROVE Waiting(inbox'[p], w[2]) = Waiting(inbox[p], w[2])
  <2>1. Deleted(p)' \subseteq Ids(w[2])
    BY DEF Current
  <2>2. ASSUME NEW e \in Entries(box), e.id \notin Ids(w[2]) PROVE e \in Entries(left)
    <3>1. e.id \in InboxIds(box)
      BY IdsOfEntries
    <3>2. e.id \in InboxIds(left)
      BY <1>8, <2>1, <2>2, <3>1
    <3>3. PICK f \in Entries(left) : f.id = e.id
      BY <3>2, IdsOfEntries
    <3> QED
      BY <1>5, <1>6, <3>3, SameEntry
  <2> QED
    BY <1>4, <1>6, <2>2 DEF Waiting
<1>12. Linked(p, q)'
  BY <1>1, <1>2, <1>3, <1>9, LinkedStays
<1>13. Linked(q, p)'
  BY <1>1, <1>2, <1>3, <1>9, <1>11, LinkedStays
<1> QED
  BY <1>1, <1>3, <1>10, <1>12, <1>13 DEF InStep

\* The head of the page is the first envelope that waits.
LEMMA HeadWaits ==
    ASSUME MailInv, NEW p \in Party, poll[p].pc = "handle", NEW e, e = Head(poll[p].page)
    PROVE  /\ e \in Waiting(inbox[p], handled[p]) /\ First(e, Waiting(inbox[p], handled[p]))
           /\ \A g \in Waiting(inbox[p], handled[p]) : g.id = e.id => g = e
<1>1. PICK call, box, H, pending :
        call = poll[p] /\ box = inbox[p] /\ H = Ids(handled[p]) /\ pending = mem[p].pending
  OBVIOUS
<1>2. /\ box \in Seq(Entry) /\ call \in PollState(Entry) /\ H \in SUBSET Nat /\ HasIds(Entry)
      /\ call.done \in Nat
  BY <1>1, UserTypes DEF MailInv
<1>3. Ordered(box) /\ PollOk(call, box, H, pending) /\ call.pc = "handle"
  BY <1>1 DEF MailInv, Mailbox
<1>4. PageOpen(call, box) /\ UpTo(box, H, call.done)
  BY <1>3 DEF PollOk
<1>5. PICK page : page = call.page
  OBVIOUS
<1>6. page \in Seq(Entry) /\ page # <<>> /\ Ordered(page) /\ e = Head(page)
  BY <1>1, <1>2, <1>4, <1>5 DEF PollState, PageOpen
<1>7. e \in Entries(box) /\ \A h \in H : h < e.id
  BY <1>1, <1>2, <1>3, HandledOk
<1>8. e.id \in InboxIds(page) /\ \A x \in InboxIds(page) : x = e.id \/ e.id < x
  <2>1. InboxIds(page) = {Head(page).id} \cup InboxIds(Tail(page))
    BY <1>2, <1>6, Headed
  <2>2. \A x \in InboxIds(Tail(page)) : Head(page).id < x
    BY <1>2, <1>6, Headed
  <2> QED
    BY <1>6, <2>1, <2>2
<1>9. \A x \in InboxIds(box) : x \in Nat
  BY <1>2, BoxTypes
<1>10. e.id \in InboxIds(box) /\ \A g \in Entries(box) : g.id \in InboxIds(box)
  BY <1>7, IdsOfEntries
<1>11. ASSUME NEW g \in Entries(box), g.id \notin H PROVE e.id <= g.id
  <2>1. CASE g.id <= call.done
    BY <1>4, <1>10, <1>11, <2>1 DEF UpTo
  <2>2. CASE call.done < g.id /\ g.id <= e.id
    <3>1. g.id \in InboxIds(page)
      BY <1>4, <1>5, <1>8, <1>10, <2>2 DEF PageOpen
    <3> QED
      BY <1>8, <1>9, <1>10, <3>1
  <2>3. CASE e.id < g.id
    BY <1>9, <1>10, <2>3
  <2> QED
    BY <1>2, <1>9, <1>10, <2>1, <2>2, <2>3
<1>12. e.id \notin H
  BY <1>7, <1>9, <1>10
<1>13. \A g \in Entries(box) : g.id = e.id => g = e
  BY <1>2, <1>3, <1>7, SameEntry
<1> QED
  BY <1>1, <1>7, <1>11, <1>12, <1>13 DEF Waiting, First

\* HandleChatMessage with the head of the page.
LEMMA InStepHandle ==
    ASSUME MailInv, InStep, NEW p \in Party, HandleEnvelope(p)
    PROVE  InStep'
<1> DEFINE q == Peer(p)
<1>1. q \in Party /\ q # p /\ Peer(q) = p /\ \A r \in Party : r = p \/ r = q
  BY Parties, MessagingAssumption DEF Party, Peer
<1>2. Steady(p) /\ Steady(q) /\ Linked(p, q) /\ Linked(q, p)
  BY <1>1 DEF InStep
<1>3. PICK e : e = Head(poll[p].page)
  OBVIOUS
<1>4. PICK t \in SessionState : t = mem[p].session
  BY UserTypes DEF MailInv, Session
<1>5. PICK W \in SUBSET Entry : W = Waiting(inbox[p], handled[p])
  <2>1. <<mem[p].session, handled[p]>> \in Current(p)
    BY <1>2, MemCurrent
  <2>2. Waiting(inbox[p], <<mem[p].session, handled[p]>>[2]) \in SUBSET Entry
    BY <2>1, ViewTypes
  <2> QED
    BY <2>2
<1>6. e \in W /\ First(e, W) /\ \A g \in W : g.id = e.id => g = e
  <2>1. poll[p].pc = "handle"
    BY DEF HandleEnvelope
  <2> QED
    BY <1>3, <1>5, <2>1, HeadWaits
<1>7. PICK u : u = HandleChatMessage(t, e.env)
  OBVIOUS
<1>8. ASSUME NEW w \in Current(q)
      PROVE  /\ Accepts(t, e.env) /\ Joined(w[1], u, W \ {e})
             /\ Joined(u, w[1], Waiting(inbox[q], w[2]))
  <2>1. w[1] \in SessionState /\ Waiting(inbox[q], w[2]) \in SUBSET Entry
    BY <1>1, ViewTypes
  <2>2. <<mem[p].session, handled[p]>> \in Current(p)
    BY <1>2, MemCurrent
  <2>3. Joined(w[1], t, W) /\ Joined(t, w[1], Waiting(inbox[q], w[2]))
    BY <1>2, <1>4, <1>5, <2>2 DEF Linked
  <2>4. PICK s \in SessionState, V \in SUBSET Entry : s = w[1] /\ V = Waiting(inbox[q], w[2])
    BY <2>1
  <2>5. Joined(s, t, W) /\ Joined(t, s, V)
    BY <2>3, <2>4
  <2>6. /\ Accepts(t, e.env)
        /\ Joined(s, HandleChatMessage(t, e.env), W \ {e}) /\ Joined(HandleChatMessage(t, e.env), s, V)
    BY <1>6, <2>5, MessageHandled
  <2> QED
    BY <1>7, <2>4, <2>6
<1>9. Accepts(t, e.env)
  <2>1. <<mem[q].session, handled[q]>> \in Current(q)
    BY <1>1, <1>2, MemCurrent
  <2> QED
    BY <1>8, <2>1
<1>10. /\ handled'[p] = handled[p] \cup {[id |-> e.id, body |-> e.env.body]} /\ handled'[q] = handled[q]
       /\ rejected' = rejected /\ mem'[p].session = u /\ mem'[q] = mem[q]
       /\ UNCHANGED <<disk, saved, inbox, nextId>>
  <2>1. Accepts(Session(p), Head(poll[p].page).env)
    BY <1>3, <1>4, <1>9 DEF Session
  <2>2. /\ handled' = [handled EXCEPT ![p] =
                         @ \cup {[id |-> Head(poll[p].page).id, body |-> Head(poll[p].page).env.body]}]
        /\ rejected' = rejected
    BY <2>1 DEF HandleEnvelope
  <2>3. mem' = [mem EXCEPT ![p] = [session |-> HandleChatMessage(@.session, Head(poll[p].page).env),
                                   pending |-> PendingAfter(poll'[p], @.pending)]]
    BY DEF HandleEnvelope
  <2>4. UNCHANGED <<disk, saved, inbox, nextId>>
    BY DEF HandleEnvelope, store
  <2>5. DOMAIN handled = Party /\ DOMAIN mem = Party
    BY DEF MailInv, TypeOK
  <2>6. handled'[p] = handled[p] \cup {[id |-> e.id, body |-> e.env.body]} /\ handled'[q] = handled[q]
    BY <1>1, <1>3, <2>2, <2>5
  <2>7. mem'[p].session = u /\ mem'[q] = mem[q]
    BY <1>1, <1>3, <1>4, <1>7, <2>3, <2>5
  <2> QED
    BY <2>2, <2>4, <2>6, <2>7
<1>11. Ids(handled'[p]) = Ids(handled[p]) \cup {e.id}
  <2>1. PICK x : x = [id |-> e.id, body |-> e.env.body]
    OBVIOUS
  <2>2. x.id = e.id
    BY <2>1
  <2> QED
    BY <1>10, <2>1, <2>2 DEF Ids
<1>12. Waiting(inbox'[p], handled'[p]) = W \ {e}
  BY <1>5, <1>6, <1>10, <1>11 DEF Waiting
<1>13. Deleted(p)' = Deleted(p) /\ Deleted(q)' = Deleted(q)
  BY <1>10 DEF Deleted
<1>14. Current(q)' = Current(q) /\ Steady(q)'
  BY <1>1, <1>2, <1>10, <1>13, SamePeer
<1>15. /\ u \in SessionState /\ u.sendChain = t.sendChain /\ u.local = t.local
       /\ u.sendCounter = t.sendCounter /\ Len(t.root) <= Len(u.root)
  <2>1. e.env \in Envelope
    BY <1>5, <1>6 DEF Entry
  <2>2. u \in SessionState /\ u.sendChain = t.sendChain /\ u.local = t.local /\ u.sendCounter = t.sendCounter
    BY <1>7, <2>1, HandledTypes, HandledCounters
  <2>3. t.root \in RootKey /\ t.local \in RatchetKey
    BY DEF SessionState
  <2>4. Len(t.root) \in Nat
    BY <2>3 DEF RootKey
  <2>5. PICK r : r = RatchetReceive(t, e.env)
    OBVIOUS
  <2>6. u.root = r.root
    BY <1>7, <2>1, <2>5, HandledTypes
  <2>7. CASE r = t
    <3>1. Len(u.root) = Len(t.root)
      BY <2>6, <2>7
    <3> QED
      BY <2>2, <2>4, <3>1
  <2>8. CASE e.env.ratchet \in RatchetKey /\ r.root = Append(t.root, SharedSecret(t.local, e.env.ratchet))
    <3>1. Len(u.root) = Len(t.root) + 1
      BY <2>3, <2>6, <2>8, Derived
    <3> QED
      BY <2>2, <2>4, <3>1
  <2> QED
    BY <2>1, <2>5, <2>7, <2>8, RatchetedTypes
<1>16. ASSUME NEW v \in Current(p)'
       PROVE  v \in Current(p) \/ (v[1] = u /\ v[2] = handled'[p])
  <2>1. v = <<u, handled'[p]>> \/ v = <<disk[p].session, saved[p]>>
    BY <1>10 DEF Current, Views
  <2>2. CASE v = <<disk[p].session, saved[p]>>
    BY <1>4, <1>10, <1>13, <1>15, <2>2 DEF Current, Views
  <2> QED
    BY <2>1, <2>2
<1>17. Linked(p, q)'
  <2> SUFFICES ASSUME NEW v \in Current(p)', NEW w \in Current(q)
               PROVE  Joined(v[1], w[1], Waiting(inbox[q], w[2]))
    BY <1>10, <1>14 DEF Linked
  <2>1. CASE v \in Current(p)
    BY <1>2, <2>1 DEF Linked
  <2> QED
    BY <1>8, <1>16, <2>1
<1>18. Linked(q, p)'
  <2> SUFFICES ASSUME NEW w \in Current(q), NEW v \in Current(p)'
               PROVE  Joined(w[1], v[1], Waiting(inbox'[p], v[2]))
    BY <1>14 DEF Linked
  <2>1. CASE v \in Current(p)
    BY <1>2, <1>10, <2>1 DEF Linked
  <2> QED
    BY <1>8, <1>12, <1>16, <2>1
<1>19. Steady(p)'
  <2>1. rejected'[p] = {} /\ Deleted(p)' \subseteq Ids(handled'[p])
    BY <1>2, <1>10, <1>11, <1>13 DEF Steady
  <2>2. FileBehind(p)'
    BY <1>2, <1>4, <1>10, <1>15 DEF Steady, FileBehind
  <2>3. Len(mem'[p].session.sendChain.path) <= Len(mem'[p].session.root)
    <3>1. Len(t.sendChain.path) <= Len(t.root)
      BY <1>2, <1>4 DEF Steady
    <3>2. PICK a, b, c : a = Len(t.sendChain.path) /\ b = Len(t.root) /\ c = Len(u.root)
      OBVIOUS
    <3>3. t.sendChain.path \in RootKey /\ t.root \in RootKey /\ u.root \in RootKey
      BY <1>15 DEF SessionState, ChainKey
    <3>4. a \in Nat /\ b \in Nat /\ c \in Nat
      BY <3>2, <3>3 DEF RootKey
    <3>5. a <= c
      BY <1>15, <3>1, <3>2, <3>4
    <3> QED
      BY <1>10, <1>15, <3>2, <3>5
  <2> QED
    BY <1>2, <1>10, <2>1, <2>2, <2>3 DEF Steady
<1> QED
  BY <1>1, <1>14, <1>17, <1>18, <1>19 DEF InStep

\* SendMessage in a run without a cause of disagreement: the envelope is
\* posted, and the state file written or not.
LEMMA SendPosts ==
    ASSUME MailInv, NEW p \in Party, Send(p), cause' = {}
    PROVE  /\ mem'[p].session = AfterSend(Session(p), Fresh(p)) /\ mem'[Peer(p)] = mem[Peer(p)]
           /\ UNCHANGED <<handled, rejected>> /\ ~Crossing(p)
           /\ disk'[Peer(p)] = disk[Peer(p)] /\ saved'[Peer(p)] = saved[Peer(p)]
           /\ \/ disk'[p] = disk[p] /\ saved'[p] = saved[p]
              \/ disk'[p] = mem'[p] /\ saved'[p] = handled[p]
           /\ inbox'[p] = inbox[p] /\ nextId'[p] = nextId[p] /\ nextId'[Peer(p)] = nextId[Peer(p)] + 1
           /\ Entries(inbox'[Peer(p)]) = Entries(inbox[Peer(p)]) \cup {[id |-> nextId[Peer(p)], env |-> Sealed(p)]}
           /\ InboxIds(inbox'[Peer(p)]) = InboxIds(inbox[Peer(p)]) \cup {nextId[Peer(p)]}
           /\ [id |-> nextId[Peer(p)], env |-> Sealed(p)] \in Entry
<1> DEFINE q == Peer(p)
<1>1. q \in Party /\ q # p /\ TypeOK /\ Mailbox(q)
  BY Parties DEF MailInv
<1>2. /\ Encrypt(p, {}) /\ Post(p) /\ Advance(p)
      /\ UNCHANGED <<disk, saved>> \/ Save(p)
  <2>1. ASSUME NEW causes, causes # {}, Encrypt(p, causes) PROVE FALSE
    BY <2>1 DEF Encrypt
  <2>2. ~SendMessageNotPosted(p)
    BY <2>1 DEF SendMessageNotPosted
  <2>3. ~SendMessageCrash(p)
    BY <2>1 DEF SendMessageCrash
  <2>4. CASE SendMessage(p)
    BY <2>4 DEF SendMessage
  <2>5. CASE SendMessageUnsaved(p)
    BY <2>5 DEF SendMessageUnsaved
  <2>6. CASE SendMessageUnsynced(p)
    BY <2>6 DEF SendMessageUnsynced
  <2> QED
    BY <2>2, <2>3, <2>4, <2>5, <2>6 DEF Send
<1>3. ~Crossing(p) /\ rejected' = rejected
  BY <1>2 DEF Encrypt
<1>4. Sealed(p) \in Envelope
  BY <1>1, <1>2, EncryptTypes
<1>5. /\ mem' \in [Party -> ClientState] /\ handled' = handled
      /\ mem'[p].session = AfterSend(Session(p), Fresh(p)) /\ mem'[q] = mem[q]
  BY <1>1, <1>2, AdvanceTypes
<1>6. /\ disk'[q] = disk[q] /\ saved'[q] = saved[q]
      /\ \/ disk'[p] = disk[p] /\ saved'[p] = saved[p]
         \/ disk'[p] = mem'[p] /\ saved'[p] = handled[p]
  <2>1. CASE Save(p)
    BY <1>1, <1>5, <2>1, SaveTypes
  <2>2. CASE UNCHANGED <<disk, saved>>
    BY <2>2
  <2> QED
    BY <1>2, <2>1, <2>2
<1>7. /\ inbox'[q] = EnqueueEnvelope(inbox[q], nextId[q], Sealed(p)) /\ nextId'[q] = nextId[q] + 1
      /\ inbox'[p] = inbox[p] /\ nextId'[p] = nextId[p]
  BY <1>1, <1>2, <1>4, PostTypes
<1>8. PICK box, id, env : box = inbox[q] /\ id = nextId[q] /\ env = Sealed(p)
  OBVIOUS
<1>9. /\ box \in Seq(Entry) /\ Ordered(box) /\ HasIds(Entry) /\ id \in Nat \ {0}
      /\ \A x \in InboxIds(box) : x < id
  BY <1>1, <1>8, UserTypes DEF Mailbox
<1>10. [id |-> id, env |-> env] \in Entry
  BY <1>4, <1>8, <1>9 DEF Entry
<1>11. /\ InboxIds(EnqueueEnvelope(box, id, env)) = InboxIds(box) \cup {id}
       /\ Entries(EnqueueEnvelope(box, id, env)) = Entries(box) \cup {[id |-> id, env |-> env]}
  BY <1>9, <1>10, Enqueued
<1> QED
  BY <1>3, <1>5, <1>6, <1>7, <1>8, <1>10, <1>11

\* A new ratchet key is nowhere yet.
LEMMA FreshKey ==
    ASSUME MailInv, KeysGenerated, NEW p \in Party
    PROVE  /\ Fresh(p) \in RatchetKey
           /\ \A r \in Party : Fresh(p) # mem[r].session.remote /\ Fresh(p) # disk[r].session.remote
           /\ \A r \in Party : \A e \in Entries(inbox[r]) : e.env.ratchet # Fresh(p)
<1>1. Fresh(p) \in RatchetKey /\ keys[p] \in Nat
  BY UserTypes DEF MailInv
<1>2. Fresh(p) \notin Generated
  <2>1. Fresh(p)[1] = p /\ Fresh(p)[2] = keys[p] + 1
    BY DEF Fresh
  <2> QED
    BY <1>1, <2>1 DEF Generated
<1>3. Fresh(p) # NoKey
  BY <1>1, MessagingAssumption DEF RatchetKey
<1> QED
  BY <1>1, <1>2, <1>3 DEF KeysGenerated, MadeOf

\* SendMessage leaves every chain key of the session behind.
LEMMA SendAdvances ==
    ASSUME NEW s \in SessionState, NEW fresh \in RatchetKey, Len(s.sendChain.path) <= Len(s.root)
    PROVE  /\ Len(AfterSend(s, fresh).sendChain.path) <= Len(AfterSend(s, fresh).root)
           /\ Before(s.sendChain, AfterSend(s, fresh).sendChain)
           /\ \A c \in ChainKey : Before(c, s.sendChain) => Before(c, AfterSend(s, fresh).sendChain)
<1>1. PICK r \in SessionState : r = SendingSession(s, fresh)
  BY SendingTypes
<1>2. PICK c \in ChainKey, d \in ChainKey, n \in Nat, old \in RootKey :
        c = s.sendChain /\ d = r.sendChain /\ n = r.sendCounter /\ old = s.root
  BY DEF SessionState
<1>3. PICK e \in ChainKey : e = NextChain(d, n) /\ e.path = d.path /\ Len(e.used) = Len(d.used) + 1
  BY NextTypes
<1>4. AfterSend(s, fresh).sendChain = e /\ AfterSend(s, fresh).root = r.root
  BY <1>1, <1>2, <1>3, SentTypes
<1>5. \A k \in ChainKey : Len(k.path) \in Nat /\ Len(k.used) \in Nat
  BY DEF ChainKey, RootKey
<1>6. Len(old) \in Nat
  BY DEF RootKey
<1>7. CASE ~RatchetDue(s)
  <2>1. r = s
    BY <1>1, <1>7, SendingTypes
  <2>2. d = c /\ Len(e.path) = Len(c.path) /\ Len(e.used) = Len(c.used) + 1 /\ r.root = old
    BY <1>2, <1>3, <2>1
  <2>3. Before(c, e) /\ \A k \in ChainKey : Before(k, c) => Before(k, e)
    BY <1>5, <2>2 DEF Before
  <2>4. Len(e.path) <= Len(r.root)
    BY <1>2, <2>2
  <2> QED
    BY <1>2, <1>4, <2>3, <2>4
<1>8. CASE RatchetDue(s)
  <2>1. /\ r.root = Append(s.root, SharedSecret(fresh, s.remote))
        /\ r.sendChain = NewChain("ratchet", Append(s.root, SharedSecret(fresh, s.remote)))
    BY <1>1, <1>8, SendingTypes
  <2>2. s.remote \in RatchetKey
    BY DEF SessionState
  <2>3. r.root \in RootKey /\ Len(r.root) = Len(old) + 1
    BY <1>2, <2>1, <2>2, Derived
  <2>4. d.path = r.root
    <3>1. d = NewChain("ratchet", r.root)
      BY <1>2, <2>1
    <3> QED
      BY <2>3, <3>1, ChainTypes
  <2>5. Len(e.path) = Len(old) + 1 /\ Len(c.path) <= Len(old)
    BY <1>2, <1>3, <2>3, <2>4
  <2>6. Before(c, e) /\ \A k \in ChainKey : Before(k, c) => Before(k, e)
    BY <1>5, <1>6, <2>5 DEF Before
  <2>7. Len(e.path) <= Len(r.root)
    BY <1>6, <2>3, <2>5
  <2> QED
    BY <1>2, <1>4, <2>6, <2>7
<1> QED
  BY <1>7, <1>8

\* SendMessage keeps the two ends apart by exactly the envelopes under way.
LEMMA InStepSend ==
    ASSUME KeyInv, InStep, NEW p \in Party, Send(p), cause' = {}
    PROVE  InStep'
<1> DEFINE q == Peer(p)
<1>0. MailInv /\ KeysGenerated
  BY DEF KeyInv
<1>1. q \in Party /\ q # p /\ Peer(q) = p /\ \A r \in Party : r = p \/ r = q
  BY Parties, MessagingAssumption DEF Party, Peer
<1>2. Steady(p) /\ Steady(q) /\ Linked(p, q) /\ Linked(q, p)
  BY <1>1 DEF InStep
<1>3. PICK s \in SessionState, fresh \in RatchetKey, body \in Party \X Nat :
        s = Session(p) /\ fresh = Fresh(p) /\ body = Body(p)
  BY <1>0, UserTypes DEF MailInv
<1>4. PICK u \in SessionState : u = AfterSend(s, fresh)
  BY SentTypes
<1>5. PICK e \in Entry : e = [id |-> nextId[q], env |-> Sealed(p)]
  BY <1>0, SendPosts
<1>6. e.id = nextId[q] /\ e.env = ChatEnvelope(s, fresh, body)
  BY <1>3, <1>5 DEF Sealed
<1>7. /\ mem'[p].session = u /\ mem'[q] = mem[q] /\ handled' = handled /\ rejected' = rejected
      /\ disk'[q] = disk[q] /\ saved'[q] = saved[q] /\ inbox'[p] = inbox[p] /\ nextId'[p] = nextId[p]
      /\ nextId'[q] = nextId[q] + 1
      /\ Entries(inbox'[q]) = Entries(inbox[q]) \cup {e} /\ InboxIds(inbox'[q]) = InboxIds(inbox[q]) \cup {e.id}
  BY <1>0, <1>3, <1>4, <1>5, <1>6, SendPosts
<1>8. \/ disk'[p] = disk[p] /\ saved'[p] = saved[p]
      \/ disk'[p] = mem'[p] /\ saved'[p] = handled[p]
  BY <1>0, SendPosts
<1>9. Deleted(p)' = Deleted(p) /\ Deleted(q)' = Deleted(q)
  <2>1. Deleted(p)' = Deleted(p)
    BY <1>7 DEF Deleted
  <2>2. nextId[q] \in Nat \ {0} /\ \A x \in InboxIds(inbox[q]) : x < nextId[q]
    BY <1>0, <1>1, UserTypes DEF MailInv, Mailbox
  <2>3. PICK n, ids : n \in Nat /\ n = nextId[q] /\ ids = InboxIds(inbox[q])
    BY <2>2
  <2>4. Deleted(q) = (1 .. n - 1) \ ids /\ Deleted(q)' = (1 .. n + 1 - 1) \ (ids \cup {n})
    BY <1>6, <1>7, <2>3 DEF Deleted
  <2>5. (1 .. n - 1) \ ids = (1 .. n + 1 - 1) \ (ids \cup {n})
    BY <2>2, <2>3
  <2> QED
    BY <2>1, <2>4, <2>5
<1>10. Current(q)' = Current(q) /\ Steady(q)'
  BY <1>1, <1>2, <1>7, <1>9, SamePeer
<1>11. /\ Len(u.sendChain.path) <= Len(u.root) /\ Before(s.sendChain, u.sendChain)
       /\ \A c \in ChainKey : Before(c, s.sendChain) => Before(c, u.sendChain)
  BY <1>2, <1>3, <1>4, SendAdvances DEF Steady, Session
<1>12. disk[p].session.sendChain \in ChainKey /\ u.sendChain \in ChainKey
  BY <1>0, UserTypes DEF MailInv, ClientState, SessionState
<1>13. Before(disk[p].session.sendChain, u.sendChain)
  <2>1. disk[p].session.sendChain = s.sendChain \/ Before(disk[p].session.sendChain, s.sendChain)
    BY <1>2, <1>3 DEF Steady, FileBehind, Session
  <2> QED
    BY <1>11, <1>12, <2>1
<1>14. Steady(p)'
  <2>1. rejected'[p] = {} /\ Deleted(p)' \subseteq Ids(handled'[p])
    BY <1>2, <1>7, <1>9 DEF Steady
  <2>2. FileBehind(p)'
    BY <1>7, <1>8, <1>13 DEF FileBehind
  <2>3. /\ Len(mem'[p].session.sendChain.path) <= Len(mem'[p].session.root)
        /\ Len(disk'[p].session.sendChain.path) <= Len(disk'[p].session.root)
    BY <1>2, <1>7, <1>8, <1>11 DEF Steady
  <2> QED
    BY <2>1, <2>2, <2>3 DEF Steady
<1>15. ASSUME NEW v \in Current(p)' PROVE v[1] = u /\ v[2] = handled[p]
  <2>1. \/ v[1] = u /\ v[2] = handled[p]
        \/ v[1] = disk'[p].session /\ v[2] = saved'[p]
    BY <1>7 DEF Current, Views
  <2>2. v[1].sendChain = u.sendChain
    BY <1>7 DEF Current
  <2>3. CASE v[1] = disk[p].session
    BY <1>12, <1>13, <2>2, <2>3, NotBeforeItself
  <2> QED
    BY <1>7, <1>8, <2>1, <2>3
<1>16. PICK V \in SUBSET Entry : V = Waiting(inbox[p], handled[p])
  <2>1. <<mem[p].session, handled[p]>> \in Current(p)
    BY <1>2, MemCurrent
  <2>2. Waiting(inbox[p], <<mem[p].session, handled[p]>>[2]) \in SUBSET Entry
    BY <1>0, <2>1, ViewTypes
  <2> QED
    BY <2>2
<1>17. ASSUME NEW w \in Current(q)
       PROVE  /\ Joined(u, w[1], Waiting(inbox[q], w[2]) \cup {e}) /\ Joined(w[1], u, V)
  <2>1. w[1] \in SessionState /\ Waiting(inbox[q], w[2]) \in SUBSET Entry
    BY <1>0, <1>1, ViewTypes
  <2>2. PICK t \in SessionState, W \in SUBSET Entry : t = w[1] /\ W = Waiting(inbox[q], w[2])
    BY <2>1
  <2>3. <<mem[p].session, handled[p]>> \in Current(p)
    BY <1>2, MemCurrent
  <2>4. Joined(s, t, W)
    BY <1>2, <1>3, <2>2, <2>3 DEF Linked, Session
  <2>5. Joined(t, s, V)
    BY <1>2, <1>3, <1>16, <2>2, <2>3 DEF Linked, Session
  <2>6. W \subseteq Entries(inbox[q])
    BY <2>2 DEF Waiting
  <2>7. \A g \in W : g.id < e.id
    <3>1. \A x \in InboxIds(inbox[q]) : x < nextId[q]
      BY <1>0, <1>1 DEF MailInv, Mailbox
    <3> QED
      BY <1>6, <2>6, <3>1, IdsOfEntries
  <2>8. fresh # t.remote /\ \A g \in W : g.env.ratchet # fresh
    <3>1. /\ fresh # mem[q].session.remote /\ fresh # disk[q].session.remote
          /\ \A g \in Entries(inbox[q]) : g.env.ratchet # fresh
      BY <1>0, <1>1, <1>3, FreshKey
    <3>2. t = mem[q].session \/ t = disk[q].session
      BY <2>2 DEF Current, Views
    <3> QED
      BY <2>6, <3>1, <3>2
  <2>9. RatchetDue(s) => t.local = s.remote
    <3>1. t.local = mem[q].session.local
      BY <1>0, <1>1, <1>2, <2>2, CurrentKey
    <3>2. ~Crossing(p)
      BY <1>0, SendPosts
    <3> QED
      BY <1>3, <3>1, <3>2 DEF Crossing, Session
  <2>10. Joined(AfterSend(s, fresh), t, W \cup {e}) /\ Joined(t, AfterSend(s, fresh), V)
    BY <1>6, <2>4, <2>5, <2>7, <2>8, <2>9, MessageSent
  <2> QED
    BY <1>4, <2>2, <2>10
<1>18. Linked(p, q)'
  <2> SUFFICES ASSUME NEW v \in Current(p)', NEW w \in Current(q)
               PROVE  Joined(v[1], w[1], Waiting(inbox'[q], w[2]))
    BY <1>10 DEF Linked
  <2>1. Waiting(inbox'[q], w[2]) = Waiting(inbox[q], w[2]) \cup {e}
    <3>1. nextId[q] \in Nat /\ \A h \in Ids(w[2]) : h < nextId[q]
      BY <1>0, <1>1, UserTypes, ViewTypes DEF MailInv
    <3>2. e.id \notin Ids(w[2])
      BY <1>6, <3>1
    <3> QED
      BY <1>7, <3>2 DEF Waiting
  <2> QED
    BY <1>15, <1>17, <2>1
<1>19. Linked(q, p)'
  <2> SUFFICES ASSUME NEW w \in Current(q), NEW v \in Current(p)'
               PROVE  Joined(w[1], v[1], Waiting(inbox'[p], v[2]))
    BY <1>10 DEF Linked
  <2> QED
    BY <1>7, <1>15, <1>16, <1>17
<1> QED
  BY <1>1, <1>10, <1>14, <1>18, <1>19 DEF InStep

\* The other steps in a run without a cause of disagreement.
LEMMA InStepOther ==
    ASSUME MailInv, InStep, cause' = {}, [Next]_vars, \A p \in Party : ~Send(p)
    PROVE  InStep'
<1>1. CASE UNCHANGED vars
  BY <1>1 DEF vars, client, store, history, InStep, Steady, Linked, FileBehind, Current, Views, Deleted
<1>2. ASSUME NEW p \in Party,
             ProcessInbox(p) \/ GiveUp(p) \/ Return(p) \/ SaveLocalState(p)
      PROVE  InStep'
  <2>1. mem' = mem /\ UNCHANGED <<inbox, nextId, handled>>
    BY <1>2, TurnKeepsMail
  <2>2. rejected' = rejected
    BY <1>2 DEF ProcessInbox, GiveUp, Return, SaveLocalState, history
  <2>3. UNCHANGED <<disk, saved>> \/ Save(p)
    BY <1>2 DEF ProcessInbox, GiveUp, Return, SaveLocalState, history
  <2>4. mem' \in [Party -> ClientState] /\ TypeOK
    BY <2>1 DEF MailInv, TypeOK
  <2>5. CASE Save(p)
    <3>1. /\ disk'[p] = mem'[p] /\ saved'[p] = handled[p]
          /\ \A r \in Party : r # p => disk'[r] = disk[r] /\ saved'[r] = saved[r]
      BY <2>4, <2>5, SaveTypes
    <3> QED
      BY <2>1, <2>2, <3>1, InStepTurn
  <2>6. CASE UNCHANGED <<disk, saved>>
    BY <2>1, <2>2, <2>6, InStepTurn
  <2> QED
    BY <2>3, <2>5, <2>6
<1>3. ASSUME NEW p \in Party, DrainInbox(p) \/ DrainInboxFails(p) PROVE InStep'
  <2>1. UNCHANGED <<nextId, rejected, disk, handled, saved>> /\ poll[p].pc = "drain"
    BY <1>3 DEF DrainInbox, DrainInboxFails, history
  <2>2. inbox' = [inbox EXCEPT ![p] = DropAcked(inbox[p], poll[p].ack)] \/ inbox' = inbox
    BY <1>3 DEF DrainInbox, DrainInboxFails
  <2>3. \A r \in Party : mem'[r].session = mem[r].session
    <3>1. mem \in [Party -> ClientState]
      BY DEF MailInv, TypeOK
    <3>2. CASE DrainInbox(p)
      BY <3>1, <3>2 DEF DrainInbox, ClientState
    <3>3. CASE DrainInboxFails(p)
      BY <3>1, <3>3 DEF DrainInboxFails, ClientState
    <3> QED
      BY <1>3, <3>2, <3>3
  <2>4. CASE inbox' = inbox
    BY <2>1, <2>3, <2>4, InStepTurn
  <2>5. CASE inbox' = [inbox EXCEPT ![p] = DropAcked(inbox[p], poll[p].ack)]
    <3>1. poll[p].ack \in Nat /\ UpTo(inbox[p], Ids(handled[p]), poll[p].ack)
      <4>1. poll[p].ack \in Nat
        BY UserTypes DEF MailInv
      <4> QED
        BY <2>1, <4>1 DEF MailInv, Mailbox, PollOk
    <3>2. DOMAIN inbox = Party
      BY DEF MailInv, TypeOK
    <3>3. inbox'[p] = DropAcked(inbox[p], poll[p].ack) /\ inbox'[Peer(p)] = inbox[Peer(p)]
      BY <2>5, <3>2, Parties
    <3> QED
      BY <2>1, <2>3, <3>1, <3>3, InStepDrain
  <2> QED
    BY <2>2, <2>4, <2>5
<1>4. ASSUME NEW p \in Party, Restart(p) PROVE InStep'
  <2>1. TypeOK /\ Reload(p) /\ UNCHANGED <<disk, saved, inbox, nextId, rejected>> /\ ~StaleRestart(p)
    BY <1>4 DEF Restart, MailInv, store
  <2>2. /\ mem'[p] = disk[p] /\ handled'[p] = saved[p]
        /\ \A r \in Party : r # p => mem'[r] = mem[r] /\ handled'[r] = handled[r]
    BY <2>1, ReloadTypes
  <2>3. disk[p].session.sendChain = mem[p].session.sendChain /\ Deleted(p) \subseteq Ids(saved[p])
    BY <2>1 DEF StaleRestart, Session
  <2> QED
    BY <2>1, <2>2, <2>3, InStepTurn
<1>5. \A p \in Party : ~Replay(p)
  BY DEF Replay
<1>6. \A p \in Party : HandleEnvelope(p) => InStep'
  BY InStepHandle
<1> QED
  BY <1>1, <1>2, <1>3, <1>4, <1>5, <1>6 DEF Next, PollStep

\* The two ends agree before any message.
LEMMA InitialSync == Init => SyncInv
<1> SUFFICES ASSUME Init PROVE SyncInv
  OBVIOUS
<1>1. KeyInv
  BY InitialKeys
<1>2. ASSUME NEW p \in Party
      PROVE  /\ inbox[p] = <<>> /\ nextId[p] = 1 /\ handled[p] = {} /\ saved[p] = {} /\ rejected[p] = {}
             /\ disk[p] = mem[p]
             /\ mem[p].session = IF p = Alice THEN InitiatorSession(Alice, Bob) ELSE ResponderSession(Bob, Alice)
  BY DEF Init
<1>3. PICK a, b : a = InitiatorSession(Alice, Bob) /\ b = ResponderSession(Bob, Alice)
  OBVIOUS
<1>4. /\ a.root = <<>> /\ b.root = <<>> /\ a.local = b.remote /\ a.remote = b.local
      /\ a.sendChain = b.recvChain /\ a.recvChain = b.sendChain
      /\ a.sendCounter = b.recvCounter /\ a.recvCounter = b.sendCounter
  BY <1>3 DEF InitiatorSession, ResponderSession, HandshakeKeys
<1>5. a.sendChain.path = <<>> /\ b.sendChain.path = <<>>
  <2>1. <<>> \in RootKey
    BY DEF RootKey
  <2>2. HandshakeKeys.c1 \in ChainKey /\ HandshakeKeys.c1.path = <<>> /\ HandshakeKeys.c2.path = <<>>
    BY <2>1, ChainTypes DEF HandshakeKeys
  <2>3. NextChain(HandshakeKeys.c1, 0).path = <<>>
    BY <2>2, NextTypes
  <2> QED
    BY <1>3, <2>2, <2>3 DEF InitiatorSession, ResponderSession
<1>6. ASSUME NEW p \in Party PROVE Steady(p)
  <2>1. mem[p].session.sendChain.path = <<>> /\ mem[p].session.root = <<>>
    BY <1>2, <1>3, <1>4, <1>5
  <2>2. Deleted(p) = {}
    BY <1>2 DEF Deleted
  <2> QED
    BY <1>2, <2>1, <2>2 DEF Steady, FileBehind
<1>7. /\ Joined(a, b, {}) /\ Joined(b, a, {})
  <2>1. Len(a.root) = 0 /\ Len(b.root) = 0 /\ 1 .. 0 = {}
    BY <1>4
  <2>2. SubSeq(<<>>, 1, 0) = <<>>
    OBVIOUS
  <2> QED
    BY <1>4, <2>1, <2>2 DEF Joined, ChainLinked, RootLinked, WithKey
<1>8. ASSUME NEW p \in Party PROVE Linked(p, Peer(p))
  <2>1. Peer(p) \in Party /\ ((p = Alice /\ Peer(p) = Bob) \/ (p = Bob /\ Peer(p) = Alice)) /\ Bob # Alice
    <3>1. Bob # Alice /\ (p = Alice \/ p = Bob)
      BY MessagingAssumption DEF Party
    <3>2. CASE p = Alice
      BY <3>1, <3>2 DEF Peer, Party
    <3>3. CASE p = Bob
      BY <3>1, <3>3 DEF Peer, Party
    <3> QED
      BY <3>1, <3>2, <3>3
  <2>2. \A v \in Current(p) : v[1] = mem[p].session
    BY <1>2 DEF Current, Views
  <2>3. \A w \in Current(Peer(p)) : w[1] = mem[Peer(p)].session
    BY <1>2, <2>1 DEF Current, Views
  <2>4. \A H : Waiting(inbox[Peer(p)], H) = {}
    BY <1>2, <2>1, EmptyBox DEF Waiting
  <2>5. Joined(mem[p].session, mem[Peer(p)].session, {})
    BY <1>2, <1>3, <1>7, <2>1
  <2> QED
    BY <2>2, <2>3, <2>4, <2>5 DEF Linked
<1> QED
  BY <1>1, <1>6, <1>8 DEF SyncInv, InStep

\* Every step keeps the two ends apart by exactly the envelopes under way.
LEMMA SyncStep == SyncInv /\ [Next]_vars => SyncInv'
<1> SUFFICES ASSUME SyncInv, [Next]_vars PROVE SyncInv'
  OBVIOUS
<1>1. KeyInv /\ MailInv
  BY DEF SyncInv, KeyInv
<1>2. KeyInv'
  BY <1>1, KeyStep
<1>3. ASSUME cause' = {} PROVE InStep'
  <2>1. CASE \E p \in Party : Send(p)
    <3>1. PICK p \in Party : Send(p)
      BY <2>1
    <3>2. cause \subseteq cause'
      BY <1>1, <3>1, SendEffect
    <3>3. InStep
      BY <1>3, <3>2 DEF SyncInv
    <3> QED
      BY <1>1, <1>3, <3>1, <3>3, InStepSend
  <2>2. CASE \A p \in Party : ~Send(p)
    <3>1. cause \subseteq cause'
      BY <1>1, <2>2, OtherEffect
    <3>2. InStep
      BY <1>3, <3>1 DEF SyncInv
    <3> QED
      BY <1>1, <1>3, <2>2, <3>2, InStepOther
  <2> QED
    BY <2>1, <2>2
<1> QED
  BY <1>2, <1>3 DEF SyncInv

\* As long as no two ratchet steps crossed, no post failed, nothing was
\* replayed and no client restarted from a file others had overtaken, the two
\* ends differ by exactly the envelopes on their way: in memory, and in each
\* state file a client may still restart from.
THEOREM SyncInvHolds == Spec => []SyncInv
<1>1. SyncInv /\ UNCHANGED vars => SyncInv'
  BY SyncStep
<1> QED
  BY InitialSync, SyncStep, <1>1, PTL DEF Spec

\* HandleChatMessage refuses an envelope of the peer only after one of the
\* four causes: failed drains, lost answers, failed saves and restarts from a
\* file nobody has overtaken never lead to a refusal.
THEOREM RejectionsHaveACause == Spec => []RejectionHasCause
<1>1. SyncInv => RejectionHasCause
  BY DEF SyncInv, InStep, Steady, RejectionHasCause
<1> QED
  BY <1>1, SyncInvHolds, PTL

\* Nothing under way: the two sessions mirror each other.
LEMMA NothingUnderWay ==
    ASSUME NEW s \in SessionState, NEW t \in SessionState, Joined(s, t, {}), Joined(t, s, {})
    PROVE  /\ s.root = t.root /\ s.local = t.remote
           /\ s.sendChain = t.recvChain /\ s.sendCounter = t.recvCounter
<1>1. PICK n \in Nat, m \in Nat : n = Len(s.root) /\ m = Len(t.root)
  <2>1. Len(t.root) \in Nat /\ Len(s.root) \in Nat
    BY DEF SessionState, RootKey
  <2> QED
    BY <2>1
<1>2. (\A i \in m + 1 .. n : FALSE) /\ (\A i \in n + 1 .. m : FALSE)
  BY <1>1 DEF Joined, RootLinked, WithKey
<1>3. n = m
  <2>1. ~(m + 1 <= n) /\ ~(n + 1 <= m)
    <3>1. m + 1 <= n => n \in m + 1 .. n
      OBVIOUS
    <3>2. n + 1 <= m => m \in n + 1 .. m
      OBVIOUS
    <3> QED
      BY <1>2, <3>1, <3>2
  <2> QED
    BY <2>1
<1>4. s.local = t.remote /\ t.root = SubSeq(s.root, 1, n)
  BY <1>1, <1>3 DEF Joined, RootLinked
<1>5. SubSeq(s.root, 1, n) = s.root
  <2>1. s.root \in Seq(SUBSET RatchetKey)
    BY DEF SessionState, RootKey
  <2> QED
    BY <1>1, <2>1, SubSeqFull
<1>6. <<s.sendChain, s.sendCounter>> = <<t.recvChain, t.recvCounter>>
  BY DEF Joined, ChainLinked
<1> QED
  BY <1>4, <1>5, <1>6

\* Whenever the mailboxes are handled and no cause of disagreement occurred,
\* both ends hold the same root, chains, counters and ratchet keys, for every
\* interval and however ratchet steps, polls, lost answers, failed saves and
\* restarts interleaved.
THEOREM MirrorsWhenQuiet == Spec => []MirrorWhenQuiet
<1>1. ASSUME SyncInv PROVE MirrorWhenQuiet
  <2> SUFFICES ASSUME cause = {}, \A p \in Party : InboxIds(inbox[p]) \subseteq Ids(handled[p])
               PROVE  Mirror
    BY DEF MirrorWhenQuiet
  <2>1. MailInv /\ InStep
    BY <1>1 DEF SyncInv, KeyInv
  <2>2. Alice \in Party /\ Bob \in Party /\ Peer(Alice) = Bob /\ Peer(Bob) = Alice
    BY MessagingAssumption DEF Party, Peer
  <2>3. \A p \in Party : Waiting(inbox[p], handled[p]) = {}
    BY IdsOfEntries DEF Waiting
  <2>4. \A p \in Party : <<mem[p].session, handled[p]>> \in Current(p)
    BY <2>1, MemCurrent DEF InStep
  <2>5. Linked(Alice, Bob) /\ Linked(Bob, Alice)
    BY <2>1, <2>2 DEF InStep
  <2>6. PICK a \in SessionState, b \in SessionState : a = Session(Alice) /\ b = Session(Bob)
    BY <2>1, <2>2, UserTypes DEF MailInv
  <2>7. Joined(a, b, {}) /\ Joined(b, a, {})
    BY <2>2, <2>3, <2>4, <2>5, <2>6 DEF Linked, Session
  <2>8. /\ a.root = b.root /\ a.local = b.remote /\ a.sendChain = b.recvChain /\ a.sendCounter = b.recvCounter
    BY <2>7, NothingUnderWay
  <2>9. /\ b.local = a.remote /\ b.sendChain = a.recvChain /\ b.sendCounter = a.recvCounter
    BY <2>7, NothingUnderWay
  <2> QED
    BY <2>6, <2>8, <2>9 DEF Mirror
<1> QED
  BY <1>1, SyncInvHolds, PTL
====
