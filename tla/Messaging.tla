---- MODULE Messaging ----
(***************************************************************************)
(* Two clients in an established session that exchange chat messages       *)
(* through the store: SendMessage, ProcessInbox with its drain passes and  *)
(* deferred acknowledgement, SaveLocalState, and restarts from the state   *)
(* file (src/src/client/client.cpp).                                       *)
(*                                                                         *)
(* A client is one thread: it sends only while no ProcessInbox is running, *)
(* and what it does between two calls of the server is invisible outside,  *)
(* so SendMessage is one step per outcome and ProcessInbox one step per    *)
(* server call, handled envelope, save and return.                         *)
(***************************************************************************)
EXTENDS ClientSession, InboxStore, InboxPoll, FiniteSets

CONSTANTS Alice, Bob,     \* initiator and responder of the session
          MaxSends,       \* [Party -> Nat]: bound on the SendMessage calls
          FaultKinds,     \* the faults that may happen, of "crash", "net", "save", "replay"
          MaxFaults       \* bound on their number

Party == {Alice, Bob}
Peer(p) == IF p = Alice THEN Bob ELSE Alice

ASSUME MessagingAssumption ==
    /\ Alice # Bob
    /\ NoKey \notin Party \X Nat
    /\ MaxSends \in [Party -> Nat]
    /\ FaultKinds \subseteq {"crash", "net", "save", "replay"}
    /\ MaxFaults \in Nat

VARIABLES
    mem,       \* per user: sessions_by_peer_[peer] and pending_inbox_ack_up_to_id_
    disk,      \* the same in the state file
    inbox,     \* the user's mailbox in the store
    nextId,    \* the id the mailbox gives next
    poll,      \* the ProcessInbox call in progress
    keys,      \* how many ratchet keys the user generated
    sends,     \* how many SendMessage calls the user made
    faults,    \* how many faults happened
    \* What happened, for the properties; no action reads these.
    handled,   \* envelopes whose handling the session in memory reflects: id and plaintext
    saved,     \* envelopes whose handling the session in the state file reflects
    rejected,  \* ids a handler refused
    returned,  \* ids whose plaintexts ProcessInbox returned, in order
    sealed,    \* message keys used to encrypt, with the body
    cause      \* reasons for the two ends to disagree

client == <<mem, disk, poll, keys, sends>>
store == <<inbox, nextId>>
history == <<handled, saved, rejected, returned, sealed, cause>>
vars == <<client, store, faults, history>>

Init ==
    /\ mem = [p \in Party |->
         [session |-> IF p = Alice THEN InitiatorSession(Alice, Bob)
                                   ELSE ResponderSession(Bob, Alice),
          pending |-> 0]]
    /\ disk = mem
    /\ inbox = [p \in Party |-> <<>>]
    /\ nextId = [p \in Party |-> 1]
    /\ poll = [p \in Party |-> Idle]
    /\ keys = [p \in Party |-> 0]
    /\ sends = [p \in Party |-> 0]
    /\ faults = 0
    /\ handled = [p \in Party |-> {}]
    /\ saved = [p \in Party |-> {}]
    /\ rejected = [p \in Party |-> {}]
    /\ returned = [p \in Party |-> <<>>]
    /\ sealed = {}
    /\ cause = {}

Fault(kind) ==
    /\ kind \in FaultKinds
    /\ faults < MaxFaults
    /\ faults' = faults + 1

----------------------------------------------------------------------------
\* SendMessage.  The four outcomes share the encryption; they differ in
\* whether the envelope reached the mailbox, whether the state file was
\* written, and whether the process survived.

Fresh(p) == <<p, keys[p] + 1>>
Body(p) == <<p, sends[p] + 1>>

Session(p) == mem[p].session
Sealed(p) == ChatEnvelope(Session(p), Fresh(p), Body(p))

\* The ratchet step starts from a root the peer has already left.
Crossing(p) == RatchetDue(Session(p)) /\ Session(Peer(p)).local # Session(p).remote

Encrypt(p, causes) ==
    /\ poll[p].pc = "idle"
    /\ sends[p] < MaxSends[p]
    /\ sends' = [sends EXCEPT ![p] = @ + 1]
    /\ keys' = IF RatchetDue(Session(p)) THEN [keys EXCEPT ![p] = @ + 1] ELSE keys
    /\ sealed' = sealed \cup {[key |-> Sealed(p).key, body |-> Body(p)]}
    /\ cause' = cause \cup causes \cup (IF Crossing(p) THEN {"crossed"} ELSE {})
    /\ UNCHANGED <<poll, rejected, returned>>

Post(p) ==
    LET q == Peer(p) IN
    /\ inbox' = [inbox EXCEPT ![q] = EnqueueEnvelope(@, nextId[q], Sealed(p))]
    /\ nextId' = [nextId EXCEPT ![q] = @ + 1]

\* The session in memory moves on before the call of the server.
AdvanceWhenAnswered(p) ==
    /\ mem' = [mem EXCEPT ![p].session = IF faults' = faults THEN AfterSend(@, Fresh(p)) ELSE @]
    /\ UNCHANGED handled
Advance(p) ==
    /\ mem' = [mem EXCEPT ![p].session = AfterSend(@, Fresh(p))]
    /\ UNCHANGED handled

\* SaveLocalState writes the whole client, what it handled included.  Where it
\* reports a failure the old file stays, or only the directory could not be
\* synced after the rename and the new one is in place.
SaveWithoutPending(p) ==
    /\ disk' = [disk EXCEPT ![p] = [mem'[p] EXCEPT !.pending = 0]]
    /\ saved' = [saved EXCEPT ![p] = handled[p]]
SaveNothing(p) == UNCHANGED <<disk, saved>>
Save(p) ==
    /\ disk' = [disk EXCEPT ![p] = mem'[p]]
    /\ saved' = [saved EXCEPT ![p] = handled[p]]

\* LoadLocalState after the process died.
Reload(p) ==
    /\ mem' = [mem EXCEPT ![p] = disk[p]]
    /\ handled' = [handled EXCEPT ![p] = saved[p]]

SendMessage(p) ==
    /\ UNCHANGED faults
    /\ Encrypt(p, {})
    /\ Post(p)
    /\ Advance(p)
    /\ Save(p)

\* The answer of EnqueueEnvelope was lost, or SaveLocalState failed.
SendMessageUnsaved(p) ==
    /\ Fault("net") \/ Fault("save")
    /\ Encrypt(p, {})
    /\ Post(p)
    /\ Advance(p)
    /\ UNCHANGED <<disk, saved>>

\* SaveLocalState failed with the new file in place.
SendMessageUnsynced(p) ==
    /\ Fault("save")
    /\ Encrypt(p, {})
    /\ Post(p)
    /\ Advance(p)
    /\ Save(p)

\* EnqueueEnvelope failed: SendMessage returns its error, and the session in
\* memory has moved past a number the peer will never see.
SendMessageNotPosted(p) ==
    /\ Fault("net")
    /\ Encrypt(p, {"gap"})
    /\ Advance(p)
    /\ UNCHANGED <<disk, saved, store>>

\* The process dies after EnqueueEnvelope and before SaveLocalState.
SendMessageCrash(p) ==
    /\ Fault("crash")
    /\ Encrypt(p, {"stale"})
    /\ Post(p)
    /\ Reload(p)
    /\ UNCHANGED <<disk, saved>>

----------------------------------------------------------------------------
\* ProcessInbox.

ProcessInbox(p) ==
    /\ poll[p].pc = "idle"
    /\ poll' = [poll EXCEPT ![p] = StartPoll(mem[p].pending)]
    /\ UNCHANGED <<mem, disk, keys, sends, store, faults, history>>

\* One DrainInbox call that is answered.
DrainInbox(p) ==
    LET left == DropAcked(inbox[p], poll[p].ack) IN
    /\ poll[p].pc = "drain"
    /\ inbox' = [inbox EXCEPT ![p] = left]
    /\ mem' = [mem EXCEPT ![p].pending = 0]
    /\ \E n \in PageLengths(left) : poll' = [poll EXCEPT ![p] = Served(@, PageOf(left, n))]
    /\ UNCHANGED <<disk, keys, sends, nextId, faults, history>>

\* One that fails, executed by the store or not.
DrainInboxFails(p) ==
    /\ poll[p].pc = "drain"
    /\ Fault("net")
    /\ \/ inbox' = [inbox EXCEPT ![p] = DropAcked(@, poll[p].ack)]
       \/ UNCHANGED inbox
    /\ mem' = [mem EXCEPT ![p].pending = IF poll[p].ack # 0 THEN poll[p].ack ELSE @]
    /\ poll' = [poll EXCEPT ![p] = NotServed(@)]
    /\ UNCHANGED <<disk, keys, sends, nextId, history>>

\* One envelope of the page goes through HandleChatMessage.
HandleEnvelope(p) ==
    LET item == Head(poll[p].page) IN
    /\ poll[p].pc = "handle"
    /\ \/ /\ Accepts(Session(p), item.env)
          /\ handled' = [handled EXCEPT ![p] = @ \cup {[id |-> item.id, body |-> item.env.body]}]
          /\ poll' = [poll EXCEPT ![p] = Handled(@)]
          /\ UNCHANGED rejected
       \/ /\ ~Accepts(Session(p), item.env)
          /\ rejected' = [rejected EXCEPT ![p] = @ \cup {item.id}]
          /\ poll' = [poll EXCEPT ![p] = Refused(@)]
          /\ UNCHANGED handled
    /\ mem' = [mem EXCEPT ![p] = [session |-> HandleChatMessage(@.session, item.env),
                                  pending |-> PendingAfter(poll'[p], @.pending)]]
    /\ UNCHANGED <<disk, keys, sends, store, faults, saved, returned, sealed, cause>>

\* The loop is over; the one-time prekeys are not dirty, so nothing is
\* republished.  An error and no plaintext return without saving.
GiveUp(p) ==
    /\ poll[p].pc = "end"
    /\ Fails(poll[p])
    /\ poll' = [poll EXCEPT ![p] = Idle]
    /\ UNCHANGED <<mem, disk, keys, sends, store, faults, history>>

SaveLocalState(p) ==
    /\ poll[p].pc = "end"
    /\ ~Fails(poll[p])
    /\ UNCHANGED mem
    /\ \/ Save(p) /\ (UNCHANGED faults \/ Fault("save"))
       \/ Fault("save") /\ UNCHANGED <<disk, saved>>
    /\ poll' = [poll EXCEPT ![p].pc = "return"]
    /\ UNCHANGED <<keys, sends, store, handled, rejected, returned, sealed, cause>>

\* The plaintexts reach the caller, saved or not.
Return(p) ==
    /\ poll[p].pc = "return"
    /\ returned' = [returned EXCEPT ![p] = @ \o poll[p].out]
    /\ poll' = [poll EXCEPT ![p] = Idle]
    /\ UNCHANGED <<mem, disk, keys, sends, store, faults, handled, saved, rejected, sealed,
                   cause>>

----------------------------------------------------------------------------
\* The process dies anywhere else, and Create loads the state file.

\* The state file does not agree with what the others have seen: a message
\* was encrypted and not saved, or what the session in the file has handled is
\* not what the store has deleted or will delete at the next acknowledgement.
Ids(envelopes) == {e.id : e \in envelopes}
Deleted(p) == (1 .. nextId[p] - 1) \ InboxIds(inbox[p])
StaleRestart(p) == \/ Session(p).sendChain # disk[p].session.sendChain
                   \/ Ids(saved[p]) # Deleted(p) \cup (InboxIds(inbox[p]) \cap 1 .. disk[p].pending)

Restart(p) ==
    /\ Fault("crash")
    /\ Reload(p)
    /\ poll' = [poll EXCEPT ![p] = Idle]
    /\ cause' = IF StaleRestart(p) THEN cause \cup {"stale"} ELSE cause
    /\ UNCHANGED <<disk, keys, sends, store, saved, rejected, returned, sealed>>

\* An envelope reaches the mailbox once more.
Replay(p) ==
    /\ Fault("replay")
    /\ \E i \in DOMAIN inbox[p] :
         inbox' = [inbox EXCEPT ![p] = EnqueueEnvelope(@, nextId[p], inbox[p][i].env)]
    /\ nextId' = [nextId EXCEPT ![p] = @ + 1]
    /\ cause' = cause \cup {"replayed"}
    /\ UNCHANGED <<client, handled, saved, rejected, returned, sealed>>

----------------------------------------------------------------------------
\* ProcessInbox up to its return, with a server that answers.
PollStep(p) == \/ ProcessInbox(p) \/ DrainInbox(p) \/ HandleEnvelope(p) \/ GiveUp(p)
               \/ SaveLocalState(p) \/ Return(p)

Send(p) == \/ SendMessage(p) \/ SendMessageUnsaved(p) \/ SendMessageUnsynced(p)
           \/ SendMessageNotPosted(p) \/ SendMessageCrash(p)

Next == \E p \in Party : Send(p) \/ PollStep(p) \/ DrainInboxFails(p) \/ Restart(p) \/ Replay(p)

Spec == Init /\ [][Next]_vars

\* The user keeps polling and a running call is not suspended forever.
FairSpec == Spec /\ \A p \in Party : WF_vars(PollStep(p))

----------------------------------------------------------------------------
RatchetKey == Party \X Nat
RootKey == Seq(SUBSET RatchetKey)
ChainKey == [label : {"c1", "c2", "ratchet"}, path : RootKey, used : Seq(Nat)]
SessionState == [root : RootKey, sendChain : ChainKey, recvChain : ChainKey,
                 sendCounter : Nat, recvCounter : Nat, local : RatchetKey,
                 remote : RatchetKey]
Envelope == [ratchet : RatchetKey \cup {NoKey}, number : Nat, key : ChainKey \X Nat,
             body : Party \X Nat]
Entry == [id : Nat \ {0}, env : Envelope]
ClientState == [session : SessionState, pending : Nat]

\* The type invariant: every variable of the clients, the store and the
\* history holds a value of its kind.
TypeOK ==
    /\ mem \in [Party -> ClientState]
    /\ disk \in [Party -> ClientState]
    /\ inbox \in [Party -> Seq(Entry)]
    /\ nextId \in [Party -> Nat \ {0}]
    /\ poll \in [Party -> PollState(Entry)]
    /\ keys \in [Party -> Nat]
    /\ sends \in [Party -> Nat]
    /\ faults \in 0 .. MaxFaults
    /\ handled \in [Party -> SUBSET [id : Nat, body : Party \X Nat]]
    /\ saved \in [Party -> SUBSET [id : Nat, body : Party \X Nat]]
    /\ rejected \in [Party -> SUBSET Nat]
    /\ returned \in [Party -> Seq(Nat)]
    /\ sealed \subseteq [key : ChainKey \X Nat, body : Party \X Nat]
    /\ cause \subseteq {"crossed", "gap", "stale", "replayed"}

\* HandleChatMessage refuses an envelope of the peer only if two ratchet steps
\* crossed, an EnqueueEnvelope call failed after the counter had moved, a
\* client restarted from a state file that others had overtaken, or it is a
\* duplicate.  A failed DrainInbox, a lost answer and a failed save are never
\* the reason.
RejectionHasCause == (\E p \in Party : rejected[p] # {}) => cause # {}

\* The two ends hold mirrored keys and counters.
Mirror ==
    LET a == Session(Alice)
        b == Session(Bob)
    IN  /\ a.root = b.root
        /\ a.sendChain = b.recvChain /\ a.recvChain = b.sendChain
        /\ a.sendCounter = b.recvCounter /\ a.recvCounter = b.sendCounter
        /\ a.local = b.remote /\ a.remote = b.local

\* Once every envelope in the mailboxes has been handled, both ends derived
\* the same root, chains and counters, however sends, polls and ratchet steps
\* interleaved, unless one of the causes of disagreement occurred.
MirrorWhenQuiet ==
    (cause = {} /\ \A p \in Party : InboxIds(inbox[p]) \subseteq Ids(handled[p])) => Mirror

\* No two plaintexts are encrypted under the same message key and nonce.
MessageKeyUnique == \A x, y \in sealed : x.key = y.key => x.body = y.body

\* The only way to encrypt twice under one message key is a restart from a
\* stale state file, one older than the last encryption (or one at odds with
\* what the store has deleted, which the cause does not tell apart): failed
\* calls, lost answers, failed saves and crossed ratchet steps never reuse a key.
KeyReuseNeedsStaleRestart == "stale" \notin cause => MessageKeyUnique

\* DrainInbox deletes only envelopes the client has decrypted: an
\* acknowledgement never covers the refused envelope or one behind it.
AckedWasHandled ==
    [][\A p \in Party : InboxIds(inbox[p]) \ InboxIds(inbox'[p]) \subseteq Ids(handled[p])]_vars

\* Without faults every chat message is accepted, whenever the two ends take
\* their ratchet steps.
RatchetInteroperates == \A p \in Party : rejected[p] = {}

\* No poll looks again at an envelope the session has already advanced past
\* (it would be refused and block the mailbox): the acknowledgement that will
\* delete it survives failed calls, failed saves and restarts along with the
\* session.
NoneHandledTwice ==
    \A p \in Party : InboxIds(poll[p].page) \cap Ids(handled[p]) = {}

\* A ciphertext is decrypted at most once in the life of a session, also when
\* the mailbox holds it twice and the client restarts in between.
OpenedOnce ==
    \A p \in Party : \A x, y \in handled[p] : x.body = y.body => x = y

\* ProcessInbox implements the delivery promise of Channel while the state
\* file can be written: no interleaving of sends, lost answers, repeated
\* polls and restarts shows a message twice or out of order.
Promise == INSTANCE Channel WITH User <- Party,
                                 posted <- [p \in Party |-> nextId[p] - 1],
                                 seen <- returned
DeliversInOrderOnce == Promise!Spec

\* Every envelope that reached the mailbox is returned to the user, unless a
\* cause of disagreement occurred, when the user keeps polling.
EventuallyReturned ==
    \A p \in Party : \A i \in 1 .. MaxSends[Peer(p)] :
        i < nextId[p] ~> (cause # {} \/ \E k \in DOMAIN returned[p] : returned[p][k] = i)
====
