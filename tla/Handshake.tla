---- MODULE Handshake ----
(***************************************************************************)
(* Session establishment between clients (src/src/client/client.cpp) over  *)
(* the prekey store and the mailboxes of the server: PublishPrekeys,       *)
(* InitiateSession, VerifyPeerSafetyNumber, ProcessInbox with              *)
(* HandleInitialMessage, the refill and republication of one-time prekeys, *)
(* restarts from the state file, and its loss.                             *)
(*                                                                         *)
(* The EC and the PQ pool move in step (refilled together, handed out and  *)
(* erased as a pair), so a pool is one sequence of pairs; <<p, n>> is the  *)
(* n-th pair p generated.  Handshake <<p, n>> is the n-th that p began; it *)
(* stands for the session id and the transcript hash, both fresh.          *)
(* Identity n of a user is the n-th set of identity keys its client        *)
(* generated.  Signatures of honest clients verify.                        *)
(***************************************************************************)
EXTENDS InboxStore, InboxPoll, FiniteSets

CONSTANTS Party,
          PoolTarget,   \* kOneTimePrekeyPoolTarget
          MaxGuards,    \* kMaxInitialReplayGuards
          MaxPeers,     \* kMaxPersistedPeers
          MaxSessions,  \* kMaxPersistedSessions
          None,         \* no pair, no session, no bundle, no task
          Contacts,     \* <<p, q>>: p has verified q's safety number before
          Calls,        \* <<p, q>>: p may begin sessions with q
          Responders,   \* the users who publish and poll; the others only begin sessions
          MaxInits,     \* [Party -> Nat]: bound on the InitiateSession calls
          FaultKinds,   \* the faults that may happen, of "crash", "net", "save", "replay", "lost"
          MaxFaults     \* bound on their number

ASSUME HandshakeAssumption ==
    /\ PoolTarget \in Nat \ {0} /\ MaxGuards \in Nat \ {0}
    /\ MaxPeers \in Nat \ {0} /\ MaxSessions \in Nat \ {0}
    /\ None \notin [identity : Nat, verified : BOOLEAN] /\ None \notin Party \X Nat
    /\ None \notin [id : Party \X Nat, with : Nat]
    /\ Contacts \subseteq Party \X Party
    /\ Calls \subseteq {c \in Party \X Party : c[1] # c[2]}
    /\ Responders \subseteq Party
    /\ MaxInits \in [Party -> Nat]
    /\ FaultKinds \subseteq {"crash", "net", "save", "replay", "lost"}
    /\ MaxFaults \in Nat

VARIABLES
    mem,       \* the client: identity, pools, dirty flag, replay guards, peers, sessions,
               \* pending acknowledgement
    disk,      \* the same in the state file
    bundle,    \* the store: identity and one-time pairs left of the user's bundle
    inbox, nextId,
    poll,      \* the ProcessInbox call in progress
    task,      \* the other call in progress
    made,      \* how many pairs the user generated
    inits,     \* how many InitiateSession calls the user made
    faults,
    \* What happened, for the properties.
    posted,    \* initial messages that reached the mailbox of the user
    handed,    \* per owner, the pairs handed out, in order
    missing,   \* pairs an initial message was refused for
    compared,  \* <<p, q>> -> the identities of q that p's user compared the number of
    cause      \* reasons for two ends to disagree, for a pair to be unavailable, or
               \* for a message to be met twice

store == <<bundle, inbox, nextId>>
history == <<posted, handed, missing, compared, cause>>
vars == <<mem, disk, store, poll, task, made, inits, faults, history>>

----------------------------------------------------------------------------
\* RefillOneTimePrekeyPools: fresh pairs up to the target, dirty if any.
Lacking(c) == IF Len(c.pool) < PoolTarget THEN PoolTarget - Len(c.pool) ELSE 0
RefillAnew(p, c) == [c EXCEPT !.pool = [i \in 1 .. PoolTarget |-> <<p, made[p] + i>>], !.dirty = TRUE]
Refill(p, c) == [c EXCEPT !.pool = @ \o [i \in 1 .. Lacking(c) |-> <<p, made[p] + i>>],
                          !.dirty = @ \/ Lacking(c) > 0]

\* RememberInitialReplayGuards: the oldest guard goes when there are too many.
RememberAll(guards, h) == Append(guards, h)
Remember(guards, h) ==
    LET all == Append(guards, h)
    IN  IF Len(all) > MaxGuards THEN Tail(all) ELSE all

\* Create without a state file: new keys, nobody known, pools to publish.
NewClient(identity, pool) ==
    [self |-> identity, pool |-> pool, dirty |-> TRUE, guards |-> <<>>,
     peers |-> [q \in Party |-> None], sessions |-> [q \in Party |-> None],
     pending |-> 0, accepted |-> <<>>]

FreshPool(p, n) == [i \in 1 .. PoolTarget |-> <<p, n + i>>]

\* trusted_peer_identities_: the identity first seen, and whether the user
\* compared its safety number.
Known(identity, verified) == [identity |-> identity, verified |-> verified]

\* Everyone was created, has published and has saved; who knows whom is given.
Created(p) ==
    [NewClient(1, FreshPool(p, 0)) EXCEPT
        !.dirty = FALSE,
        !.peers = [q \in Party |-> IF <<p, q>> \in Contacts THEN Known(1, TRUE) ELSE None]]

\* No call besides ProcessInbox is in progress.
NoTask == [op |-> "none", peer |-> None, identity |-> 0, pair |-> None]

Init ==
    /\ mem = [p \in Party |-> Created(p)]
    /\ disk = mem
    /\ bundle = [p \in Party |-> [identity |-> 1, pairs |-> mem[p].pool]]
    /\ inbox = [p \in Party |-> <<>>]
    /\ nextId = [p \in Party |-> 1]
    /\ poll = [p \in Party |-> Idle]
    /\ task = [p \in Party |-> NoTask]
    /\ made = [p \in Party |-> PoolTarget]
    /\ inits = [p \in Party |-> 0]
    /\ faults = 0
    /\ posted = [p \in Party |-> {}]
    /\ handed = [p \in Party |-> <<>>]
    /\ missing = {}
    /\ compared = [c \in Party \X Party |-> IF c \in Contacts THEN {1} ELSE {}]
    /\ cause = {}

Fault(kind) ==
    /\ kind \in FaultKinds
    /\ faults < MaxFaults
    /\ faults' = faults + 1

\* The client is not inside a call.
Free(p) == poll[p].pc = "idle" /\ task[p] = NoTask

\* SaveLocalState of a client c, and whether it reports success.  More
\* contacts, verified or not, or more sessions than their limits are refused,
\* for good: neither table ever shrinks.  WriteAllFileAtomic replaces the file
\* by a rename; where it fails before, the old file stays, and where only the
\* directory could not be synced the new one is in place.
Filled(table) == {q \in Party : table[q] # None}
Persistable(c) ==
    /\ Cardinality(Filled(c.peers)) <= MaxPeers
    /\ Cardinality(Filled(c.sessions)) <= MaxSessions

WrittenWithoutGuards(p, c) == [disk EXCEPT ![p] = [c EXCEPT !.guards = disk[p].guards]]
WrittenWithoutAck(p, c) == [disk EXCEPT ![p] = [c EXCEPT !.pending = 0]]
Written(p, c) == [disk EXCEPT ![p] = c]

SaveOf(p, c, ok) ==
    \/ /\ ok /\ Persistable(c)
       /\ disk' = Written(p, c)
       /\ UNCHANGED faults
    \/ /\ ~ok /\ ~Persistable(c)
       /\ UNCHANGED <<disk, faults>>
    \/ /\ ~ok /\ Persistable(c)
       /\ Fault("save")
       /\ disk' \in {disk, Written(p, c)}

Save(p) == \E ok \in BOOLEAN : SaveOf(p, mem'[p], ok)

----------------------------------------------------------------------------
\* The prekey store: PublishBundle replaces the bundle of the user, and
\* AcquireBundleForSession hands out the first pair, if one is left.
StoreBundle(p, c) == [bundle EXCEPT ![p] = [identity |-> c.self, pairs |-> c.pool]]
FirstPair(q) == IF bundle[q].pairs = <<>> THEN None ELSE Head(bundle[q].pairs)
WithoutFirst(q) == [bundle EXCEPT ![q].pairs = IF @ = <<>> THEN @ ELSE Tail(@)]

\* PublishPrekeys, called by the user or from ProcessInbox: the bundle
\* replaces the stored one, and only then the client saves.

PublishStayingDirty(p, c) ==
    /\ bundle' = StoreBundle(p, c)
    /\ mem' = [mem EXCEPT ![p] = c]
    /\ task' = [task EXCEPT ![p] = [NoTask EXCEPT !.op = "published"]]
Publish(p, c) ==
    /\ bundle' = StoreBundle(p, c)
    /\ mem' = [mem EXCEPT ![p] = [c EXCEPT !.dirty = FALSE]]
    /\ task' = [task EXCEPT ![p] = [NoTask EXCEPT !.op = "published"]]

\* The call failed, executed by the store or not.
PublishFails(p, c) ==
    /\ Fault("net")
    /\ bundle' \in {bundle, StoreBundle(p, c)}
    /\ mem' = [mem EXCEPT ![p] = c]
    /\ UNCHANGED task

PublishPrekeys(p) ==
    /\ Free(p)
    /\ p \in Responders
    /\ \/ Publish(p, mem[p]) /\ UNCHANGED faults
       \/ PublishFails(p, mem[p])
    /\ UNCHANGED <<disk, inbox, nextId, poll, made, inits, history>>

SavePrekeys(p) ==
    /\ task[p].op = "published"
    /\ UNCHANGED mem
    /\ \E ok \in BOOLEAN :
         /\ SaveOf(p, mem[p], ok)
         /\ poll' = [poll EXCEPT ![p].err = @ \/ (poll[p].pc = "save" /\ ~ok)]
    /\ task' = [task EXCEPT ![p] = NoTask]
    /\ UNCHANGED <<store, made, inits, history>>

\* The tail of ProcessInbox refills and republishes dirty pools, also after
\* an error; a failed publication leaves them dirty.
Republish(p) ==
    LET c == Refill(p, mem[p]) IN
    /\ poll[p].pc = "end"
    /\ mem[p].dirty
    /\ made' = [made EXCEPT ![p] = @ + Lacking(mem[p])]
    /\ \/ /\ Publish(p, c)
          /\ poll' = [poll EXCEPT ![p].pc = "save"]
          /\ UNCHANGED faults
       \/ /\ PublishFails(p, c)
          /\ poll' = [poll EXCEPT ![p].pc = "save", ![p].err = TRUE]
    /\ UNCHANGED <<disk, inbox, nextId, inits, history>>

----------------------------------------------------------------------------
\* InitiateSession.

\* The call of AcquireBundleForSession, whose answer may be lost.
AcquireBundle(p, q) ==
    LET pair == FirstPair(q) IN
    /\ Free(p)
    /\ <<p, q>> \in Calls
    /\ inits[p] < MaxInits[p]
    /\ inits' = [inits EXCEPT ![p] = @ + 1]
    /\ bundle' = WithoutFirst(q)
    /\ handed' = [handed EXCEPT ![q] = IF pair = None THEN @ ELSE Append(@, pair)]
    /\ \/ /\ task' = [task EXCEPT ![p] = [op |-> "acquired", peer |-> q,
                                           identity |-> bundle[q].identity, pair |-> pair]]
          /\ UNCHANGED faults
       \/ UNCHANGED task /\ Fault("net")
    /\ UNCHANGED <<mem, disk, inbox, nextId, poll, made, posted, missing, compared, cause>>

Acquired(p) == task[p].op = "acquired"

\* VerifyOrRememberPeerIdentity: a first contact is remembered, saved and
\* refused until the user has compared the safety number; another identity
\* than the remembered one is refused for good.
TrustsAny(c, q, identity) == c.peers[q] # None /\ c.peers[q].verified
Trusts(c, q, identity) == c.peers[q] = Known(identity, TRUE)

MeetForgetting(c, q, identity) == c
Meet(c, q, identity) == [c EXCEPT !.peers[q] = IF @ = None THEN Known(identity, FALSE) ELSE @]

InitiateRefused(p) ==
    /\ Acquired(p)
    /\ LET q == task[p].peer IN
       /\ ~Trusts(mem[p], q, task[p].identity) \/ task[p].pair = None
       /\ mem' = [mem EXCEPT ![p] = Meet(@, q, task[p].identity)]
       /\ IF mem[p].peers[q] = None THEN Save(p) ELSE UNCHANGED <<disk, faults>>
    /\ task' = [task EXCEPT ![p] = NoTask]
    /\ UNCHANGED <<store, poll, made, inits, history>>

HasAccepted(c, m) == \E i \in DOMAIN c.accepted : c.accepted[i] = m

\* The handshake in progress: a new session with its replay guard.
Begun(p) == [id |-> <<p, inits[p]>>, from |-> p, identity |-> mem[p].self,
             to |-> task[p].identity, pair |-> task[p].pair]
WithSession(c, peer, identity, m) ==
    [c EXCEPT !.guards = Remember(@, m.id),
              !.sessions[peer] = [id |-> m.id, with |-> identity]]

\* An initiation of the peer is on its way to p.
Crossing(p, q) ==
    \E i \in DOMAIN inbox[p] :
        inbox[p][i].env.from = q /\ ~HasAccepted(mem[p], inbox[p][i].env)

StartInitial(p) ==
    /\ Acquired(p)
    /\ task[p].pair # None
    /\ Trusts(mem[p], task[p].peer, task[p].identity)
    /\ task' = [task EXCEPT ![p] = NoTask]
    /\ UNCHANGED <<bundle, poll, made, inits, handed, missing, compared>>

PostInitial(p) ==
    LET q == task[p].peer IN
    /\ inbox' = [inbox EXCEPT ![q] = EnqueueEnvelope(@, nextId[q], Begun(p))]
    /\ nextId' = [nextId EXCEPT ![q] = @ + 1]
    /\ posted' = [posted EXCEPT ![q] = @ \cup {Begun(p)}]

Causes(p, causes) ==
    cause' = cause \cup causes \cup (IF Crossing(p, task[p].peer) THEN {"crossed"} ELSE {})

Establish(p) ==
    mem' = [mem EXCEPT ![p] = WithSession(@, task[p].peer, task[p].identity, Begun(p))]

InitiateSession(p) ==
    /\ StartInitial(p)
    /\ Establish(p)
    /\ PostInitial(p)
    /\ Causes(p, {})
    /\ \/ Save(p)
       \/ UNCHANGED disk /\ Fault("net")   \* the answer of EnqueueEnvelope was lost

\* EnqueueEnvelope failed; the session in memory is in place all the same.
InitiateNotPosted(p) ==
    /\ StartInitial(p)
    /\ Establish(p)
    /\ Fault("net")
    /\ Causes(p, {"gap"})
    /\ UNCHANGED <<disk, inbox, nextId, posted>>

\* The user enters the safety number that the peer's client shows; it has to
\* be the one of the remembered identity.
VerifyPeerSafetyNumber(p, q) ==
    /\ Free(p)
    /\ mem[p].peers[q] = Known(mem[q].self, FALSE)
    /\ mem' = [mem EXCEPT ![p].peers[q].verified = TRUE]
    /\ compared' = [compared EXCEPT ![<<p, q>>] = @ \cup {mem[q].self}]
    /\ Save(p)
    /\ UNCHANGED <<store, poll, task, made, inits, posted, handed, missing, cause>>

----------------------------------------------------------------------------
\* ProcessInbox, as in Messaging.

ProcessInbox(p) ==
    /\ Free(p)
    /\ p \in Responders
    /\ poll' = [poll EXCEPT ![p] = StartPoll(mem[p].pending)]
    /\ UNCHANGED <<mem, disk, store, task, made, inits, faults, history>>

DrainInbox(p) ==
    LET left == DropAcked(inbox[p], poll[p].ack) IN
    /\ poll[p].pc = "drain"
    /\ inbox' = [inbox EXCEPT ![p] = left]
    /\ mem' = [mem EXCEPT ![p].pending = 0]
    /\ \E n \in PageLengths(left) : poll' = [poll EXCEPT ![p] = Served(@, PageOf(left, n))]
    /\ UNCHANGED <<disk, bundle, nextId, task, made, inits, faults, history>>

DrainInboxFailsForgetting(p) ==
    /\ poll[p].pc = "drain"
    /\ Fault("net")
    /\ inbox' \in {inbox, [inbox EXCEPT ![p] = DropAcked(@, poll[p].ack)]}
    /\ mem' = [mem EXCEPT ![p].pending = 0]
    /\ poll' = [poll EXCEPT ![p] = NotServed(@)]
    /\ UNCHANGED <<disk, bundle, nextId, task, made, inits, history>>
DrainInboxFails(p) ==
    /\ poll[p].pc = "drain"
    /\ Fault("net")
    /\ inbox' \in {inbox, [inbox EXCEPT ![p] = DropAcked(@, poll[p].ack)]}
    /\ mem' = [mem EXCEPT ![p].pending = IF poll[p].ack # 0 THEN poll[p].ack ELSE @]
    /\ poll' = [poll EXCEPT ![p] = NotServed(@)]
    /\ UNCHANGED <<disk, bundle, nextId, task, made, inits, history>>

\* HandleInitialMessage: the checks in the order of the code.
Replayed(c, m) == \E i \in DOMAIN c.guards : c.guards[i] = m.id
HasPair(c, pair) == \E i \in DOMAIN c.pool : c.pool[i] = pair

\* The transcript names the identities of both ends, so a message to an
\* identity the client had before fails there.
Genuine(c, m) == ~Replayed(c, m) /\ m.to = c.self
Accepts(c, m) == Genuine(c, m) /\ Trusts(c, m.from, m.identity) /\ HasPair(c, m.pair)

\* erase of the pools: the pair leaves its place in the sequence.
Erase(pool, pair) ==
    LET i == CHOOSE i \in DOMAIN pool : pool[i] = pair
    IN  [k \in 1 .. Len(pool) - 1 |-> IF k < i THEN pool[k] ELSE pool[k + 1]]

\* The accepted message consumes its pair and replaces the session.
AcceptKeepingPair(c, m) ==
    [WithSession(c, m.from, m.identity, m) EXCEPT !.dirty = TRUE, !.accepted = Append(@, m)]
AcceptQuietly(c, m) ==
    [WithSession(c, m.from, m.identity, m) EXCEPT
        !.pool = Erase(@, m.pair), !.accepted = Append(@, m)]
AcceptKeepingSession(c, m) ==
    [WithSession(c, m.from, m.identity, m) EXCEPT
        !.pool = Erase(@, m.pair), !.dirty = TRUE,
        !.accepted = Append(@, m),
        !.sessions[m.from] = IF c.sessions[m.from] = None THEN @ ELSE c.sessions[m.from]]
Accept(c, m) ==
    [WithSession(c, m.from, m.identity, m) EXCEPT
        !.pool = Erase(@, m.pair), !.dirty = TRUE,
        !.accepted = Append(@, m)]

HandleAccepted(p) ==
    LET m == Head(poll[p].page).env IN
    /\ poll[p].pc = "handle"
    /\ Accepts(mem[p], m)
    /\ poll' = [poll EXCEPT ![p] = Handled(@)]
    /\ mem' = [mem EXCEPT ![p] = [Accept(mem[p], m) EXCEPT !.pending = PendingAfter(poll'[p], @)]]
    /\ UNCHANGED <<disk, store, task, made, inits, faults, history>>

\* Refused.  A first contact is remembered and saved on the way, with all
\* that this call has done so far; the envelope stays in the mailbox.  Where
\* the page had accepted messages before it, they are saved without their
\* acknowledgement, which is only set when the page ends.
HandleRefused(p) ==
    LET m == Head(poll[p].page).env
        first == Genuine(mem[p], m) /\ mem[p].peers[m.from] = None
        noPair == /\ m.to = mem[p].self /\ Trusts(mem[p], m.from, m.identity)
                  /\ ~HasAccepted(mem[p], m)
        met == IF first THEN Meet(mem[p], m.from, m.identity) ELSE mem[p]
    IN
    /\ poll[p].pc = "handle"
    /\ ~Accepts(mem[p], m)
    /\ poll' = [poll EXCEPT ![p] = Refused(@)]
    /\ mem' = [mem EXCEPT ![p] = [met EXCEPT !.pending = PendingAfter(poll'[p], @)]]
    /\ IF first
       THEN \E ok \in BOOLEAN : SaveOf(p, met, ok)
       ELSE UNCHANGED <<disk, faults>>
    /\ missing' = IF noPair THEN missing \cup {m.pair} ELSE missing
    /\ cause' = cause \cup (IF first /\ poll[p].done # 0 THEN {"midpage"} ELSE {})
    /\ UNCHANGED <<store, task, made, inits, posted, handed, compared>>

\* The end: an error and no plaintext return without saving.
Over(p) == poll[p].pc = "save" \/ (poll[p].pc = "end" /\ ~mem[p].dirty)

GiveUp(p) ==
    /\ Over(p) /\ task[p] = NoTask
    /\ Fails(poll[p])
    /\ poll' = [poll EXCEPT ![p] = Idle]
    /\ UNCHANGED <<mem, disk, store, task, made, inits, faults, history>>

SaveLocalState(p) ==
    /\ Over(p) /\ task[p] = NoTask
    /\ ~Fails(poll[p])
    /\ UNCHANGED mem
    /\ Save(p)
    /\ poll' = [poll EXCEPT ![p] = Idle]
    /\ UNCHANGED <<store, task, made, inits, history>>

----------------------------------------------------------------------------
\* The process dies, and Create loads, refills and saves the state file.
Loaded(p) == disk[p]
Recreate(p) ==
    LET c == Refill(p, Loaded(p)) IN
    /\ mem' = [mem EXCEPT ![p] = c]
    /\ disk' = [disk EXCEPT ![p] = c]
    /\ made' = [made EXCEPT ![p] = @ + Lacking(Loaded(p))]
    /\ poll' = [poll EXCEPT ![p] = Idle]
    /\ task' = [task EXCEPT ![p] = NoTask]

\* What the state file had not caught up with: the pools, with the messages
\* that consumed their pairs, the sessions, and the acknowledgement of a
\* message that it holds as accepted and the mailbox still has.
Lost(p) == (IF mem[p].pool # disk[p].pool \/ mem[p].accepted # disk[p].accepted
            THEN {"pool"} ELSE {}) \cup
           (IF mem[p].sessions # disk[p].sessions THEN {"session"} ELSE {}) \cup
           (IF \E i \in DOMAIN inbox[p] : /\ inbox[p][i].id > disk[p].pending
                                        /\ HasAccepted(disk[p], inbox[p][i].env)
            THEN {"unacked"} ELSE {})

Restart(p) ==
    /\ Fault("crash")
    /\ Recreate(p)
    /\ cause' = cause \cup Lost(p)
    /\ UNCHANGED <<store, inits, posted, handed, missing, compared>>

\* It dies between EnqueueEnvelope and SaveLocalState of InitiateSession.
InitiateCrash(p) ==
    /\ Acquired(p)
    /\ task[p].pair # None
    /\ Trusts(mem[p], task[p].peer, task[p].identity)
    /\ Fault("crash")
    /\ PostInitial(p)
    /\ Recreate(p)
    /\ cause' = cause \cup Lost(p) \cup {"session"}
    /\ UNCHANGED <<bundle, inits, handed, missing, compared>>

\* It starts again and cannot open the state file: for ReadAllFile the file is
\* missing, so Create makes a new client and saves it over the old one.  The
\* user has a token that recovers the account.
LoseStateFile(p) ==
    /\ Fault("lost")
    /\ mem' = [mem EXCEPT ![p] = NewClient(@.self + 1, FreshPool(p, made[p]))]
    /\ disk' = [disk EXCEPT ![p] = mem'[p]]
    /\ made' = [made EXCEPT ![p] = @ + PoolTarget]
    /\ poll' = [poll EXCEPT ![p] = Idle]
    /\ task' = [task EXCEPT ![p] = NoTask]
    /\ compared' = [c \in Party \X Party |-> IF c[1] = p THEN {} ELSE compared[c]]
    /\ cause' = cause \cup {"identity"}
    /\ UNCHANGED <<store, inits, posted, handed, missing>>

\* An initial message reaches the mailbox once more.
Replay(p) ==
    /\ Fault("replay")
    /\ \E m \in posted[p] : inbox' = [inbox EXCEPT ![p] = EnqueueEnvelope(@, nextId[p], m)]
    /\ nextId' = [nextId EXCEPT ![p] = @ + 1]
    /\ cause' = cause \cup {"replayed"}
    /\ UNCHANGED <<mem, disk, bundle, poll, task, made, inits, posted, handed, missing, compared>>

----------------------------------------------------------------------------
\* The steps of a call in progress, with a server that answers.
CallStep(p) == \/ DrainInbox(p) \/ HandleAccepted(p) \/ HandleRefused(p)
               \/ Republish(p) \/ SavePrekeys(p) \/ GiveUp(p) \/ SaveLocalState(p)
               \/ InitiateRefused(p) \/ InitiateSession(p)

Next ==
    \E p \in Party :
        \/ PublishPrekeys(p)
        \/ \E q \in Party : AcquireBundle(p, q) \/ VerifyPeerSafetyNumber(p, q)
        \/ ProcessInbox(p) \/ CallStep(p)
        \/ InitiateNotPosted(p) \/ InitiateCrash(p) \/ DrainInboxFails(p)
        \/ Restart(p) \/ LoseStateFile(p) \/ Replay(p)

Spec == Init /\ [][Next]_vars

\* A call that runs ends.  Between their other calls the responders poll again
\* and again, and in the end they compare the numbers of the peers they met.
FairSpec ==
    /\ Spec
    /\ \A p \in Party : WF_vars(CallStep(p))
    /\ \A p \in Responders :
         /\ SF_vars(ProcessInbox(p))
         /\ SF_vars(\E q \in Party : VerifyPeerSafetyNumber(p, q))

----------------------------------------------------------------------------
Pair == Party \X (Nat \ {0})
HandshakeId == Party \X (Nat \ {0})
Initial == [id : HandshakeId, from : Party, identity : Nat, to : Nat, pair : Pair]
SessionState == [id : HandshakeId, with : Nat] \cup {None}
ClientState ==
    [self : Nat, pool : Seq(Pair), dirty : BOOLEAN, guards : Seq(HandshakeId),
     peers : [Party -> [identity : Nat, verified : BOOLEAN] \cup {None}],
     sessions : [Party -> SessionState], pending : Nat, accepted : Seq(Initial)]
Entry == [id : Nat \ {0}, env : Initial]
Task == [op : {"none", "published", "acquired"}, peer : Party \cup {None}, identity : Nat,
         pair : Pair \cup {None}]

\* What may part two ends: two initiations crossed, one was not posted, or an
\* end restarted without its session or without its state file.
Partings == {"crossed", "gap", "session", "identity"}

\* What else may happen to a client: it died with unsaved pools, it saved in
\* the middle of a page, it died without an acknowledgement, or a message
\* reached its mailbox twice.
Reasons == Partings \cup {"pool", "midpage", "unacked", "replayed"}

\* The type invariant: the variables hold values of their kind, and pools and
\* replay guards stay within the limits that LoadLocalState accepts.
TypeOK ==
    /\ mem \in [Party -> ClientState]
    /\ \A p \in Party : Len(mem[p].pool) <= PoolTarget /\ Len(mem[p].guards) <= MaxGuards
    /\ disk \in [Party -> ClientState]
    /\ bundle \in [Party -> [identity : Nat, pairs : Seq(Pair)]]
    /\ inbox \in [Party -> Seq(Entry)]
    /\ nextId \in [Party -> Nat \ {0}]
    /\ poll \in [Party -> PollState(Entry)]
    /\ task \in [Party -> Task]
    /\ made \in [Party -> Nat]
    /\ inits \in [Party -> Nat]
    /\ faults \in 0 .. MaxFaults
    /\ posted \in [Party -> SUBSET Initial]
    /\ handed \in [Party -> Seq(Pair)]
    /\ missing \subseteq Pair
    /\ compared \in [Party \X Party -> SUBSET Nat]
    /\ cause \subseteq Reasons

Elements(s) == {s[i] : i \in DOMAIN s}

\* No initial message is accepted twice and no one-time pair serves two
\* sessions, through replays, republications, restarts and the eviction of
\* replay guards.  (A restart from an older state file forgets the session
\* together with the use of the pair.)
ConsumedOnce ==
    \A p \in Party : \A i, j \in DOMAIN mem[p].accepted :
        mem[p].accepted[i].pair = mem[p].accepted[j].pair => i = j

\* A client whose pools are not marked dirty holds the private half of every
\* pair the store can hand out for it, and a pair it holds that the store has
\* not is one the store handed out, perhaps to an initiator that was refused
\* afterwards.  This fails only for a client that died with unsaved pools.
StoredPairsAnswerable ==
    "pool" \notin cause =>
        \A p \in Party : ~mem[p].dirty =>
            /\ bundle[p].identity = mem[p].self
            /\ Elements(bundle[p].pairs) \subseteq Elements(mem[p].pool)
            /\ Elements(mem[p].pool) \ Elements(bundle[p].pairs) \subseteq Elements(handed[p])

\* A new initial message of a verified peer is refused for a missing pair only
\* if the pair was handed out twice or the client died with unsaved pools.
MissingHasCause ==
    "pool" \in cause \/
        \A pair \in missing : Cardinality({i \in DOMAIN handed[pair[1]] : handed[pair[1]][i] = pair}) > 1

\* Nothing is on its way between p and q.
Settled(p, q) == \A m \in posted[p] : m.from = q => HasAccepted(mem[p], m)

\* Two clients with nothing on its way between them have the same session with
\* each other, or both none ...
SessionId(p, q) == IF mem[p].sessions[q] = None THEN None ELSE mem[p].sessions[q].id
Agree(p, q) == Settled(p, q) /\ Settled(q, p) => SessionId(p, q) = SessionId(q, p)

\* ... whatever they do at the same time ...
BothEndsAgree == \A p, q \in Party : p # q => Agree(p, q)

\* ... and whatever fails, unless two initiations crossed, one was not
\* posted, or one end restarted without it or without its state file.
DisagreementHasCause == cause \cap Partings = {} => BothEndsAgree

\* A session is always with an identity whose safety number the user compared,
\* whichever end began it and whoever lost its state file meanwhile: a new
\* identity of a contact never slips into the place of the verified one.
SessionsWithVerified ==
    \A p, q \in Party :
        mem[p].sessions[q] # None => mem[p].sessions[q].with \in compared[<<p, q>>]

\* Between two calls the identity, the pools, the replay guards, the contacts
\* and which session belongs to whom are in the state file as they are in
\* memory, as long as no fault happened and neither the contacts nor the
\* sessions are too many to save; the pending acknowledgement may lag behind.
CallsEndSaved ==
    faults = 0 =>
        \A p \in Party : Free(p) /\ Persistable(mem[p]) =>
            disk[p] = [mem[p] EXCEPT !.pending = disk[p].pending]

\* A client died after a first contact was saved in the middle of a page, and
\* the state file did not have the acknowledgement of what came before it.
AckLost == {"midpage", "unacked"} \subseteq cause

\* ProcessInbox never meets an initial message that the client has accepted,
\* through lost answers, unsaved calls and restarts, unless it reached the
\* mailbox twice or its acknowledgement was lost to a save in the middle of a
\* page: whatever is in the state file as accepted is acknowledged there, or
\* gone from the mailbox.
RereadHasCause ==
    AckLost \/ "replayed" \in cause \/
        \A p \in Party :
            poll[p].pc = "handle" => ~HasAccepted(mem[p], Head(poll[p].page).env)

\* An initial message that reached the mailbox is accepted in the end, also by
\* a responder who meets the initiator in it and refuses it at first, unless a
\* message in front of it is refused for good: its pair is missing, or it was
\* accepted and its acknowledgement lost.  (It may also be gone with the state
\* file, or with a session that was acknowledged and not saved.)
EventuallyAccepted ==
    \A c \in Calls : \A n \in 1 .. MaxInits[c[1]] :
        (\E m \in posted[c[2]] : m.id = <<c[1], n>>) ~>
            (\/ missing # {} \/ AckLost \/ cause \cap {"session", "identity", "replayed"} # {}
             \/ \E i \in DOMAIN mem[c[2]].accepted : mem[c[2]].accepted[i].id = <<c[1], n>>)

\* Pools that changed are published in the end, whatever initial message
\* blocks the mailbox.
EventuallyPublished == \A p \in Responders : mem[p].dirty ~> ~mem[p].dirty
====
