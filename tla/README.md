# A TLA+ model of pqchat

pqchat is a two-party, store-and-forward chat with hybrid (X25519 + ML-KEM)
session set-up, per-message chain keys, a periodic DH ratchet, and a server that
keeps prekey bundles, mailboxes and transport sessions. This directory holds
TLA+ modules of its protocol logic, TLC configurations that check them on small
instances, and TLAPS proofs. Paths below are relative to the repository
(`src/`); `PROJECT.json` maps every definition to the lines it translates.

## 1. The system

| Component | State | Operations | Talks to |
|---|---|---|---|
| Client sessions (`src/client/client.cpp`) | `sessions_by_peer_`: root, two chain keys, two counters, ratchet keys | `SendMessage`, `HandleChatMessage` | the store, through `IServerApi`; the state file |
| Client inbox polling | `pending_inbox_ack_up_to_id_`, the locals of `ProcessInbox` | `ProcessInbox` | `DrainInbox`; the two handlers; `PublishPrekeys` |
| Session establishment | one-time pools, `prekeys_dirty_`, replay guards, `trusted_peer_identities_` | `Create`, `PublishPrekeys`, `InitiateSession`, `HandleInitialMessage`, `RefillOneTimePrekeyPools`, `VerifyPeerSafetyNumber` | prekey store and mailbox |
| Client state file | one encrypted file per user | `SaveLocalState`, `LoadLocalState` | every operation above |
| Mailbox, prekey store (`src/server/sqlite_store.cpp`, `in_memory_server.cpp`) | `inbox`, `bundles`, `one_time_ec`, `one_time_pq` | `EnqueueEnvelope`, `DrainInbox`, `PublishBundle`, `AcquireBundleForSession` | called by the front end or in process |
| Transport authentication (same files) | `accounts`, `auth_challenges`, `sessions`, HMAC secret, attempt buckets | `RegisterTransportIdentity`, `BeginTransportAuthentication`, `FinishTransportAuthentication`, `AuthenticateSessionToken`, `RevokeSessionToken`, `CleanupAuthState` | system clock |
| TCP front end (`src/server/tcp_server.cpp`) | `active_connections_`, pre-login attempt buckets | `Run`, `HandleConnection`, `EnforcePreAuth*RateLimit` | the store; one detached thread per connection |
| Network client adapter (`src/client/tcp_server_api.cpp`) | cached session token, connection | the login sequence, framed calls | the front end |
| Wire format (`src/protocol/serialization.cpp`, `src/server/tcp_wire.cpp`) | none | `Serialize*`, `Deserialize*`, `WriteFrame`, `ReadFrame` | between adapter, front end and mailbox rows |
| Signature inputs, crypto wrappers, TLS pinning, programs | none worth a model | | |

What is hard in it, and which properties speak about it:

* A client is one thread, but its calls of the server can fail before or after
  the server has executed them, its state file may not be written, and the
  process may die anywhere. Memory, state file and mailbox move at different
  times (`SendMessage` posts before it saves; `ProcessInbox` saves once, after
  every pass). Right means: what was handled is not handled again, what was
  deleted was handled, the two ends keep deriving the same keys, and no message
  key is used twice.
* Both ends work at once: ratchet steps cross, initiations cross, pages end while
  new envelopes arrive.
* One-time pairs live in three places (the pool, the state file, the bundle in
  the store) and each is updated at another time.
* The store's calls are serialised by a mutex, but login takes two of them and a
  command of a connection takes two (authenticate, then act): keys are rotated,
  tokens are revoked and the server restarts in between.
* The front end checks and increments its connection counter in two steps and
  reads the clock before it takes the lock of the rate limits.

* The adapter caches a token that the server may have dropped, gives connections up
  while their requests still run, and never retries. Each layer of the wire has its
  own size limit and drops what exceeds it in its own way.
* There are two stores behind one interface: the tests run on one, the server on the
  other.

`PROJECT.json` lists 40 such hazards, each at its line, with the properties that
cover it; three have none and say why: timeouts below TLS, a pair that a refused
initiator uses up, and attempts that are counted although another limit refused them.

## 2. Modules

| Module | Models | State and actions |
|---|---|---|
| `KeySchedule` | key derivation as a free term algebra: a key is the path that derives it | operators only |
| `ClientSession` | what `SendMessage` and `HandleChatMessage` do to one `SessionState` | operators on the session record |
| `InboxStore` | a mailbox: `EnqueueEnvelope`, `DrainInbox` | operators on a sequence of entries |
| `InboxPoll` | the loop of `ProcessInbox` | operators on the record of a call in progress |
| `Messaging` | composes the four: two clients in an established session | `mem`/`disk` (session and pending acknowledgement in memory and in the state file), `inbox`, `poll`; one action per outcome of `SendMessage`, and one per server call, handled envelope, save and return of `ProcessInbox` |
| `Channel` | abstract specification: every message is shown at most once and in order | `posted`, `seen` |
| `Handshake` | composes `InboxStore` and `InboxPoll` with prekeys, `InitiateSession`, `HandleInitialMessage`, first contact, change of identity, loss of the state file | `mem`/`disk` (identity, pool, dirty flag, guards, peers, sessions, pending), `bundle`, `inbox`, `task` (a call in progress) |
| `SlidingWindow` | the rate limiter of the stores and of the front end | operators on a bucket |
| `TransportAuth` | accounts, challenges, session tokens of `SqliteStore` | one action per call of the store, `Restart`, `Tick` |
| `InMemoryAuth` | the same calls in `InMemoryServer`, over the tables of `TransportAuth` | one action per call whose effect differs (`Mem...`) |
| `AuthService` | abstract specification of transport authentication: accounts, logins, live tokens | `ChangeKey`, `Grant`, `End` |
| `AuthStores` | either store, chosen at the start, and its refinement mapping to `AuthService` | `backend`; `live` is the set of accepted tokens |
| `ClientLogin` | composes `TcpServerApi` with `TransportAuth` | `cache`, `call`, `conn`, the frames on the connection, `abandoned` requests; one action per half of `Request` and outcome, per request the server executes, and per thing that breaks |
| `WireFormat` | the byte format, as operators: one list of fields per message for the writer and one for the reader | operators only |
| `WirePath` | frames, and an envelope's way through enqueue, mailbox row, page and drain answer | `frame`, `outcome`; `box`, `accepted`, `drained` |
| `TcpServer` | accept loop, connection threads, pre-login limits, authenticate-then-act | `active`, one program counter per thread, the three kinds of buckets |
| `MC*` | instances for TLC | |
| `SlidingWindowProofs`, `InboxProofs` | lemmas about the operators of `SlidingWindow`, and of `InboxStore` and `InboxPoll` | |
| `TransportAuthProofs`, `AuthStoresProofs`, `TcpServerProofs`, `ClientLoginProofs`, `MessagingProofs`, `HandshakeProofs` | theorems about the module of that name | |

Abstractions that matter when reading them:

* **Keys.** A root key is the sequence of DH secrets mixed into it, a chain key is
  its label, root path and the counters it was stepped with, a ciphertext is the
  message key it was sealed under. Two parties have the same key exactly if they
  derived it the same way. Honest signatures verify. `previous_chain_length` is
  left out: it is written and authenticated but nothing branches on it.
* **One thread per client.** What a client does between two calls of the server is
  invisible to others, so it is one step. A crash can fall between any two steps,
  and the one window inside `SendMessage` and `InitiateSession` (posted, not
  saved) is an action of its own.
* **State file.** `SaveLocalState` writes the whole client. It may fail with the old
  file in place, or, when only the directory sync fails after the rename, with the new
  one. With more contacts or more sessions than their limits (`Persistable`) it fails
  every time; a stranger's first contact counts as a contact. A file that `ReadAllFile`
  cannot open counts as missing: `LoseStateFile` makes a new client with a new identity
  over it. A restart loads, refills and saves.
* **Identities.** Identity n is the n-th set of identity keys of a user. Bundles and
  initial messages carry the identity they were made with; the transcript binds both.
  The user compares the number that the peer's present client shows.
* **Failed calls.** In `Messaging` and `Handshake` a call that fails was executed by the
  server before the client goes on, or is never executed. Only `ClientLogin` lets a
  request that was given up be executed at any later time. So a `PublishBundle` that
  overtakes a newer one, or an `EnqueueEnvelope` that arrives after the client's next
  call, is outside the two.
* **Pages.** `DrainInbox` returns at most `PageMax` entries, or fewer where the byte
  limit cuts the page: any non-empty prefix.
* **One-time pairs.** The EC and the PQ pools are refilled, handed out and consumed
  together, so a pair is one value.
* **Messaging starts after the handshake**; how the session came about is
  `Handshake`. `Messaging` has one session per client and no dirty pools; in
  `Handshake` a session is its id and the identity at the other end, without keys, and
  the mailboxes hold initial messages only. No module has both kinds of envelopes in one
  mailbox.
* **Store.** Each method of `SqliteStore` holds the mutex throughout, so it is one
  step. Challenge ids, tokens and HMAC secrets never repeat; the clock does not step
  back; the audit log is left out.
* **Threads of the front end.** They interleave between the atomic counter, the mutex
  and the calls of the store. A clock reading is at most `MaxSkew` seconds old when
  the lock is taken. Of the store only the set of accepted tokens is kept.
* **Adapter.** The client's clock differs from the server's by a fixed `Skew`. What a
  client sent on a connection it closes is lost or is executed at any later time. The
  four commands are one, since the adapter treats them alike. The front end's limits
  are left out: like the store's they refuse a login. After `Calm` nothing breaks
  any more and a request is executed before the clock moves.
* **Bytes.** `Base` stands for 256 and the limits are scaled down, keeping their order:
  in the code a field and a frame may have 1 MiB, a page 512 KiB plus one envelope of
  any size. Command and status codes are not modelled, the type of a frame is its kind.
* **History variables** (`result`, `ended`; `outcome`, `accepted`, `drained`; `compared`; `handled`, `saved`, `rejected`, `returned`, `sealed`, `cause`;
  `posted`, `handed`, `missing`, `accepted`; `logins`, `issued`; `passed`, `served`,
  `late`) record what happened; they guard nothing, except that `issued` and
  `logins` stand for the uniqueness of random identifiers, and that `Replay` of
  `Handshake` repeats a message of `posted`.

## 3. Runs

Passing runs:

| Run | What it checks | Bounds | Distinct states |
|---|---|---|---|
| `messaging` | `TypeOK`, `RejectionHasCause`, `MirrorWhenQuiet`, `KeyReuseNeedsStaleRestart`, `NoneHandledTwice`, `OpenedOnce`, `AckedWasHandled` | Alice sends 3, Bob 2, ratchet interval 2, pages of 2, 2 passes, any 2 faults of crash, net, save, replay | 1.27 M |
| `messaging_delivery` | `DeliversInOrderOnce`: refinement of `Channel` | both send 3, 2 faults of crash, net | 1.65 M |
| `messaging_live` | `EventuallyReturned` | both send 2, 1 fault of net, save | 16 k |
| `handshake` | `TypeOK`, `ConsumedOnce`, `StoredPairsAnswerable`, `MissingHasCause`, `DisagreementHasCause`, `SessionsWithVerified`, `CallsEndSaved`, `RereadHasCause` | Alice (twice) and Carol, a stranger, initiate towards Bob; pool of 1, 1 replay guard, 1 contact and 1 session can be saved; 2 faults of crash, net, save, replay, lost file | 738 k |
| `handshake_meet` | `RereadHasCause`, `CallsEndSaved`, `EventuallyAccepted`, `EventuallyPublished` | Alice (twice) and Carol, a stranger, initiate towards Bob; pool of 2, pages of 2, 2 contacts and 2 sessions can be saved; 1 fault of crash, net, save | 81 k |
| `transport_auth` | `TypeOK`, `AcceptedUnderCurrentKey`, `OneLoginPerChallenge`, `RefusedForGood`, `ImplementsService`: refinement of `AuthService` | either store; 2 users, 2 keys, 2 challenges, 2 tokens, time to 3, 1 restart | 496 k |
| `tcp_server` | `TypeOK`, `CapHolds`, `WindowLimits`, `LateAtMostOnce` | 3 threads, cap 2, 2 addresses, window 2, clock readings 1 second old, time to 2, 3 requests | 747 k |
| `client_login` | `LoginTypeOK`, `AnswersMatch`, `RefusalHasCause`, `Recovers` | 1 client and a second device; session life 2, margin 1, time to 6, quiet after 2; 2 faults, 1 server restart | 637 k |
| `wire_path` | `ReadBack`, `Canonical`, `EveryPageServed`, `SameInOrder` | 13 kinds of messages, each field in turn at its boundary values, one damage; 4 envelopes of 5 sizes that a frame carries, pages of 2 | 89 k |

Why the bounds are enough: with interval 2 the initiator ratchets on its second
message and both ends can ratchet, one after the other and crossing; two passes of
two entries let a mailbox outlast the passes of a poll; a pool and a guard list of
one are at their limit at once, so eviction, an empty store and republication of a
handed-out pair all happen within three initiations. There Bob knows Alice, so Carol's
first contact is one too many to save. In `handshake_meet` the pool of two lets two
messages with different pairs be in one page, so that Bob accepts Alice's and meets Carol
behind it, and one crash falls before or after the acknowledgement is saved. Two faults
let one fault hit the recovery from another. The session life of 2 and challenge life of 1 let both
boundaries (valid at the expiry second, gone one later) fall inside the clock's range.
In `client_login` a token outlives the quiet time's start, so
that a refused one has to be waited out, and a second device, a restart or a logout can
come at any point of a login. In `wire_path` a digit is base 8, so that a length needs a
second digit, and the envelopes are chosen so that one exceeds the page alone, two fit
exactly, and one is the largest that an enqueue request can carry.
The window of 2 with a clock to 2 lets an attempt leave the window in the very second
it may, and a stale reading miss that.

What they show:

* A chat message is refused only after crossed ratchet steps, an `EnqueueEnvelope`
  that failed after the counter had moved, a restart from a state file that others
  had overtaken, or as a duplicate. Failed or unanswered drains and failed saves on
  their own are harmless, and as long as none of the four causes occurred both ends
  are mirror images whenever the mailboxes are handled.
* An envelope is deleted only after it was handled. Between two clients in an
  established session no poll meets an envelope its session is past, because session and
  pending acknowledgement are saved together. `OutOfPasses` is the one place where
  an acknowledgement outlives the call without having been sent; it is not lost.
* One save breaks this. `VerifyOrRememberPeerIdentity` saves a stranger's first contact
  in the middle of a page (`client.cpp:1882`), with the sessions of the messages accepted
  before it in that page and without their acknowledgement, which `DrainInbox` has reset
  (line 1079) and only the end of the page sets (lines 1111–1114). If the process dies
  before the next save, the restarted client refuses the accepted message as a replay; it
  is at the head of the mailbox, so nothing behind it is ever handled. The causes
  `"midpage"` and `"unacked"` together (`AckLost`) name exactly this, and
  `RereadHasCause` says that it is the only way, besides a message that reached the
  mailbox twice, to meet an accepted initial message again. `EventuallyAccepted` excepts
  it; without the exception the run ends in this history.
* Key reuse needs a restart from a stale file. The cause `"stale"` covers a file that
  is older than the last encryption, which is the case that matters here, and one that is
  at odds with what the store has deleted.
* A one-time pair serves one session, even after its replay guard was evicted: the
  consumed pair is the second line of defence. Pairs the store hands out are
  answerable unless the client died with unsaved pools, although a republication
  may put a handed-out pair back.
* A session is always with an identity whose number the user compared, also after a
  contact or the user lost a state file; ends disagree only after crossed or unposted
  initiations, a restart without the session, or a lost file.
* Without faults every call leaves what session establishment keeps (identity, pools,
  guards, contacts, which session belongs to whom) in the state file, as long as neither
  contacts nor sessions are too many to save. This is not so for the chain and root keys
  of a conversation, which are `Messaging`'s: a poll whose first chat message is refused
  after its ratchet key was mixed in (`client.cpp:1833`) returns without saving (lines
  1134–1136), so memory and file differ without any fault. `Messaging` has that behaviour;
  `RejectionHasCause` and `OpenedOnce` are checked and proved with it.
* Tokens follow the account's key, challenges are single-use, refusal is final, and the
  two stores are the same service to their callers.
* The adapter never takes an answer for another request's, because it closes the
  connection after every failure. A cached token is refused only if a restart, a change
  of key or a logout ended it, or the request was under way for longer than the margin
  less the skew. A refused token stays in the cache and blocks every call until its
  expiry, not longer; a connection the server has closed costs one call.
* What is written is read as the same values up to the reader's limits, a payload is
  accepted only in the form a writer gives it, and every page of a mailbox fits in a
  frame: the mailbox cannot be blocked by what the server itself has accepted.
* The connection cap holds, because only the accept loop adds. Stale clock readings
  shorten the window of the rate limits by at most their age. A revoked token is used
  at most once more per connection.

Runs that end in a counterexample, each a statement of a document or test of the
repository that the code does not keep (quoted in `PROJECT.json`, `findings`):

| Run | Statement | What happens |
|---|---|---|
| `messaging_key_reuse` | `docs/first_draft_design.md:121`, one key per sent message | crash between `EnqueueEnvelope` and `SaveLocalState`, restart, send: same key, same nonce, other plaintext |
| `messaging_ratchet` | `docs/first_draft_design.md:269`, "periodic ratchet step still interoperates" | without any fault, both ends ratchet before seeing the other's step; the shared root diverges and the next message is refused |
| `handshake_crossing` | `docs/first_draft_design.md:265`, "both sides derive identical root/send/recv keys" | simultaneous initiations leave each end in the other's session |

Three more differences have no run, because no property of the models is about them:
`README.md:142–143` says that the client's identity, sessions and pins are in memory
only, `SaveLocalState` persists all of them;
`docs/transport_api.md:37` asks clients to drain until an empty page, `ProcessInbox`
stops after `kMaxInboxDrainPasses`; `docs/transport_api.md:71` says that
`AcquireBundle` returns the stored one-time lists, the stores hand out and delete one
pair.

### Fairness

`Messaging!FairSpec`: weak fairness of `PollStep` per client. The user keeps giving
the `poll` command of the prompt (`client_cli_main.cpp:272`), the only thing that calls
`ProcessInbox`, and a call that runs gets on. Sends and faults are never assumed. `Handshake!FairSpec`: weak fairness
of the steps of a call in progress of every client; for the `Responders` also strong
fairness of `ProcessInbox` and of comparing the number of some peer
(`VerifyPeerSafetyNumber`), which are enabled only between calls, so that weak fairness
would be met by a user who always happens to be in another call. That is: a responder
polls again and again, and eventually compares the numbers of the peers it met. Nothing
is assumed of when or whether sessions are begun. `ClientLogin!FairLoginSpec`: weak fairness of
`StartCall("command")` (the user keeps giving commands), of the steps of a call in
progress and of the server's threads; strong fairness of `Wait`, because the clock never
stops: after `Calm` it moves only between two calls, so weak fairness would let calls that
follow each other closely hold it still for ever. Faults, hang-ups and logouts are never
assumed. All properties
under fairness have bounded faults; with calls that fail forever nothing is delivered.

Deadlock is checked everywhere except in `wire_path`, where a behaviour is one exchange
or one mailbox and ends.

## 4. Proofs

Every theorem holds for every value of the constants that satisfies the assumptions
named in the modules: any set of users, keys, tokens, threads and addresses, any limit,
lifetime, window, interval, page size and bound on faults. 23 of the 27 invariants that the
runs check are proved, and so are the action properties `AckedWasHandled`,
`RefusedForGood` and `RefusalHasCause` and the two refinements.

### Transport authentication

| Theorem | States |
|---|---|
| `TransportAuthProofs`: `TypeCorrect`, `AuthInvHolds`, `SessionsFollowTheKey`, `ChallengesAreSingleUse`, `RefusalIsFinal` | `TypeOK`, `AuthInv`, `AcceptedUnderCurrentKey`, `OneLoginPerChallenge`, `RefusedForGood` of the SQLite store |
| `AuthStoresProofs`: `StoreTypeCorrect`, `StoreInvHolds`, `StoreSessionsFollowTheKey`, `StoreChallengesAreSingleUse`, `StoreRefusalIsFinal` | the same of either store |
| `AuthStoresProofs`: `StoresImplementService` | both stores implement `AuthService` |

None of the three properties is inductive. `AuthInv` adds `SessionsFromLogins` (a token
names one login and one row; a row comes from a login of its user whose key is the
account's while the row is not revoked; no row has a future secret) and
`ChallengesUnspent` (an id names one row, and a row not marked used has earned nothing).
The steps fall into a few shapes, each a lemma: rows are deleted (`SessionsDeleted`,
`ChallengesDeleted`, `CleanupStep`), rows are revoked (`SessionsRevoked`), a challenge is
marked (`ChallengesMarked`), and `AuthFinish` adds one row and one login.
`AcceptedUnderCurrentKey` follows from the row's login; `RefusedForGood` from `RowsAge`:
a step never revives a row, moves its expiry, or gives it another secret. The in-memory
store erases where the other one marks, so its steps are of the same shapes, and each
step of either maps to `ChangeKey`, `Grant`, `End` or a stutter of the service.

### TCP front end and rate limits

| Theorem | States |
|---|---|
| `TcpTypeCorrect` | `TypeOK` with the limits of the buckets |
| `TcpInvHolds` | `TcpInv`, the inductive invariant |
| `CapAlwaysHolds` | `CapHolds` |
| `LimitsAlwaysHold` | `WindowLimits` |
| `LateActsAreBounded` | `LateAtMostOnce` |

`CapInv` counts the threads and keeps a slot free between the check of the cap and the
increment: sound because only the accept loop adds. `LateInv` says that a connection
which acted late did so on a token that is dead and cannot pass
`AuthenticateSessionToken` again. `WindowLimits` is about a history and the buckets only
keep times, so `CoverInv` gives each request of the last `Window - MaxSkew` seconds an
entry of its own, no older than the request, in its bucket; a bucket has no more
entries than its limit. `SlidingWindowProofs` holds what trimming and recording do to a
bucket whose times need not be sorted, which is what stale readings cause.

### Network client adapter

| Theorem | States |
|---|---|
| `LoginTypeCorrect` | `LoginTypeOK` |
| `LoginInvHolds` | `LoginInv = AuthInv /\ LoginTypeOK /\ CallInv /\ TokenInv` |
| `AnswersAlwaysMatch` | `AnswersMatch` |
| `RefusalsHaveACause` | `RefusalHasCause` |

`CallInv`: at most one frame is on the connection, and it is the request of the step the
call is at or the answer to it. `TokenInv`: what the cache holds, or an answer on its way
brings, is a row of the store with the expiry the store gave it, and a command is sent
only with a token that outlives the call's start by the margin. For the proof the server
of `ClientLogin` draws ids only while some are left: `Challenge` and `Token` bound what
it can draw, and no run reaches the bound.

### Conversations

| Theorem | States |
|---|---|
| `MailInvHolds`, `TypeCorrect` | `MailInv`, `TypeOK` |
| `NeverHandledTwice`, `OnlyHandledDeleted` | `NoneHandledTwice`, `AckedWasHandled` |
| `OpenedAtMostOnce` | `OpenedOnce` |
| `KeyReuseNeedsRestart` | `KeyReuseNeedsStaleRestart` |
| `DeliveryRefines` | `Messaging` implements `Channel` (`DeliversInOrderOnce`) where saves do not fail (`"save" \notin FaultKinds`, as in the run) |
| `SyncInvHolds`, `RejectionsHaveACause`, `MirrorsWhenQuiet` | `SyncInv`, `RejectionHasCause`, `MirrorWhenQuiet` |

`MailInv` relates mailbox, call in progress, pending acknowledgement and what was
handled, for the client in memory and for the file it may restart from (`InboxProofs`
has the facts about one mailbox and one call). `OpenInv` adds that every opened envelope
was sealed under a chain key the receiving chain has left behind. `KeyInv` adds that
sessions are made of ratchet keys that were generated, so a fresh one gives a new root,
and that a sending chain is past all its sealed keys unless a client restarted from a
stale file. `DeliveryInv` orders what was shown, what a call will show and what is
saved. `SyncInv` is the strongest: as long as none of the four causes occurred, the two
ends differ by exactly the envelopes under way. Stepping the receiver over what waits in
its mailbox gives the sender's chain, root and counter, and this for every combination of
memory or state file the two may still go on from, because a restart may choose the file.

### Session establishment

| Theorem | States |
|---|---|
| `PairsHold`, `TypeCorrect` | `TypeInv /\ PairInv`; `TypeOK` |
| `PairsServeOnce` | `ConsumedOnce` |
| `OnlyVerifiedPeers` | `SessionsWithVerified` |
| `StateFileIsCurrent` | `CallsEndSaved` |
| `OffersHold`, `BundlesAreAnswerable` | `OfferInv`, `StoredPairsAnswerable` |
| `MissingIsExplained` | `MissingHasCause` |
| `DeletesOnlyAccepted` | `ReadInv` |
| `EndsAgree` | `DisagreementHasCause` |
| `RereadsHaveACause` | `RereadHasCause` |

`PairInv`: in memory and in the file, the pairs of the pool and those that served a
session are different ones, all made by that client; erasing one place of the pool
removes the pair because no pair is there twice. `TrustInv` adds the contacts to the
sessions: who is marked verified was compared. `SavedInv` extends `CallsEndSaved` into
the calls, up to the first plaintext a call has to return, for clients whose contacts
and sessions can be saved. `OfferInv` relates bundle,
pool and file at every point of publish, acquire, accept, refill and restart; a dirty
pool is the only one that may differ, and a pool is short only within a call that has
accepted something. `MissingHasCause` needs the whole way of a pair: `HoldInv` says that
two handshakes have one pair only if it was handed out twice (`HeldInv`), that nothing
under way is for an identity its receiver is yet to have (`IdentityInv`), that what is
under way for the present identity is in the receiver's pool or was accepted
(`AnswerInv`), and that a replay guard belongs to a handshake begun or accepted
(`GuardInv`). So a missing pair was accepted from another handshake, and two of them had
it.

`DisagreementHasCause` takes three invariants more. `ReadInv` is about the mailbox: every
acknowledgement a client has pending, in memory or in its file, or will have after the
page in hand, covers only messages it has accepted. So `DrainInbox` deletes nothing
unread (`MailKept`), and a message in hand comes behind accepted ones only. `FileInv`
compares memory and file: a file with the same sessions has accepted the same messages,
because each session is of a handshake the client began, or of a message it accepted, and
neither happens twice. So a restart that changes no session forgets no message, and
without a cause the two ends change by `InitiateSession` and `HandleInitialMessage` alone
(`Talking`). `TalkInv` then says of two clients, as long as there is no cause: what one
has not accepted of the other lies in its mailbox in front of everything newer (`Queued`),
so it accepts in the order sent (`InOrder`); messages are on their way in one direction
only (`OneWay`), because an initiation against the direction is the cause `"crossed"`; and
while some are on their way, the sender's session is that of the last one (`Newest`).
When the last one is accepted, the two ends meet in its session. Replays, refusals and
lost answers do not disturb this: they put a copy behind the original, or leave the
message where it is. TLC checked the three invariants before the proof: on the instance
of `handshake`, and for two users who initiate towards each other under every kind of
fault, with pools of 1 and of 2.

`RereadHasCause` is the converse of `ReadInv`: what a client has accepted and the mailbox
still holds is acknowledged. `AckInv` says, of a mailbox that holds nothing twice
(`Single`), that the accepted messages in it have numbers up to the place the call has
reached in its page, or up to the pending acknowledgement outside of one (`Within`,
`Reached`); it says the same of the state file and its acknowledgement as long as nothing
was saved in the middle of a page, and of the client in memory as long as no restart
found an accepted message without one. A page begins behind everything acknowledged, so
its first message is new (`AckServed`); a message just begun is nowhere accepted
(`BegunIsUnread`, from `PostInv` and `GuardInv`); a refused first contact saves either
with nothing of the page accepted, or with the cause (`MidPageSave`). `BusyInv` keeps the
other calls out of the pages. TLC checked `AckInv` and `BusyInv` on both instances first.

Two definitions are written with these proofs in mind. `Lost` names the accepted messages
beside the pools. A client whose file lacks an accepted message has another pool than its
file (TLC finds no exception in the `handshake` run), so this changes no behaviour, and
it spares the proof an invariant about it. `Erase` removes one place of the pool, as
`erase` does in the code; `PairInv` makes that the same as removing the pair.

### Assumptions

All are `ASSUME`s of the modules and are evaluated by TLC in the runs: bounds are
naturals, limits that the code has as positive constants are positive, and values that
stand for absence (`NoAccount`, `NoToken`, `NoKey`, `None`) are not what they stand for
the absence of (`None` is no contact, no pair and no session). Two say more. `MaxSkew < Window`: a clock reading is younger than the
minute-long window when the lock is taken. `Margin + Skew < SessionTtl`: the clocks do not
differ by a session's life. Built into the actions are that random identifiers do not
repeat and that the server's clock does not step back.

### Only model-checked

* The wire format (`ReadBack`, `Canonical`, `EveryPageServed`, `SameInOrder`): what the
  folds of `WireFormat` compute for every input needs induction over data, which the
  installed provers do not do.
* Everything under fairness: `EventuallyReturned`, `EventuallyAccepted`,
  `EventuallyPublished`, `Recovers`. TLAPS 1.4.5 does not reason about fairness or
  ENABLED.

## 5. Not modelled

* Signature and transcript inputs (`protocol/messages.cpp`, `prekey_bundle.cpp`,
  `transport_auth.cpp`): concatenations of fields. The models take signatures of honest
  clients to verify, and a transcript to name all its fields.
* The OpenSSL wrappers, beyond the term algebra of `KeySchedule`; TLS set-up and
  pinning, partial reads and writes, socket timeouts under TLS.
* `SerializeEnvelopeVector` and `DeserializeEnvelopeVector`, which nothing calls; the
  layout and the encryption of the state file.
* Argument parsing and prompts of the programs. What a user may call, in any order, is
  the next-state relation of the client models.
* A clock that steps back. Counters are unbounded naturals: a 64-bit counter
  per message does not wrap in the life of a session.

## 6. What is left

Every invariant of the runs is proved except the four about the wire format, which need
induction over byte strings, and every action property and refinement is proved too.
With a prover that does induction over data, the first thing to prove would be that
`Deserialize` inverts `Serialize`, from which `ReadBack`, `Canonical` and `SameInOrder`
follow; `EveryPageServed` needs in addition that a page within `WithinBatch` grows by its
ids to no more than a frame.
