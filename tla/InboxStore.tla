---- MODULE InboxStore ----
(***************************************************************************)
(* The mailbox of one user in the store: EnqueueEnvelope and DrainInbox of *)
(* src/src/server/in_memory_server.cpp and src/src/server/sqlite_store.cpp *)
(* as operators on a sequence of entries [id, env] in increasing id order. *)
(* Both backends hold one mutex for the whole call, so a call is one step. *)
(***************************************************************************)
EXTENDS Naturals, Sequences

CONSTANT PageMax  \* kMaxDrainInboxBatchItems

ASSUME PageMaxAssumption == PageMax \in Nat \ {0}

\* The ids of the entries in a mailbox.
InboxIds(box) == {box[i].id : i \in DOMAIN box}

\* EnqueueEnvelope: the entry takes the next id.
EnqueueEnvelope(box, id, env) == Append(box, [id |-> id, env |-> env])

\* The first half of DrainInbox: entries up to the acknowledged id go.  The ids
\* increase, so they are the front of the mailbox (pop_front in memory, one
\* DELETE in SQLite).  No acknowledgement is 0, which is below every id.
BoxFrom(box, kept) ==
    IF kept = {} THEN <<>>
    ELSE SubSeq(box, CHOOSE i \in kept : \A j \in kept : i <= j, Len(box))
DropBelowAck(box, ack) == BoxFrom(box, {i \in DOMAIN box : box[i].id >= ack})
DropAcked(box, ack) == BoxFrom(box, {i \in DOMAIN box : box[i].id > ack})

\* The second half: the page is a prefix of at most PageMax entries.  The
\* byte limit cuts it anywhere after its first entry, so any length from one
\* is possible, and an empty page means an empty mailbox.
PageLengths(box) ==
    IF box = <<>> THEN {0} ELSE {n \in 1..PageMax : n <= Len(box)}
PageOf(box, n) == SubSeq(box, 1, n)
====
