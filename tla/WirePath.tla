---- MODULE WirePath ----
(***************************************************************************)
(* The way of a message over a connection and through the mailbox: frames  *)
(* (src/src/server/tcp_wire.cpp), the commands that enqueue and drain      *)
(* (tcp_server.cpp, tcp_server_api.cpp), and the stored envelopes with     *)
(* the page limits of DrainInbox (sqlite_store.cpp).  Each layer has its   *)
(* own limit and drops what exceeds it in its own way: the server ignores  *)
(* a failed WriteFrame, and the client then waits for an answer that never *)
(* comes.                                                                  *)
(*                                                                         *)
(* Logins, acknowledgements and failures of the connection are in the      *)
(* other modules; here a call is made and answered.                        *)
(***************************************************************************)
EXTENDS WireFormat

CONSTANTS MaxFramePayloadBytes,
          MaxDrainInboxBatchItems, MaxDrainInboxBatchBytes,
          SessionToken, Recipient,   \* byte strings
          Kinds,                     \* the kinds of messages exchanged on their own
          MessagesOf(_),             \* the messages of a kind
          Envelopes,                 \* what is enqueued
          Noise,                     \* the digits a frame may be changed to
          MaxAccepted                \* bound on the envelopes accepted

ASSUME WirePathAssumption ==
    /\ {MaxFramePayloadBytes, MaxDrainInboxBatchItems, MaxDrainInboxBatchBytes,
        MaxAccepted} \subseteq Nat
    /\ Noise \subseteq 0 .. Base - 1

VARIABLES frame,     \* what is on the connection, if anything
          outcome,   \* the last frame read, and what it was read as
          box,       \* rows of inbox: id and envelope blob
          accepted,  \* the envelopes the server accepted, in order
          drained    \* the envelopes the recipient has decoded, in order

vars == <<frame, outcome, box, accepted, drained>>

NoFrame == [kind |-> "none"]

Init ==
    /\ frame = NoFrame
    /\ outcome = NoFrame
    /\ box = <<>>
    /\ accepted = <<>> /\ drained = <<>>

----------------------------------------------------------------------------
\* One frame, written and read.  A frame does not depend on the ones before it,
\* nor on the mailbox: a behaviour exchanges one of them, or uses the mailbox.
Unused == frame = NoFrame /\ outcome = NoFrame

FitsFrame(payload) == Len(payload) <= MaxFramePayloadBytes

WriteFrame(kind, message) ==
    LET payload == Serialize(Written[kind], message) IN
    /\ Unused /\ accepted = <<>>
    /\ FitsFrame(payload)
    /\ frame' = [kind |-> kind, message |-> message, payload |-> payload, damaged |-> FALSE]
    /\ UNCHANGED <<outcome, box, accepted, drained>>

\* The peer has written something else: one digit differs, or the payload is
\* shorter or longer.
Damaged(payload) ==
    {[payload EXCEPT ![i] = d] : i \in DOMAIN payload, d \in Noise}
    \cup {SubSeq(payload, 1, n) : n \in 0 .. Len(payload) - 1}
    \cup {Append(payload, d) : d \in Noise}

Damage ==
    /\ frame # NoFrame /\ ~frame.damaged
    /\ \E payload \in Damaged(frame.payload) \ {frame.payload} :
         frame' = [frame EXCEPT !.payload = payload, !.damaged = TRUE]
    /\ UNCHANGED <<outcome, box, accepted, drained>>

ReadFrame ==
    /\ frame # NoFrame
    /\ frame' = NoFrame
    /\ outcome' = IF FitsFrame(frame.payload)
                  THEN frame @@ ("read" :> Deserialize(Read[frame.kind], frame.payload))
                  ELSE NoFrame
    /\ UNCHANGED <<box, accepted, drained>>

----------------------------------------------------------------------------
\* The mailbox.

\* EnqueueEnvelope of the client: what the frame carries.
EnqueueFrame(envelope) ==
    Serialize(Written["authenticated"],
              [session_token |-> SessionToken,
               payload |-> SerializeEnqueueRequest(Recipient, envelope)])

\* The server decodes the shell, then the request; the store keeps the
\* envelope encoded once more.
EnqueueEnvelope(envelope) ==
    LET payload == EnqueueFrame(envelope)
        request == AndThen(Deserialize(Read["authenticated"], payload),
                           LAMBDA shell, end : DeserializeEnqueueRequest(shell.payload))
    IN
    /\ Unused
    /\ Len(accepted) < MaxAccepted
    /\ FitsFrame(payload) /\ request.ok
    /\ box' = Append(box, [id |-> Len(accepted) + 1,
                           blob |-> SerializeEnvelope(request.value.envelope)])
    /\ accepted' = Append(accepted, envelope)
    /\ UNCHANGED <<frame, outcome, drained>>

\* DrainInbox of the store: a row counts with its id and 8 bytes more, and the
\* first one always goes.
EstimatedSize(row) == Len(row.blob) + 8 + 8
TotalBytes(n) == FoldLeft(LAMBDA total, row : total + EstimatedSize(row), 0, SubSeq(box, 1, n))
WithinBatchLate(n) == n = 1 \/ TotalBytes(n - 1) <= MaxDrainInboxBatchBytes
WithinBatch(n) == n = 1 \/ TotalBytes(n) <= MaxDrainInboxBatchBytes
PageLength ==
    LET lengths == {n \in 1 .. Len(box) : n <= MaxDrainInboxBatchItems /\ WithinBatch(n)}
    IN  CHOOSE n \in lengths : \A m \in lengths : m <= n

\* The rows of the page, decoded to be encoded again, and the answer.
Decoded(row) == DeserializeEnvelope(row.blob)
PageDecodes == \A i \in 1 .. PageLength : Decoded(box[i]).ok
Page == [i \in 1 .. PageLength |-> [id |-> box[i].id, envelope |-> Decoded(box[i]).value]]
DrainFrame == SerializeInboxEnvelopeVector(Page)

\* The answer arrives, is decoded, and its envelopes are acknowledged.
DrainInbox ==
    LET read == DeserializeInboxEnvelopeVector(DrainFrame) IN
    /\ Unused
    /\ box # <<>>
    /\ PageDecodes
    /\ FitsFrame(DrainFrame) /\ read.ok
    /\ drained' = drained \o [i \in DOMAIN read.value |-> read.value[i].envelope]
    /\ box' = SubSeq(box, PageLength + 1, Len(box))
    /\ UNCHANGED <<frame, outcome, accepted>>

----------------------------------------------------------------------------
Next ==
    \/ \E kind \in Kinds : \E message \in MessagesOf(kind) : WriteFrame(kind, message)
    \/ Damage
    \/ ReadFrame
    \/ \E envelope \in Envelopes : EnqueueEnvelope(envelope)
    \/ DrainInbox

Spec == Init /\ [][Next]_vars

----------------------------------------------------------------------------
\* The values a reader takes, by the limits of the format.
Readable(type, value) ==
    CASE type = "string" -> Len(value) <= MaxStringBytes
      [] type = "bytes" -> Len(value) <= MaxFieldBytes
      [] type = "optional bytes" -> \A i \in DOMAIN value : Len(value[i]) <= MaxFieldBytes
      [] type = "prekeys" -> Len(value) <= MaxOneTimePrekeys
      [] OTHER -> TRUE

\* What one side writes the other reads field by field as the same values, in
\* every message, up to the limits of the format and no further: a writer checks
\* none of them, so a message beyond one is refused by its reader.
ReadBack ==
    outcome # NoFrame /\ ~outcome.damaged =>
        LET fields == Written[outcome.kind]
            readable == \A i \in DOMAIN fields :
                            Readable(fields[i].type, outcome.message[fields[i].name])
        IN  /\ outcome.read.ok <=> readable
            /\ readable => outcome.read.value = outcome.message

\* A payload is read as a message only if the message is written as exactly
\* that payload: nothing cut, nothing trailing, no second way to say the same,
\* so that what a server decodes and stores again is what was sent.
Canonical ==
    outcome # NoFrame /\ outcome.read.ok =>
        Serialize(Written[outcome.kind], outcome.read.value) = outcome.payload

\* Whatever the server has accepted into a mailbox, the next DrainInbox can
\* serve: the rows decode, the page is not empty, its answer fits in a frame
\* although every row grew by its id, and the client decodes it to the page.
\* Otherwise the mailbox is blocked for good, and the client waits for ever.
EveryPageServed ==
    box # <<>> => /\ PageDecodes
                  /\ FitsFrame(DrainFrame)
                  /\ DeserializeInboxEnvelopeVector(DrainFrame) = Ok(Page, <<>>)

\* The recipient decodes the envelopes that were enqueued, each one as it was
\* sent and in the order sent, through the three times they are encoded.
SameInOrder == drained = SubSeq(accepted, 1, Len(drained))
====
