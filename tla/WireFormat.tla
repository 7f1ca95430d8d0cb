---- MODULE WireFormat ----
(***************************************************************************)
(* The byte format of requests, answers and stored envelopes               *)
(* (src/src/protocol/serialization.cpp), as operators.  A byte string is a *)
(* sequence of digits, numbers are big-endian, byte strings are prefixed   *)
(* with their length.  A message is a record of its fields; what is        *)
(* written and what is read are two lists of fields, as in the code.       *)
(***************************************************************************)
EXTENDS Naturals, SequencesExt

CONSTANTS Base,                    \* 256
          MaxSerializedInputBytes, MaxFieldBytes, MaxStringBytes,
          MaxOneTimePrekeys, MaxEnvelopeVectorItems

ASSUME WireFormatAssumption ==
    /\ Base \in Nat \ {0, 1}
    /\ {MaxSerializedInputBytes, MaxFieldBytes, MaxStringBytes, MaxOneTimePrekeys,
        MaxEnvelopeVectorItems} \subseteq Nat

Digits(value, width) == [i \in 1 .. width |-> (value \div Base ^ (width - i)) % Base]
Number(digits) == FoldLeft(LAMBDA value, digit : value * Base + digit, 0, digits)

\* U8, U32 and U64 by their width.
Width == [u8 |-> 1, u32 |-> 4, u64 |-> 8]

----------------------------------------------------------------------------
\* Writer.  An optional value is a sequence of length 0 or 1, an entry of a
\* list has an id and a byte string.

WriteBytes(value) == Digits(Len(value), 4) \o value
WriteNumber(type, value) == Digits(value, Width[type])
WriteEntry(type, entry) == WriteNumber(type, entry.id) \o WriteBytes(entry.bytes)
WriteList(type, entries) ==
    Digits(Len(entries), 4) \o FlattenSeq([i \in DOMAIN entries |-> WriteEntry(type, entries[i])])
WriteOptional(value, Write(_)) == IF value = <<>> THEN <<0>> ELSE <<1>> \o Write(value[1])

WriteField(type, value) ==
    CASE type \in DOMAIN Width        -> WriteNumber(type, value)
      [] type \in {"bytes", "string"} -> WriteBytes(value)
      [] type = "optional u32"        -> WriteOptional(value, LAMBDA v : WriteNumber("u32", v))
      [] type = "optional u64"        -> WriteOptional(value, LAMBDA v : WriteNumber("u64", v))
      [] type = "optional bytes"      -> WriteOptional(value, WriteBytes)
      [] type = "prekeys"             -> WriteList("u32", value)
      [] type = "items"               -> WriteList("u64", value)

Serialize(fields, message) ==
    FlattenSeq([i \in DOMAIN fields |-> WriteField(fields[i].type, message[fields[i].name])])

----------------------------------------------------------------------------
\* Reader.  Reading returns a value and the bytes after it, or fails; what is
\* read after a failure fails as well.

Failed == [ok |-> FALSE, value |-> <<>>, rest |-> <<>>]
Ok(value, rest) == [ok |-> TRUE, value |-> value, rest |-> rest]
AndThen(read, Continue(_, _)) == IF read.ok THEN Continue(read.value, read.rest) ELSE Failed

Take(bytes, n) ==
    IF n > Len(bytes) THEN Failed
    ELSE Ok(SubSeq(bytes, 1, n), SubSeq(bytes, n + 1, Len(bytes)))

ReadNumber(type, bytes) ==
    AndThen(Take(bytes, Width[type]), LAMBDA digits, rest : Ok(Number(digits), rest))

ReadBytesShort(limit, bytes) ==
    AndThen(ReadNumber("u32", bytes), LAMBDA length, rest :
        IF length < limit THEN Take(rest, length) ELSE Failed)
ReadBytes(limit, bytes) ==
    AndThen(ReadNumber("u32", bytes), LAMBDA length, rest :
        IF length <= limit THEN Take(rest, length) ELSE Failed)

ReadOptional(bytes, ReadValue(_)) ==
    AndThen(ReadNumber("u8", bytes), LAMBDA tag, rest :
        CASE tag = 0 -> Ok(<<>>, rest)
          [] tag = 1 -> AndThen(ReadValue(rest), LAMBDA value, after : Ok(<<value>>, after))
          [] OTHER   -> Failed)

ReadEntry(type, bytes) ==
    AndThen(ReadNumber(type, bytes), LAMBDA id, rest :
        AndThen(ReadBytes(MaxFieldBytes, rest), LAMBDA content, after :
            Ok([id |-> id, bytes |-> content], after)))

ReadList(type, limit, bytes) ==
    LET Step(read, i) ==
            AndThen(read, LAMBDA entries, rest :
                AndThen(ReadEntry(type, rest), LAMBDA entry, after :
                    Ok(Append(entries, entry), after)))
    IN  AndThen(ReadNumber("u32", bytes), LAMBDA count, first :
            IF count <= limit THEN FoldLeft(Step, Ok(<<>>, first), [i \in 1 .. count |-> i])
            ELSE Failed)

ReadField(type, bytes) ==
    CASE type \in DOMAIN Width   -> ReadNumber(type, bytes)
      [] type = "bytes"          -> ReadBytes(MaxFieldBytes, bytes)
      [] type = "string"         -> ReadBytes(MaxStringBytes, bytes)
      [] type = "optional u32"   -> ReadOptional(bytes, LAMBDA b : ReadNumber("u32", b))
      [] type = "optional u64"   -> ReadOptional(bytes, LAMBDA b : ReadNumber("u64", b))
      [] type = "optional bytes" -> ReadOptional(bytes, LAMBDA b : ReadBytes(MaxFieldBytes, b))
      [] type = "prekeys"        -> ReadList("u32", MaxOneTimePrekeys, bytes)
      [] type = "items"          -> ReadList("u64", MaxEnvelopeVectorItems, bytes)

\* A Deserialize function: ValidateInputSize, the fields, Finished.
FinishedAnyway(rest) == TRUE
Finished(rest) == rest = <<>>
Deserialize(fields, bytes) ==
    LET Step(read, field) ==
            AndThen(read, LAMBDA message, rest :
                AndThen(ReadField(field.type, rest), LAMBDA value, after :
                    Ok(message @@ (field.name :> value), after)))
    IN  IF Len(bytes) > MaxSerializedInputBytes THEN Failed
        ELSE AndThen(FoldLeft(Step, Ok(<<>>, bytes), fields), LAMBDA whole, end :
                 IF Finished(end) THEN Ok(whole, end) ELSE Failed)

----------------------------------------------------------------------------
\* The fields of each message, as they are written and as they are read.

Fields(type, names) == [i \in DOMAIN names |-> [name |-> names[i], type |-> type]]

WritePrekeySelection ==
    Fields("u32", <<"signed_prekey_ec_id", "signed_prekey_pq_id">>)
    \o Fields("optional u32", <<"one_time_ec_id", "one_time_pq_id">>)
WriteInitialMessage ==
    Fields("string", <<"session_id", "from_user", "to_user", "version", "cipher_suite">>)
    \o Fields("bytes", <<"initiator_identity_sign_public_key", "initiator_identity_mldsa_public_key",
                         "initiator_identity_dh_public_key", "initiator_ephemeral_ec_public_key">>)
    \o WritePrekeySelection
    \o Fields("bytes", <<"kem_ciphertext_signed_pq">>)
    \o Fields("optional bytes", <<"kem_ciphertext_one_time_pq">>)
    \o Fields("bytes", <<"transcript_hash", "handshake_signature_ed25519",
                         "handshake_signature_mldsa65", "initial_nonce", "initial_ciphertext">>)
ReadPrekeySelection ==
    Fields("u32", <<"signed_prekey_ec_id", "signed_prekey_pq_id">>)
    \o Fields("optional u32", <<"one_time_ec_id", "one_time_pq_id">>)
ReadInitialMessage ==
    Fields("string", <<"session_id", "from_user", "to_user", "version", "cipher_suite">>)
    \o Fields("bytes", <<"initiator_identity_sign_public_key", "initiator_identity_mldsa_public_key",
                         "initiator_identity_dh_public_key", "initiator_ephemeral_ec_public_key">>)
    \o ReadPrekeySelection
    \o Fields("bytes", <<"kem_ciphertext_signed_pq">>)
    \o Fields("optional bytes", <<"kem_ciphertext_one_time_pq">>)
    \o Fields("bytes", <<"transcript_hash", "handshake_signature_ed25519",
                         "handshake_signature_mldsa65", "initial_nonce", "initial_ciphertext">>)

WriteMessageHeader ==
    Fields("optional bytes", <<"sender_ratchet_public_key">>)
    \o Fields("u64", <<"previous_chain_length", "message_number">>)
    \o Fields("u32", <<"flags">>)
WriteChatMessage ==
    Fields("string", <<"session_id", "from_user", "to_user">>)
    \o WriteMessageHeader
    \o Fields("bytes", <<"nonce", "ciphertext">>)
ReadMessageHeaderSwapped ==
    Fields("optional bytes", <<"sender_ratchet_public_key">>)
    \o Fields("u64", <<"message_number", "previous_chain_length">>)
    \o Fields("u32", <<"flags">>)
ReadMessageHeader ==
    Fields("optional bytes", <<"sender_ratchet_public_key">>)
    \o Fields("u64", <<"previous_chain_length", "message_number">>)
    \o Fields("u32", <<"flags">>)
ReadChatMessage ==
    Fields("string", <<"session_id", "from_user", "to_user">>)
    \o ReadMessageHeader
    \o Fields("bytes", <<"nonce", "ciphertext">>)

\* A bundle; each signed prekey is an id, a key and two signatures.
WriteSignedPrekey(id, key, ed25519, mldsa65) ==
    Fields("u32", <<id>>) \o Fields("bytes", <<key, ed25519, mldsa65>>)
WritePrekeyBundle ==
    Fields("string", <<"user_id">>)
    \o Fields("bytes", <<"identity_sign_public_key", "identity_mldsa_public_key",
                         "identity_dh_public_key">>)
    \o WriteSignedPrekey("ec_id", "ec_key", "ec_ed25519", "ec_mldsa65")
    \o WriteSignedPrekey("pq_id", "pq_key", "pq_ed25519", "pq_mldsa65")
    \o Fields("prekeys", <<"one_time_ec", "one_time_pq">>)
    \o Fields("bytes", <<"bundle_signature_ed25519", "bundle_signature_mldsa65">>)
    \o Fields("string", <<"version", "cipher_suite">>)
ReadSignedPrekey(id, key, ed25519, mldsa65) ==
    Fields("u32", <<id>>) \o Fields("bytes", <<key, ed25519, mldsa65>>)
ReadPrekeyBundle ==
    Fields("string", <<"user_id">>)
    \o Fields("bytes", <<"identity_sign_public_key", "identity_mldsa_public_key",
                         "identity_dh_public_key">>)
    \o ReadSignedPrekey("ec_id", "ec_key", "ec_ed25519", "ec_mldsa65")
    \o ReadSignedPrekey("pq_id", "pq_key", "pq_ed25519", "pq_mldsa65")
    \o Fields("prekeys", <<"one_time_ec", "one_time_pq">>)
    \o Fields("bytes", <<"bundle_signature_ed25519", "bundle_signature_mldsa65">>)
    \o Fields("string", <<"version", "cipher_suite">>)

\* The requests and answers of the login.
WriteLogin ==
    [register      |-> Fields("string", <<"user_id">>) \o Fields("bytes", <<"transport_auth_public_key">>)
                       \o Fields("string", <<"registration_token">>)
                       \o Fields("bytes", <<"proof_signature_mldsa65">>)
                       \o Fields("optional bytes", <<"rotation_signature_mldsa65">>),
     auth_begin    |-> Fields("string", <<"user_id">>) \o Fields("bytes", <<"client_nonce">>),
     auth_begun    |-> Fields("string", <<"challenge_id">>) \o Fields("bytes", <<"server_nonce">>)
                       \o Fields("u64", <<"expires_at_unix">>),
     auth_finish   |-> Fields("string", <<"user_id", "challenge_id">>)
                       \o Fields("bytes", <<"client_nonce", "server_nonce">>)
                       \o Fields("u64", <<"expires_at_unix">>)
                       \o Fields("bytes", <<"signature_mldsa65">>),
     auth_finished |-> Fields("bytes", <<"session_token">>) \o Fields("u64", <<"expires_at_unix">>)]
ReadLogin ==
    [register      |-> Fields("string", <<"user_id">>) \o Fields("bytes", <<"transport_auth_public_key">>)
                       \o Fields("string", <<"registration_token">>)
                       \o Fields("bytes", <<"proof_signature_mldsa65">>)
                       \o Fields("optional bytes", <<"rotation_signature_mldsa65">>),
     auth_begin    |-> Fields("string", <<"user_id">>) \o Fields("bytes", <<"client_nonce">>),
     auth_begun    |-> Fields("string", <<"challenge_id">>) \o Fields("bytes", <<"server_nonce">>)
                       \o Fields("u64", <<"expires_at_unix">>),
     auth_finish   |-> Fields("string", <<"user_id", "challenge_id">>)
                       \o Fields("bytes", <<"client_nonce", "server_nonce">>)
                       \o Fields("u64", <<"expires_at_unix">>)
                       \o Fields("bytes", <<"signature_mldsa65">>),
     auth_finished |-> Fields("bytes", <<"session_token">>) \o Fields("u64", <<"expires_at_unix">>)]

\* The shell of every authenticated command, and all messages.
AuthenticatedPayload == Fields("bytes", <<"session_token", "payload">>)

Written ==
    [initial       |-> WriteInitialMessage,
     chat          |-> WriteChatMessage,
     bundle        |-> WritePrekeyBundle,
     text          |-> Fields("string", <<"text">>),
     enqueue       |-> Fields("string", <<"user_id">>) \o Fields("bytes", <<"envelope">>),
     drain         |-> Fields("string", <<"user_id">>) \o Fields("optional u64", <<"ack_up_to_inbox_id">>),
     inbox         |-> Fields("items", <<"envelopes">>),
     authenticated |-> AuthenticatedPayload] @@ WriteLogin
Read ==
    [initial       |-> ReadInitialMessage,
     chat          |-> ReadChatMessage,
     bundle        |-> ReadPrekeyBundle,
     text          |-> Fields("string", <<"text">>),
     enqueue       |-> Fields("string", <<"user_id">>) \o Fields("bytes", <<"envelope">>),
     drain         |-> Fields("string", <<"user_id">>) \o Fields("optional u64", <<"ack_up_to_inbox_id">>),
     inbox         |-> Fields("items", <<"envelopes">>),
     authenticated |-> AuthenticatedPayload] @@ ReadLogin

----------------------------------------------------------------------------
\* Envelopes, tagged with their type, and what holds them.
EnvelopeTag == [initial |-> 0, chat |-> 1]

SerializeEnvelope(envelope) ==
    <<EnvelopeTag[envelope.type]>> \o Serialize(Written[envelope.type], envelope.message)

DeserializeEnvelope(bytes) ==
    LET TypeOf(tag) == CHOOSE type \in DOMAIN EnvelopeTag : EnvelopeTag[type] = tag IN
    IF Len(bytes) > MaxSerializedInputBytes THEN Failed
    ELSE AndThen(ReadNumber("u8", bytes), LAMBDA tag, rest :
             IF tag \notin {0, 1} THEN Failed
             ELSE AndThen(Deserialize(Read[TypeOf(tag)], rest), LAMBDA message, end :
                      Ok([type |-> TypeOf(tag), message |-> message], end)))

SerializeEnqueueRequest(user, envelope) ==
    Serialize(Written["enqueue"], [user_id |-> user, envelope |-> SerializeEnvelope(envelope)])

DeserializeEnqueueRequest(bytes) ==
    AndThen(Deserialize(Read["enqueue"], bytes), LAMBDA request, rest :
        AndThen(DeserializeEnvelope(request.envelope), LAMBDA envelope, end :
            Ok([user_id |-> request.user_id, envelope |-> envelope], end)))

\* A page of the mailbox: entries of an id and an envelope.
SerializeInboxEnvelopeVector(page) ==
    Serialize(Written["inbox"],
              [envelopes |-> [i \in DOMAIN page |->
                  [id |-> page[i].id, bytes |-> SerializeEnvelope(page[i].envelope)]]])

DeserializeInboxEnvelopeVector(bytes) ==
    LET Step(read, item) ==
            AndThen(read, LAMBDA page, rest :
                AndThen(DeserializeEnvelope(item.bytes), LAMBDA envelope, after :
                    Ok(Append(page, [id |-> item.id, envelope |-> envelope]), after)))
    IN  AndThen(Deserialize(Read["inbox"], bytes), LAMBDA message, end :
            FoldLeft(Step, Ok(<<>>, end), message.envelopes))
====
