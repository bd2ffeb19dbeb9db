----------------------------- MODULE PayloadCodec -----------------------------
(***************************************************************************)
(* The encrypting payload codec and the chain a data converter keeps it    *)
(* in.  One batch of payloads is encoded by the codecs in order and        *)
(* decoded by them in reverse order; the payloads of a batch are sealed    *)
(* and opened concurrently, and the keys rotate meanwhile.                 *)
(***************************************************************************)
EXTENDS Naturals, Sequences

CONSTANTS
  Values,     \* what is written
  MaxBatch,   \* bound: the payloads of a batch
  Keys,       \* the data keys the providers hand out
  MaxCodecs   \* bound: the encrypting codecs of a chain

\* A part of a payload that is not there, or a payload that does not open.
Missing == <<>>

ASSUME PayloadCodecAssumption == Missing \notin Keys /\ MaxCodecs \in Nat /\ MaxBatch \in Nat

VARIABLES
  codecs,   \* the codecs of the chain: what identifies a provider's keys
  current,  \* the data key the providers hand out now
  task,     \* "idle", "key", "encoding", "decoding", "decoded", "rejected", or "keyless":
            \* rejected because a provider failed
  at,       \* the codec of the chain that works
  key,      \* its data key
  batch,    \* the payloads it was given
  out,      \* what became of them so far: partial, by position
  original, \* the values that were written
  foreign   \* whether another writer's payloads are among them

codecVars == <<codecs, current, task, at, key, batch, out, original, foreign>>

-----------------------------------------------------------------------------
\* A sealed payload: metadata with the encrypted encoding and what the
\* provider keeps to find its key again, and the data. Encryption is
\* authenticated: only the key that sealed something opens it.
Sealed(p, k, metadata) == [sealed |-> k, encoding |-> k, metadata |-> metadata, data |-> p]
Plain(v) == [sealed |-> Missing, encoding |-> Missing, metadata |-> Missing, data |-> v]
isEncryptedPayload(p) == p.sealed # Missing

\* Payloads the codec never wrote: without data, and without the metadata that
\* holds the encrypted encoding.
Unreadable == UNION {{[Sealed(Plain(v), k, k) EXCEPT !.data = Missing],
                      [Sealed(Plain(v), k, k) EXCEPT !.encoding = Missing]} : v \in Values, k \in Keys}

\* Payloads are opened with the key that seals them now.
decryptDataKeyBug(metadata) == current

\* decryptDataKey: by the metadata, or the current key if there is none.
decryptDataKey(metadata) == IF metadata = Missing THEN current ELSE metadata

\* What a payload opens to; decrypt rejects under another key.
decodeEncryptedPayload(p) ==
  IF ~isEncryptedPayload(p) THEN p
  ELSE IF p.data = Missing \/ p.encoding = Missing THEN Missing
       ELSE LET k == decryptDataKey(p.metadata) IN
            IF p.encoding = k /\ p.sealed = k THEN p.data ELSE Missing

-----------------------------------------------------------------------------
\* layerWithCodec appends the codec to those of the data converter it is
\* given; a provider identifies its keys in the metadata or does not.
CodecInit ==
  /\ codecs \in UNION {[1 .. n -> {"identified", "anonymous"}] : n \in 1 .. MaxCodecs}
  /\ current \in Keys
  /\ task = "idle" /\ at = 0 /\ key = Missing
  /\ batch = <<>> /\ out = <<>> /\ original = <<>> /\ foreign = FALSE

Rotate ==
  /\ current' \in Keys \ {current}
  /\ UNCHANGED <<codecs, task, at, key, batch, out, original, foreign>>

BeginEncode ==
  /\ task = "idle" /\ batch = <<>>
  /\ \E n \in 1 .. MaxBatch : batch' \in [1 .. n -> {Plain(v) : v \in Values}]
  /\ original' = batch'
  /\ task' = "key" /\ at' = 1
  /\ UNCHANGED <<codecs, current, key, out, foreign>>

\* generateDataKey: one key for the batch, or a rejection.
generateDataKey ==
  /\ task = "key"
  /\ \/ task' = "encoding" /\ key' = current
     \/ task' = "keyless" /\ key' = key
  /\ UNCHANGED <<codecs, current, at, batch, out, original, foreign>>

Todo == DOMAIN batch \ DOMAIN out
Put(i, p) == out' = [j \in DOMAIN out \cup {i} |-> IF j = i THEN p ELSE out[j]]

encrypt ==
  /\ task = "encoding"
  /\ \E i \in Todo : Put(i, Sealed(batch[i], key, IF codecs[at] = "identified" THEN key ELSE Missing))
  /\ UNCHANGED <<codecs, current, task, at, key, batch, original, foreign>>

\* Promise.all: the next codec, or the encoded batch is stored.
EncodedAll ==
  /\ task = "encoding" /\ Todo = {}
  /\ batch' = [i \in DOMAIN batch |-> out[i]] /\ out' = <<>>
  /\ IF at < Len(codecs) THEN task' = "key" /\ at' = at + 1 ELSE task' = "idle" /\ at' = at
  /\ UNCHANGED <<codecs, current, key, original, foreign>>

\* The batch is read: as it was stored, or beside a payload of a writer that
\* encrypts nothing, that has only one codec, or that wrote something else.
BeginDecode ==
  /\ task = "idle" /\ batch # <<>> /\ at = Len(codecs)
  /\ task' = "decoding"
  /\ \/ UNCHANGED <<batch, original, foreign>>
     \/ \E v \in Values, k \in Keys : \E p \in {Plain(v), Sealed(Plain(v), k, k)} \cup Unreadable :
          /\ batch' = Append(batch, p)
          /\ original' = Append(original, Plain(v))
          /\ foreign' = (p \in Unreadable)
  /\ UNCHANGED <<codecs, current, at, key, out>>

\* One payload is opened; if it rejects, so does the batch, and what the
\* others come to is dropped.
decode ==
  /\ task = "decoding"
  /\ \E i \in Todo :
       LET p == decodeEncryptedPayload(batch[i]) IN
       \/ p # Missing /\ Put(i, p) /\ task' = task
       \/ p = Missing /\ task' = "rejected" /\ out' = <<>>
       \/ isEncryptedPayload(batch[i]) /\ task' = "keyless" /\ out' = <<>>
  /\ UNCHANGED <<codecs, current, at, key, batch, original, foreign>>

DecodedAll ==
  /\ task = "decoding" /\ Todo = {}
  /\ batch' = [i \in DOMAIN batch |-> out[i]] /\ out' = <<>>
  /\ IF at > 1 THEN task' = task /\ at' = at - 1 ELSE task' = "decoded" /\ at' = at
  /\ UNCHANGED <<codecs, current, key, original, foreign>>

CodecNext ==
  \/ Rotate \/ BeginEncode \/ generateDataKey \/ encrypt \/ EncodedAll
  \/ BeginDecode \/ decode \/ DecodedAll

CodecSpec == CodecInit /\ [][CodecNext]_codecVars

-----------------------------------------------------------------------------
(* Properties                                                              *)

\* What is decoded is what was written, payload by payload and in order,
\* whatever the order the payloads were sealed and opened in, however the
\* keys rotated meanwhile and whoever wrote the payloads beside them; and a
\* batch is rejected at decoding only for a payload the codec never wrote or
\* for a provider that does not identify its keys.
RoundTrips ==
  /\ task = "decoded" => batch = original
  /\ task = "rejected" => foreign \/ \E i \in DOMAIN codecs : codecs[i] = "anonymous"
=============================================================================
