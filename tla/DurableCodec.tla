---------------------------- MODULE DurableCodec ----------------------------
(***************************************************************************)
(* The durable files (src/persistence_codec.cpp, src/codec.cpp): manifests,*)
(* block records and run metadata, as written and as read back after any   *)
(* damage.                                                                 *)
(*                                                                         *)
(* A file is its magic, which stands for the storage schema version too,   *)
(* its length field, a payload of words and a CRC; a word stands for one   *)
(* field, whatever its width, and the CRC is what it is computed from.     *)
(* Fields that the codec copies and does not look at (identities, ranges,  *)
(* the generator's version) are represented by one word, so are the two    *)
(* reserved fields of a manifest.                                          *)
(***************************************************************************)
EXTENDS Naturals, Sequences, SequencesExt

CONSTANTS
    Values,      \* what is written: manifests, block records, metadata
    Words,       \* values a damaged word can take
    MaxReason,   \* kMaxFailureReasonBytes
    MaxPayload,  \* the size limit of the file being read
    Perishable,  \* bound: the values whose files are damaged
    MaxDamage    \* bound on damages

ASSUME WordsAssumption == Words \subseteq Nat /\ Perishable \subseteq Values
ASSUME LimitsAssumption == {MaxReason, MaxPayload, MaxDamage} \subseteq Nat

VARIABLES
    value,   \* what was to be written
    file,    \* what is on disk
    damage   \* how often it was damaged

vars == <<value, file, damage>>

-----------------------------------------------------------------------------
(* Aggregates *)

Running == 1
Complete == 2
Failed == 3

\* AggregateStats::invariant_error, as far as one moment can show it.
Sound(agg) == agg.n = 0 => agg.moment = 0

kStatsSchemaVersion == 1

\* The refusals of encode_aggregate_payload.
AggregateWrites(agg, schema) == schema = kStatsSchemaVersion /\ Sound(agg)

encode_aggregate(agg, schema) == <<1, schema, agg.n, agg.moment>>

\* decode_aggregate_payload, which must use up its bytes exactly: the schema is
\* the one its caller has read, and not looked at in itself.
AggregateReads(p, expected_schema) ==
    /\ Len(p) = 4 /\ p[1] = 1 /\ p[2] = expected_schema
    /\ Sound([n |-> p[3], moment |-> p[4]])

Aggregate(p) == [n |-> p[3], moment |-> p[4]]

\* SHA-256, as a number that tells apart the sequences of small words.
sha256(words) == FoldLeft(LAMBDA acc, word : 10 * acc + word, 1, words)

\* Where AggregateWrites holds; it encodes, and throws where that does.
aggregate_payload_hash(agg, schema) == sha256(encode_aggregate(agg, schema))

-----------------------------------------------------------------------------
(* Manifests *)

\* The test both sides make of the k-th entry of the committed table.
EntryCanonical(entries, k, n, inc, leases) ==
    LET e == entries[k] IN
    /\ e.id < n
    /\ e.inc # 0 /\ e.epoch # 0
    /\ e.inc <= inc
    /\ e.epoch <= leases[e.id + 1]
    /\ e.inc = inc => e.epoch = leases[e.id + 1]
    /\ k > 1 => e.id > entries[k - 1].id

\* The checks of encode_manifest, and of the encoders it calls.
ManifestWrites(m) ==
    /\ m.inc # 0 /\ m.n # 0 /\ Len(m.leases) = m.n
    /\ \A b \in DOMAIN m.leases : m.leases[b] # 0
    /\ (m.status = Failed) = (m.failure # <<>>)
    /\ m.status = Complete => Len(m.entries) = m.n
    /\ \A k \in DOMAIN m.entries :
        EntryCanonical(m.entries, k, m.n, m.inc, m.leases)
    /\ AggregateWrites(m.agg, m.schema)
    /\ m.failure # <<>> =>
        m.failure[1].code <= 12 /\ Len(m.failure[1].reason) <= MaxReason

EntryWords(e) == <<e.id, e.inc, e.epoch, e.sum>>
EntrySize == 4

FailureWords(failure) ==
    IF failure = <<>> THEN <<0>>
    ELSE <<1, failure[1].code, Len(failure[1].reason)>> \o failure[1].reason

encode_manifest(m) ==
    <<m.run, m.seq, m.status, 0, m.inc, m.schema, m.n, Len(m.leases)>>
    \o m.leases
    \o <<Len(m.entries)>>
    \o FlattenSeq([k \in DOMAIN m.entries |-> EntryWords(m.entries[k])])
    \o <<Len(encode_aggregate(m.agg, m.schema))>> \o encode_aggregate(m.agg, m.schema)
    \o FailureWords(m.failure)

\* Where decode_manifest finds the counts and the tables that follow them.
LeaseCount(p) == p[8]
CommittedAt(p) == 9 + LeaseCount(p)
CommittedCount(p) == p[CommittedAt(p)]
AggregateAt(p) == CommittedAt(p) + EntrySize * CommittedCount(p) + 1
FailureAt(p) == AggregateAt(p) + p[AggregateAt(p)] + 1

Leases(p) == SubSeq(p, 9, 8 + LeaseCount(p))

Entry(p, k) ==
    LET at == CommittedAt(p) + EntrySize * (k - 1) IN
    [id |-> p[at + 1], inc |-> p[at + 2], epoch |-> p[at + 3], sum |-> p[at + 4]]

Entries(p) == [k \in 1 .. CommittedCount(p) |-> Entry(p, k)]

Failure(p) ==
    LET at == FailureAt(p) IN
    IF p[at] = 0 THEN <<>>
    ELSE <<[code |-> p[at + 1], reason |-> SubSeq(p, at + 3, at + 2 + p[at + 2])]>>

\* Reader::require, and durable_status, validation_status on the codes.
FixedPartReads(p) ==
    /\ Len(p) >= 8
    /\ p[3] \in {Running, Complete, Failed}
    /\ p[4] = 0
    /\ p[7] # 0 /\ LeaseCount(p) = p[7]

LeaseTableReads(p) ==
    /\ LeaseCount(p) <= Len(p) - 8
    /\ \A k \in DOMAIN Leases(p) : Leases(p)[k] # 0

CommittedTableReads(p) ==
    /\ Len(p) >= CommittedAt(p)
    /\ CommittedCount(p) <= p[7]
    /\ CommittedCount(p) <= (Len(p) - CommittedAt(p)) \div EntrySize
    /\ \A k \in 1 .. CommittedCount(p) :
        EntryCanonical(Entries(p), k, p[7], p[5], Leases(p))

AggregatePartReads(p) ==
    /\ Len(p) >= AggregateAt(p)
    /\ Len(p) >= FailureAt(p) - 1
    /\ AggregateReads(SubSeq(p, AggregateAt(p) + 1, FailureAt(p) - 1), p[6])

\* The failure record, and reader.finish().
FailurePartReads(p) ==
    LET at == FailureAt(p) IN
    /\ Len(p) >= at
    /\ p[at] \in {0, 1}
    /\ p[at] = 0 => Len(p) = at
    /\ p[at] = 1 =>
        /\ Len(p) >= at + 2 /\ p[at + 1] <= 12 /\ p[at + 2] <= MaxReason
        /\ Len(p) = at + 2 + p[at + 2]

\* Fault: a Failed manifest need not say why.
AnyRunState(p) == p[5] # 0

\* The checks decode_manifest makes last.
RunStateReads(p) ==
    /\ p[5] # 0
    /\ (p[3] = Failed) = (Failure(p) # <<>>)
    /\ p[3] = Complete => CommittedCount(p) = p[7]

ManifestReads(p) ==
    /\ FixedPartReads(p) /\ LeaseTableReads(p) /\ CommittedTableReads(p)
    /\ AggregatePartReads(p) /\ FailurePartReads(p) /\ RunStateReads(p)

decode_manifest(p) ==
    [kind |-> "manifest", run |-> p[1], seq |-> p[2], status |-> p[3], inc |-> p[5],
     schema |-> p[6], n |-> p[7], leases |-> Leases(p), entries |-> Entries(p),
     agg |-> Aggregate(SubSeq(p, AggregateAt(p) + 1, FailureAt(p) - 1)),
     failure |-> Failure(p)]

\* Fault: the statistics schema of a manifest is not compared.
AnySchemaFits(m, run, n) == m.run = run /\ m.n = n

\* The comparison with the metadata by which validate_manifest_snapshot begins;
\* RunSpec::validate has pinned the statistics schema there.
SnapshotFits(m, run, n) == m.run = run /\ m.schema = kStatsSchemaVersion /\ m.n = n

-----------------------------------------------------------------------------
(* Block records and run metadata *)

BlockWrites(r) ==
    /\ r.epoch # 0 /\ AggregateWrites(r.agg, r.schema)
    /\ r.sum = aggregate_payload_hash(r.agg, r.schema)

encode_block_record(r) ==
    <<r.id, r.epoch, r.schema, Len(encode_aggregate(r.agg, r.schema))>>
    \o encode_aggregate(r.agg, r.schema) \o <<r.sum>>

\* The hash is of the aggregate encoded again, which refuses other schemas.
BlockReads(p) ==
    LET bytes == SubSeq(p, 5, 4 + p[4]) IN
    /\ Len(p) >= 4
    /\ Len(p) = 5 + p[4]
    /\ AggregateReads(bytes, p[3])
    /\ p[2] # 0
    /\ AggregateWrites(Aggregate(bytes), p[3])
    /\ p[Len(p)] = aggregate_payload_hash(Aggregate(bytes), p[3])

decode_block_record(p) ==
    [kind |-> "block", id |-> p[1], epoch |-> p[2], schema |-> p[3],
     agg |-> Aggregate(SubSeq(p, 5, 4 + p[4])), sum |-> p[Len(p)]]

\* RunSpec::validate, on the versions, which are one word, and the scenarios.
SpecValid(spec) == spec.version = 1 /\ spec.total # 0

\* encode_run_spec_payload: the tagged tail has one word for GBM, two for Heston.
SpecWords(spec) == <<spec.version, spec.model, spec.total>> \o spec.tail

SpecOf(p) ==
    [version |-> p[1], model |-> p[2], total |-> p[3], tail |-> SubSeq(p, 4, Len(p))]

SpecReads(p) ==
    /\ Len(p) >= 3 /\ p[2] \in {1, 2}
    /\ Len(p) = 3 + p[2]
    /\ SpecValid(SpecOf(p))

\* run_spec_hash, execution_layout_hash and durable_run_id.
spec_hash(spec) == sha256(SpecWords(spec))
layout_hash(spec, size, n) == 1000 * spec_hash(spec) + 10 * size + n
run_id(spec, layout) == spec_hash(spec) + layout

block_count(spec, size) == 1 + (spec.total - 1) \div size

\* encode_run_metadata checks less than decode_run_metadata does: what it is
\* given comes from expected_metadata.
MetadataWrites(m) ==
    /\ SpecValid(m.spec) /\ m.size # 0 /\ m.n # 0
    /\ m.hash = spec_hash(m.spec) /\ m.id = run_id(m.spec, m.layout)
    /\ m.build # <<>> /\ m.fingerprint = sha256(m.build)

encode_run_metadata(m) ==
    <<m.id, Len(SpecWords(m.spec))>> \o SpecWords(m.spec)
    \o <<m.size, m.n, m.hash, m.layout, m.fingerprint, Len(m.build)>> \o m.build

MetadataTail(p) == 2 + p[2]

MetadataReads(p) ==
    LET t == MetadataTail(p)
        spec == SpecOf(SubSeq(p, 3, t)) IN
    /\ Len(p) >= 2 /\ Len(p) >= t + 6
    /\ SpecReads(SubSeq(p, 3, t))
    /\ Len(p) = t + 6 + p[t + 6]
    /\ p[t + 1] # 0 /\ p[t + 2] # 0
    /\ p[t + 3] = spec_hash(spec) /\ p[1] = run_id(spec, p[t + 4])
    /\ p[t + 2] = block_count(spec, p[t + 1])
    /\ p[t + 4] = layout_hash(spec, p[t + 1], p[t + 2])
    /\ p[t + 6] # 0 /\ p[t + 5] = sha256(SubSeq(p, t + 7, Len(p)))

decode_run_metadata(p) ==
    LET t == MetadataTail(p) IN
    [kind |-> "metadata", id |-> p[1], spec |-> SpecOf(SubSeq(p, 3, t)),
     size |-> p[t + 1], n |-> p[t + 2], hash |-> p[t + 3], layout |-> p[t + 4],
     fingerprint |-> p[t + 5], build |-> SubSeq(p, t + 7, Len(p))]

\* expected_metadata (src/run_store.cpp).
expected_metadata(spec, size, build) ==
    LET layout == layout_hash(spec, size, block_count(spec, size)) IN
    [kind |-> "metadata", id |-> run_id(spec, layout), spec |-> spec,
     size |-> size, n |-> block_count(spec, size), hash |-> spec_hash(spec),
     layout |-> layout, fingerprint |-> sha256(build), build |-> build]

-----------------------------------------------------------------------------
(* The envelope *)

Writes(v) ==
    CASE v.kind = "manifest" -> ManifestWrites(v)
      [] v.kind = "block" -> BlockWrites(v)
      [] v.kind = "metadata" -> MetadataWrites(v)

Payload(v) ==
    CASE v.kind = "manifest" -> encode_manifest(v)
      [] v.kind = "block" -> encode_block_record(v)
      [] v.kind = "metadata" -> encode_run_metadata(v)

make_envelope(v) ==
    LET p == Payload(v) IN
    [magic |-> v.kind, size |-> Len(p), payload |-> p,
     crc |-> [magic |-> v.kind, size |-> Len(p), payload |-> p]]

open_envelope(f, kind) ==
    /\ Len(f.payload) <= MaxPayload
    /\ f.magic = kind
    /\ f.size = Len(f.payload)
    /\ f.crc = [magic |-> f.magic, size |-> f.size, payload |-> f.payload]

PayloadReads(kind, p) ==
    CASE kind = "manifest" -> ManifestReads(p)
      [] kind = "block" -> BlockReads(p)
      [] kind = "metadata" -> MetadataReads(p)

Decoded(kind, p) ==
    CASE kind = "manifest" -> decode_manifest(p)
      [] kind = "block" -> decode_block_record(p)
      [] kind = "metadata" -> decode_run_metadata(p)

\* The decoder for one kind of file takes this one.
Reads(kind, f) == open_envelope(f, kind) /\ PayloadReads(kind, f.payload)

-----------------------------------------------------------------------------

Init ==
    /\ value \in Values
    /\ file = make_envelope(value)
    /\ damage = 0

\* The disk returns something else; sealed means that the length and the CRC
\* agree with it, as if it had been written so.
Damage(p, sealed) ==
    /\ damage' = damage + 1
    /\ file' = IF sealed
                 THEN [magic |-> file.magic, size |-> Len(p), payload |-> p,
                       crc |-> [magic |-> file.magic, size |-> Len(p), payload |-> p]]
                 ELSE [file EXCEPT !.payload = p]
    /\ UNCHANGED value

Flip(i, w, sealed) == Damage([file.payload EXCEPT ![i] = w], sealed)
Cut(sealed) == file.payload # <<>> /\ Damage(Front(file.payload), sealed)
Extend(w, sealed) == Damage(Append(file.payload, w), sealed)
Lose(i, sealed) == Damage(RemoveAt(file.payload, i), sealed)

Next ==
    /\ damage < MaxDamage /\ value \in Perishable /\ Writes(value)
    /\ \E sealed \in BOOLEAN :
        \/ Cut(sealed)
        \/ \E w \in Words : Extend(w, sealed)
        \/ \E i \in DOMAIN file.payload :
            Lose(i, sealed) \/ \E w \in Words : Flip(i, w, sealed)

Spec == Init /\ [][Next]_vars

-----------------------------------------------------------------------------

Kinds == {"manifest", "block", "metadata"}
Intact == make_envelope(value)

\* The store goes by this file: a manifest must also be the one its name says, and
\* belong to the run.
Usable(f) ==
    /\ Reads(value.kind, f)
    /\ value.kind = "manifest" =>
        LET m == decode_manifest(f.payload) IN
        m.seq = value.seq /\ SnapshotFits(m, value.run, value.n)

\* encode_* and decode_* repeat each other's checks: nothing is taken that the
\* writer refuses, and what it writes is taken back unchanged.  Two checks are on
\* one side only: of the metadata that encode_run_metadata lets through, the ones
\* that expected_metadata builds are taken; and decode_manifest takes a foreign
\* statistics schema, which the store then refuses.
WriterReaderAgree ==
    /\ Usable(Intact) => Writes(value) /\ Decoded(value.kind, Payload(value)) = value
    /\ /\ Writes(value)
       /\ value.kind = "metadata" =>
            value = expected_metadata(value.spec, value.size, value.build)
       => Usable(Intact)

\* Damage that the length and the CRC do not agree with is never read, and a
\* file is read only as what it is.
DamagedFileRefused ==
    \A k \in Kinds : Reads(k, file) =>
        k = value.kind /\ file.crc.payload = file.payload

\* A file that is read, damaged or not, is the only file for what is read; and if
\* the store goes by it, one the writer could have written.
OneSpelling ==
    Reads(value.kind, file) =>
        LET v == Decoded(value.kind, file.payload) IN
        Payload(v) = file.payload /\ (Usable(file) => Writes(v))
=============================================================================
