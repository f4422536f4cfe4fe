----------------------------- MODULE MCFormats -----------------------------
(***************************************************************************)
(* The bytes the program lives by: durable files, replay descriptors, and  *)
(* the hash that identifies both.  A behaviour writes and damages a file,  *)
(* or edits a descriptor, or hashes a message; the other two have nothing  *)
(* to do in it.                                                            *)
(*                                                                         *)
(* The hash has blocks of five bytes with a length of two, so that the     *)
(* padding takes a second block for two of the five fillings of the        *)
(* buffer.  Messages are made of the two bytes the padding is made of.     *)
(***************************************************************************)
EXTENDS DurableCodec, HashedMessage

SmallWords == 0 .. 3
TwoBytes == {0, 4}

EmptyAgg == [n |-> 0, moment |-> 0]
Aggs == {EmptyAgg, [n |-> 2, moment |-> 1]}
OddAggs == Aggs \cup {[n |-> 0, moment |-> 1]}
NoFailure == <<>>
Failures == {NoFailure, <<[code |-> 12, reason |-> <<1, 2>>]>>}

EntrySet == [id : 0 .. 2, inc : 0 .. 2, epoch : 0 .. 2, sum : {1}]
Tables(set, n) == UNION {[1 .. k -> set] : k \in 0 .. n}

\* Manifests of two blocks, right and wrong.
AnyManifests ==
    [kind : {"manifest"}, run : {1}, seq : {1}, status : {Running, Complete, Failed},
     inc : 0 .. 2, schema : {1}, n : {2}, leases : Tables(0 .. 2, 2),
     entries : Tables(EntrySet, 2), agg : {EmptyAgg}, failure : Failures]

OtherManifests ==
    [kind : {"manifest"}, run : {1}, seq : {1}, status : {Running, Complete, Failed},
     inc : 0 .. 1, schema : 1 .. 2, n : 0 .. 2, leases : Tables({1}, 2),
     entries : Tables([id : 0 .. 1, inc : {1}, epoch : {1}, sum : {1}], 2),
     agg : OddAggs,
     failure : Failures \cup {<<[code |-> 1, reason |-> <<1, 2, 3>>]>>}]

AnyRecords ==
    [kind : {"block"}, id : 0 .. 1, epoch : 0 .. 1, schema : 1 .. 2, agg : OddAggs,
     sum : {11100, 11101, 11120, 11121, 11200, 11221}]

TwoSpecs == {[version |-> 1, model |-> 1, total |-> 3, tail |-> <<2>>],
             [version |-> 1, model |-> 2, total |-> 3, tail |-> <<1, 2>>]}

GoodMetadata == {expected_metadata(s, z, b) :
                    s \in TwoSpecs, z \in 1 .. 4, b \in {<<1>>, <<1, 2>>}}

\* A wrong number of blocks, another layout, an unknown version.
OddMetadata ==
    UNION {{[m EXCEPT !.n = @ + 1], [m EXCEPT !.layout = @ + 1, !.id = @ + 1],
            [m EXCEPT !.spec.version = 2]} : m \in GoodMetadata}

Everything ==
    AnyManifests \cup OtherManifests \cup AnyRecords \cup GoodMetadata \cup OddMetadata

\* Little of each kind, to be damaged.
Samples ==
    {m \in [kind : {"manifest"}, run : {1}, seq : {1},
            status : {Running, Complete, Failed},
            inc : {2}, schema : {1}, n : {2}, leases : {<<1, 2>>},
            entries : Tables({e \in EntrySet : e.inc = e.epoch}, 2),
            agg : Aggs, failure : Failures] : ManifestWrites(m)}
    \cup {r \in AnyRecords : BlockWrites(r)}
    \cup GoodMetadata
Anything == Everything \cup Samples

-----------------------------------------------------------------------------

VARIABLES original, text, edits

Replay == INSTANCE ReplayDescriptor WITH
            file <- text, Gbm <- 1, Heston <- 2, Numbers <- 0 .. 2,
            MaxFields <- 10, MaxEdits <- 2

codec == vars
descriptor == <<original, text, edits>>
hasher == <<message, fed, buffer_, buffered_bytes_, total_bytes_>>

NoFile == value = <<>> /\ file = <<>> /\ damage = 0
NoText == original = <<>> /\ text = <<>> /\ edits = 0

FormatsInit ==
    \/ Init /\ NoText /\ Hasher!Init
    \/ NoFile /\ Replay!Init /\ Hasher!Init
    \/ NoFile /\ NoText /\ Hasher!Init

FormatsNext ==
    \/ file # <<>> /\ Next /\ UNCHANGED <<descriptor, hasher>>
    \/ text # <<>> /\ Replay!Next /\ UNCHANGED <<codec, hasher>>
    \/ file = <<>> /\ text = <<>> /\ Hasher!Next /\ UNCHANGED <<codec, descriptor>>

FormatsSpec == FormatsInit /\ [][FormatsNext]_<<codec, descriptor, hasher>>

-----------------------------------------------------------------------------

\* What is written is read back as it was, by encode_* and decode_* of the durable
\* files and by the replay descriptor's encoder and reader; and the store goes by
\* no file that its own encoder would have refused to write.
CodecsAgree ==
    /\ file # <<>> => WriterReaderAgree
    /\ text # <<>> => Replay!RoundTrip

\* Whatever has happened to a file or a descriptor: if it is read, its checksum
\* was put right, and it is the only spelling of what is read, with no field
\* ignored; and a file that the store goes by breaks no rule of the encoder, not
\* even the statistics schema, which decode_manifest only compares with itself.
OneSpellingEach ==
    /\ file # <<>> => DamagedFileRefused /\ OneSpelling
    /\ text # <<>> => Replay!DamageRefused /\ Replay!NothingIgnored
=============================================================================
