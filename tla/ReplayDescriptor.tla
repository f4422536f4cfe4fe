-------------------------- MODULE ReplayDescriptor --------------------------
(***************************************************************************)
(* The text of a replay descriptor: encode_descriptor and                  *)
(* read_replay_descriptor (src/failure_injection.cpp), and a file that is  *)
(* damaged or edited between the two.                                      *)
(*                                                                         *)
(* A line is a name, a value and how the value is spelled: as the encoder  *)
(* writes it, otherwise ("odd": leading zeros, upper-case digits) or as no *)
(* number at all ("junk").  A digest is what it is the digest of.  Of the  *)
(* forty-odd fields, the ones that no check treats differently are left    *)
(* out; the order and the branch on the model are kept.                    *)
(***************************************************************************)
EXTENDS Naturals, Sequences, SequencesExt

CONSTANTS
    Gbm, Heston,  \* ModelType
    Numbers,      \* values a numeric field can take
    MaxFields,    \* kMaxReplayDescriptorFields
    MaxEdits      \* bound on edits of the file

VARIABLES
    original,  \* the descriptor the injector wrote
    file,      \* its file: the lines, and whether the last one is terminated
    edits

vars == <<original, file, edits>>

-----------------------------------------------------------------------------

Specs ==
    [model : {Gbm}, volatility : Numbers]
        \cup [model : {Heston}, discretization : {1}, correlation : Numbers]

\* run_spec_hash: one number for every specification.
spec_hash(spec) ==
    IF spec.model = Gbm THEN 100 + spec.volatility ELSE 200 + spec.correlation

Descriptor ==
    [spec : Specs, hash : {100, 200} \cup {100 + v : v \in Numbers}
                                     \cup {200 + v : v \in Numbers},
     workers : Numbers, interval : Numbers, occurrence : Numbers, trace : Numbers]

\* What the constructors of the store and of the injector let through.
Injectable(d) ==
    /\ d.hash = spec_hash(d.spec)
    /\ d.workers = 1 /\ d.interval # 0 /\ d.occurrence # 0

Line(name, value) == [name |-> name, value |-> value, spelling |-> "plain"]

ModelLines(spec) ==
    IF spec.model = Gbm
      THEN <<Line("volatility_bits", <<spec.volatility>>)>>
      ELSE <<Line("heston_discretization_version", <<spec.discretization>>),
             Line("heston_correlation_bits", <<spec.correlation>>)>>

encode_descriptor_body(d) ==
    <<Line("version", <<2>>), Line("run_spec_hash", <<d.hash>>),
      Line("model_type", <<d.spec.model>>)>>
    \o ModelLines(d.spec)
    \o <<Line("worker_count", <<d.workers>>),
         Line("checkpoint_interval_blocks", <<d.interval>>),
         Line("selected_occurrence", <<d.occurrence>>),
         Line("observed_trace_hash", <<d.trace>>)>>

\* The last line seals the ones before it.
Seal(lines) == Append(lines, Line("descriptor_sha256", lines))

encode_descriptor(d) ==
    [lines |-> Seal(encode_descriptor_body(d)), terminated |-> TRUE]

-----------------------------------------------------------------------------

\* read_descriptor_bytes and read_fields: size limits and line structure.
Structured(f) == f.lines # <<>> /\ f.terminated /\ Len(f.lines) <= MaxFields

verify_descriptor_checksum(f) ==
    /\ Last(f.lines).name = "descriptor_sha256"
    /\ Last(f.lines).spelling # "junk"
    /\ Last(f.lines).value = Front(f.lines)

\* FieldReader::take, field after field, and finish.
Takes(f, names) ==
    /\ Len(f.lines) = Len(names)
    /\ \A i \in DOMAIN names : f.lines[i].name = names[i]

FieldNames(model) ==
    <<"version", "run_spec_hash", "model_type">>
    \o (IF model = Gbm THEN <<"volatility_bits">>
        ELSE <<"heston_discretization_version", "heston_correlation_bits">>)
    \o <<"worker_count", "checkpoint_interval_blocks", "selected_occurrence",
         "observed_trace_hash", "descriptor_sha256">>

\* parse_u64, parse_hex_u64 and parse_digest, on every field.
Parses(f) == \A i \in DOMAIN f.lines : f.lines[i].spelling # "junk"

Field(f, name) ==
    LET i == CHOOSE j \in DOMAIN f.lines : f.lines[j].name = name
    IN f.lines[i].value[1]

\* The model type is read before the branch that it selects.
ModelOf(f) == IF Len(f.lines) >= 3 THEN f.lines[3].value[1] ELSE Gbm

Parsed(f) ==
    [spec |-> IF ModelOf(f) = Gbm
                THEN [model |-> Gbm, volatility |-> Field(f, "volatility_bits")]
                ELSE [model |-> Heston,
                      discretization |-> Field(f, "heston_discretization_version"),
                      correlation |-> Field(f, "heston_correlation_bits")],
     hash |-> Field(f, "run_spec_hash"), workers |-> Field(f, "worker_count"),
     interval |-> Field(f, "checkpoint_interval_blocks"),
     occurrence |-> Field(f, "selected_occurrence"),
     trace |-> Field(f, "observed_trace_hash")]

\* The engine, the policy and the injection of the descriptor are validated.
Policy(d) == d.workers = 1 /\ d.interval # 0 /\ d.occurrence # 0

\* The descriptor is encoded again and compared byte for byte.
Canonical(f) == encode_descriptor(Parsed(f)) = f

\* read_replay_descriptor, in the order of its checks.
Accepted(f) ==
    /\ Structured(f)
    /\ verify_descriptor_checksum(f)
    /\ ModelOf(f) \in {Gbm, Heston}
    /\ Takes(f, FieldNames(ModelOf(f)))
    /\ Parses(f)
    /\ Field(f, "version") = 2
    /\ Policy(Parsed(f))
    /\ spec_hash(Parsed(f).spec) = Parsed(f).hash
    /\ Canonical(f)

-----------------------------------------------------------------------------

Init ==
    /\ original \in {d \in Descriptor : Injectable(d)}
    /\ file = encode_descriptor(original)
    /\ edits = 0

Edit(f) ==
    /\ edits < MaxEdits
    /\ edits' = edits + 1
    /\ file' = f
    /\ UNCHANGED original

ChangeValue(i, v) == Edit([file EXCEPT !.lines[i].value = <<v>>])
Respell(i, s) == Edit([file EXCEPT !.lines[i].spelling = s])
DropLine(i) == Edit([file EXCEPT !.lines = RemoveAt(file.lines, i)])
RepeatLine(i) == Edit([file EXCEPT !.lines = InsertAt(file.lines, i, file.lines[i])])
SwapLines(i) ==
    /\ i + 1 \in DOMAIN file.lines
    /\ Edit([file EXCEPT !.lines[i] = file.lines[i + 1],
                         !.lines[i + 1] = file.lines[i]])
CutNewline == Edit([file EXCEPT !.terminated = FALSE])

\* The checksum of the edited file is put right.
Reseal == file.lines # <<>> /\ Edit([file EXCEPT !.lines = Seal(Front(file.lines))])

Next ==
    \/ \E i \in DOMAIN file.lines :
        \/ \E v \in Numbers : ChangeValue(i, v)
        \/ \E s \in {"odd", "junk"} : Respell(i, s)
        \/ DropLine(i) \/ RepeatLine(i) \/ SwapLines(i)
    \/ CutNewline
    \/ Reseal

Spec == Init /\ [][Next]_vars

-----------------------------------------------------------------------------

Sealed == file.lines # <<>> /\ Last(file.lines).value = Front(file.lines)

\* Every descriptor the injector can write is read back as it was.
RoundTrip ==
    LET f == encode_descriptor(original) IN
    Accepted(f) /\ Parsed(f) = original

\* A file that was damaged, and whose checksum was not put right, is refused.
DamageRefused == file # encode_descriptor(original) /\ ~Sealed => ~Accepted(file)

\* No part of an accepted file is ignored: if it is not the file that was
\* written, it is not read as the descriptor that was written.
NothingIgnored ==
    Accepted(file) /\ Parsed(file) = original => file = encode_descriptor(original)
=============================================================================
