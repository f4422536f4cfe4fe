--------------------------- MODULE StorageBudget ---------------------------
(***************************************************************************)
(* The storage limits of the durable store (src/run_store.cpp): the        *)
(* completion estimate that admits a run, the check before each write, the *)
(* counters current_bytes and current_files, and what is left behind by    *)
(* processes that were stopped.                                            *)
(*                                                                         *)
(* Blocks are interchangeable here and only counted.  Sizes are the bytes  *)
(* that src/persistence_codec.cpp really writes.  The directory is what    *)
(* storage_usage would measure; the protocol that installs files is module *)
(* RunStore, so a write is its temporary file and then its installation.   *)
(***************************************************************************)
EXTENDS Integers

CONSTANTS
    N,               \* block_count
    Configs,         \* the RunStoreConfigs that a run may be started with
    MetadataBytes,   \* size of run_spec.bin
    ReasonBytes,     \* length of FailureRecord::reason
    Capacity,        \* bytes of the file system
    U64Max,
    MinAutoInterval, \* kMinimumAutomaticCheckpointBlocks
    MaxAutoManifests, \* kMaximumAutomaticPeriodicManifests
    MaxStops,        \* bound on the times a process is stopped
    ForeignBytes     \* amounts that other programs may have taken of the file system

ASSUME BlocksAssumption == N \in Nat \ {0}
ASSUME ConfigsAssumption ==
    Configs \subseteq [interval : Nat, bytes : Nat, files : Nat, free : Nat,
                       manifest : Nat]
ASSUME SizesAssumption ==
    MetadataBytes \in Nat \ {0} /\ Capacity \in Nat /\ U64Max \in Nat
ASSUME CadenceAssumption ==
    MinAutoInterval \in Nat \ {0} /\ MaxAutoManifests \in Nat \ {0}
ASSUME BoundsAssumption == MaxStops \in Nat /\ ForeignBytes \subseteq Nat
\* The longest reason that validate_result gives is much shorter.
ASSUME ReasonAssumption == ReasonBytes \in 0 .. 147

VARIABLES
    config,    \* the resolved RunStoreConfig
    meta,      \* run_spec.bin is installed
    manifests, \* [count, bytes] of the installed manifests
    results,   \* number of installed block results
    snapshot,  \* number of blocks that the newest manifest commits
    status,    \* its status, or "none" before the first manifest
    temp,      \* size of a file in tmp/, 0 if there is none
    foreign,   \* bytes of the file system that other programs have taken
    pc,        \* what the process, if there is one, is about to do
    usage,     \* [bytes, files]: current_bytes and current_files
    admitted,  \* completion_preflight_done
    received,  \* number of blocks received so far
    pending,   \* pending_since_checkpoint
    refusal,   \* history: the check that ended the last process, or "none"
    squeezed,  \* history: other programs took space since the admission
    stops,     \* history: how often a process was stopped
    changed    \* history: the operator has changed the configuration

disk == <<meta, manifests, results, snapshot, status>>
process == <<usage, admitted, received, pending>>
vars == <<config, disk, temp, foreign, pc, process, refusal, squeezed, stops, changed>>

-----------------------------------------------------------------------------

\* Sizes of what the codec writes.  Every file has an envelope of 24 bytes.
Envelope == 24
Aggregate == 48
Digest == 32
ResultBytes == Envelope + 4 * Digest + 6 * 8 + 4 + 8 + 4 + Aggregate + Digest
FailureBytes == 4 + 3 * 8 + 2 * Digest + 4 + ReasonBytes
ManifestBytes(committed, failed) ==
    Envelope + 4 * Digest + 8 + 8 + 2 * 8 + 2 * 4 + 2 * 8 + 8 * N
    + 8 + 56 * committed + 4 + Aggregate + 1 + (IF failed THEN FailureBytes ELSE 0)

\* Sizes that the estimate assumes.
ResultEstimate == 512

ManifestEstimate == 512 + 64 * N

\* The cadence, and the number of checkpoints it needs for some blocks.
resolve_checkpoint_cadence(c) ==
    LET forCap == 1 + (N - 1) \div MaxAutoManifests IN
    [c EXCEPT !.interval =
        IF c.interval # 0 THEN c.interval
        ELSE IF forCap > MinAutoInterval THEN forCap ELSE MinAutoInterval]

\* Fault: the last, partial interval is forgotten, and so are the manifests
\* that begin and end the process.
BareCheckpoints(missing) == missing \div config.interval

\* Checkpoints for the missing blocks, the process's first manifest, and one
\* in reserve.
CompletionManifests(missing) ==
    (IF missing = 0 THEN 0 ELSE 1 + (missing - 1) \div config.interval) + 2

Valid(c) ==
    /\ c.bytes # 0 /\ c.files # 0
    /\ c.manifest >= 256 /\ c.manifest <= c.bytes

\* Regular files below the run directory, .run.lock included, tmp/ apart.
StoredFiles == 1 + (IF meta THEN 1 ELSE 0) + manifests.count + results
StoredBytes ==
    (IF meta THEN MetadataBytes ELSE 0) + manifests.bytes + ResultBytes * results

\* Measured after tmp/ has been swept.
storage_usage == [bytes |-> StoredBytes, files |-> StoredFiles]

\* Fault: the number of files is not looked at.
BytesWithin(current) == current.bytes <= config.bytes

\* open() goes on only if the directory is not over the limits already.
UsageWithin(current) ==
    current.bytes <= config.bytes /\ current.files <= config.files

Available == Capacity - StoredBytes - temp - foreign

CompletionBytes(missing, fixedBytes) ==
    ResultEstimate * missing + ManifestEstimate * CompletionManifests(missing)
    + fixedBytes
CompletionFiles(missing, fixedFiles) ==
    missing + CompletionManifests(missing) + fixedFiles

\* A product or sum that does not fit in 64 bits is a refusal too.
preflight_run_completion(current, missing, fixedBytes, fixedFiles, space) ==
    /\ ManifestEstimate <= config.manifest
    /\ current.bytes + CompletionBytes(missing, fixedBytes) <= config.bytes
    /\ current.files + CompletionFiles(missing, fixedFiles) <= config.files
    /\ CompletionBytes(missing, fixedBytes) + config.free <= U64Max
    /\ CompletionBytes(missing, fixedBytes) + config.free <= space

preflight_write(size) ==
    /\ usage.bytes + size <= config.bytes
    /\ usage.files < config.files
    /\ size + config.free <= U64Max
    /\ size + config.free <= Available

-----------------------------------------------------------------------------

Init ==
    /\ \E c \in Configs : config = resolve_checkpoint_cadence(c)
    /\ meta = FALSE /\ manifests = [count |-> 0, bytes |-> 0]
    /\ results = 0 /\ snapshot = 0 /\ status = "none"
    /\ temp = 0 /\ foreign = 0
    /\ pc = "closed"
    /\ usage = [bytes |-> 0, files |-> 0]
    /\ admitted = FALSE /\ received = 0 /\ pending = 0
    /\ refusal = "none" /\ squeezed = FALSE /\ stops = 0 /\ changed = FALSE

\* The process ends on a failed check.
Refuse(check) ==
    /\ pc' = "closed"
    /\ refusal' = check
    /\ UNCHANGED <<config, disk, foreign, process, squeezed, stops, changed>>

Proceed(next) ==
    /\ pc' = next
    /\ refusal' = "none"
    /\ UNCHANGED <<config, disk, foreign, received, pending, stops, changed>>

\* open() as far as the metadata: validate, sweep of tmp/, storage_usage.
Open ==
    /\ pc = "closed"
    /\ LET space == Available + temp
           current == storage_usage
           within == UsageWithin(current)
           fits == preflight_run_completion(current, N, MetadataBytes, 1, space) IN
       /\ temp' = IF Valid(config) THEN 0 ELSE temp
       /\ \/ ~Valid(config) /\ Refuse("config")
          \/ Valid(config) /\ ~within /\ Refuse("limit")
          \/ Valid(config) /\ within /\ ~meta /\ ~fits /\ Refuse("completion")
          \/ /\ Valid(config) /\ within /\ (meta \/ fits)
             /\ usage' = current
             /\ admitted' = ~meta
             /\ squeezed' = FALSE
             /\ Proceed(IF meta THEN "scan" ELSE "metadata")

\* Fault: the whole run is estimated again.
WholeRun == N

Missing == N - snapshot

\* The rest of open(): a running store is estimated again for what it misses.
Scan ==
    /\ pc = "scan"
    /\ LET terminal == status \in {"Complete", "Failed"}
           fits == admitted \/ preflight_run_completion(usage, Missing, 0, 0, Available) IN
       \/ ~terminal /\ ~fits /\ Refuse("completion") /\ UNCHANGED temp
       \/ /\ terminal \/ fits
          /\ admitted' = ~terminal
          /\ squeezed' = (admitted /\ squeezed)
          /\ Proceed(IF terminal THEN "cleanup" ELSE "snapshot")
          /\ UNCHANGED <<temp, usage>>

\* remove_orphan_block_results, one file at a time, and the second
\* storage_usage.  A finished or failed store is then closed by its caller.
Cleanup ==
    /\ pc = "cleanup"
    /\ UNCHANGED <<config, meta, manifests, snapshot, status, temp, foreign,
                   admitted, refusal, squeezed, stops, changed>>
    /\ \/ /\ results > snapshot
          /\ results' = results - 1
          /\ UNCHANGED <<pc, usage, received, pending>>
       \/ /\ results = snapshot
          /\ usage' = storage_usage
          /\ received' = snapshot /\ pending' = 0
          /\ pc' = IF status = "Running" THEN "run" ELSE "closed"
          /\ UNCHANGED results

\* The consume callback receives a block, which is recorded or rejected for
\* good; when nothing is missing the run completes.
Run ==
    /\ pc = "run"
    /\ \/ received < N /\ pc' \in {"result", "failed"}
       \/ received = N /\ pc' = "complete"
    /\ UNCHANGED <<config, disk, temp, foreign, process, refusal, squeezed, stops, changed>>

Writes == {"metadata", "snapshot", "result", "checkpoint", "complete", "failed"}

\* The manifest of an initial or recovery snapshot commits what is committed.
Size(kind) ==
    CASE kind = "metadata" -> MetadataBytes
      [] kind = "result"   -> ResultBytes
      [] kind = "snapshot" -> ManifestBytes(snapshot, FALSE)
      [] OTHER             -> ManifestBytes(received, kind = "failed")

\* checkpoint() has a check of its own, before the one of atomic_write.
Fits(kind) ==
    /\ kind \in {"checkpoint", "complete", "failed"} => Size(kind) <= config.manifest
    /\ preflight_write(Size(kind))

WriteTemp ==
    /\ pc \in Writes /\ temp = 0
    /\ \/ ~Fits(pc) /\ Refuse("write") /\ UNCHANGED temp
       \/ /\ Fits(pc)
          /\ temp' = Size(pc)
          /\ UNCHANGED <<config, disk, foreign, pc, process, refusal, squeezed, stops, changed>>

Charge == usage' = [bytes |-> usage.bytes + temp, files |-> usage.files + 1]

InstallManifest ==
    manifests' = [count |-> manifests.count + 1, bytes |-> manifests.bytes + temp]

\* After the block in hand has been received.
CheckpointDue == pending + 1 >= config.interval /\ received + 1 < N

InstallMetadata ==
    /\ pc = "metadata"
    /\ meta' = TRUE /\ pc' = "scan"
    /\ UNCHANGED <<manifests, results, snapshot, status, received, pending>>

InstallSnapshot ==
    /\ pc = "snapshot"
    /\ InstallManifest
    /\ status' = "Running" /\ pc' = "cleanup"
    /\ UNCHANGED <<meta, results, snapshot, received, pending>>

InstallResult ==
    /\ pc = "result"
    /\ results' = results + 1
    /\ received' = received + 1
    /\ pending' = pending + 1
    /\ pc' = IF CheckpointDue THEN "checkpoint" ELSE "run"
    /\ UNCHANGED <<meta, manifests, snapshot, status>>

InstallCheckpoint ==
    /\ pc \in {"checkpoint", "complete", "failed"}
    /\ InstallManifest
    /\ snapshot' = received
    /\ pending' = 0
    /\ status' = CASE pc = "complete" -> "Complete" [] pc = "failed" -> "Failed"
                   [] OTHER -> status
    /\ pc' = IF pc = "checkpoint" THEN "run" ELSE "closed"
    /\ UNCHANGED <<meta, results, received>>

\* Rename, fsync and the counters at the end of atomic_write.
Install ==
    /\ temp # 0
    /\ Charge
    /\ temp' = 0
    /\ InstallMetadata \/ InstallSnapshot \/ InstallResult \/ InstallCheckpoint
    /\ UNCHANGED <<config, foreign, admitted, refusal, squeezed, stops, changed>>

\* A process is killed, or unwinds from an exception that removes its
\* temporary file.
Stop ==
    /\ pc # "closed"
    /\ stops < MaxStops
    /\ stops' = stops + 1
    /\ pc' = "closed"
    /\ temp' \in {0, temp}
    /\ refusal' = "none"
    /\ UNCHANGED <<config, disk, foreign, process, squeezed, changed>>

\* Another program takes space on the same file system.
Squeeze ==
    /\ \E f \in ForeignBytes :
        /\ f > foreign /\ f - foreign <= Available
        /\ foreign' = f
    /\ squeezed' = TRUE
    /\ UNCHANGED <<config, disk, temp, pc, process, refusal, stops, changed>>

\* The configuration is not part of the run's identity: the operator may
\* reopen the directory with another one.
Reconfigure ==
    /\ pc = "closed" /\ ~changed
    /\ \E c \in Configs : config' = resolve_checkpoint_cadence(c)
    /\ changed' = TRUE
    /\ UNCHANGED <<disk, temp, foreign, pc, process, refusal, squeezed, stops>>

Next == Open \/ Scan \/ Cleanup \/ Run \/ WriteTemp \/ Install \/ Stop \/ Squeeze
        \/ Reconfigure

Spec == Init /\ [][Next]_vars

-----------------------------------------------------------------------------

\* Once a run has been admitted by preflight_run_completion, no later check of
\* that process (atomic_write's or checkpoint's own) refuses it, unless other
\* programs took the space meanwhile: the estimate covers what is written.
NeverRefusedMidway == refusal = "write" => squeezed

\* While a process works, the directory is within the limits it was given,
\* whatever stopped processes and earlier configurations left in it.
WithinLimits ==
    pc # "closed" =>
        /\ StoredBytes + temp <= config.bytes
        /\ StoredFiles + (IF temp = 0 THEN 0 ELSE 1) <= config.files

\* What the first open() of a run asks for.
FirstFiles == 2 + N + CompletionManifests(N)
FirstBytes == CompletionBytes(N, MetadataBytes)

\* Each stopped process may leave one more manifest, and the last one the
\* results of one interval.
Headroom ==
    /\ config.files >= FirstFiles + stops + config.interval
    /\ config.bytes >= FirstBytes + stops * ManifestEstimate
                         + config.interval * ResultEstimate
    /\ Capacity - foreign >= FirstBytes + stops * ManifestEstimate
                         + config.interval * ResultEstimate + config.free

\* A stopped run is admitted again as long as the limits leave that headroom:
\* restarts cost a bounded amount and no sequence of stops wedges the store.
RestartsAdmitted ==
    Headroom /\ ~changed /\ Valid(config) /\ config.manifest >= ManifestEstimate
             /\ FirstBytes + config.free <= U64Max
        => refusal \notin {"limit", "completion"}
=============================================================================
