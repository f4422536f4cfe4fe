# A TLA+ model of the fault-tolerant Monte Carlo runtime

The program splits a Monte Carlo run into blocks, computes them on worker
threads, and (in a durable run) records every block result and periodic full
snapshots in a run directory, so that a run killed at any point can be resumed
with the same answer. This directory models the parts of that program in which
order, failure and concurrency matter, checks them with TLC on small instances
and proves the most important invariants with TLAPS for every instance.

## 1. The system

| part | state | operations | interacts with |
|---|---|---|---|
| bounded queue (`include/mc/bounded_queue.hpp`) | deque, `closed_`, two condition variables | push, pop, close | called by the engine's threads |
| block engine (`src/runtime/engine.cpp`, `execute_missing_blocks`) | two queues, threads, `first_error`, `workers_remaining`, commit samples | schedule, compute, complete, consume, fail, join | hands each result to a callback of the calling thread |
| coordinator (`src/runtime/coordinator.cpp`) | block universe, incarnation, leases, committed payload hashes | validate, commit, classify rejections | called from the callback |
| durable driver (`run_parallel_durable`) | leaves, received, pending count | restore, consume, checkpoint, finish, fail | engine above, store below |
| durable store (`src/run_store.cpp`) | flock, `run_spec.bin`, manifests, block results, tmp; recovery state in memory | open, record_result, checkpoint | file system; failure injector |
| codec (`src/persistence_codec.cpp`) | none | encode and decode metadata, results, manifests | store |
| block layout, reduction, aggregate | none | make_blocks, reduce_block_results, add, merge | engine, store |
| storage budget (in `run_store.cpp`) | byte and file counters | cadence, completion and write preflight | store |
| failure injection (`src/failure_injection.cpp`) | occurrence counter, trace hash | construct, hit, write and read a replay descriptor | hooks between the steps of every install |
| watchdog, crash matrix, replay (`tools/`) | child process, deadline, covered points | fork, wait with timeout, judge, retain | run the program as a child; read its evidence |
| random numbers and path kernels (`src/rng`, `src/models`) | none | pack a counter, Philox rounds, uniform, draws of a path | the blocks' loops |
| identity and hashing (`src/hash.cpp`) | block buffer, byte count | update, finalize | identities, trace hash |
| metrics, analytic prices, benchmarks, command line | | | |

What is hard here: a process may be killed between any two system calls of an
installation, and several processes may be started on one directory; a file
that is visible may not be durable; a file may be unreadable and recovery falls
back to an older snapshot, while newer names stay taken; threads throw while
others are blocked on full or empty queues; 64-bit identities must not wrap; an
admitted run must not run into its storage limits half way; and the harness that
tests all this has processes, deadlines and evidence files of its own.
`PROJECT.json` lists these hazards at the lines where they bite, with the
properties that cover them.

## 2. Modules

### RunStore: the durable store and its driver

One module for the store and the coordinator loop that drives it, because what
matters is their joint protocol. The directory is `meta`, `manifests`,
`results`, with `newManifests`, `newResults` and `unlinked` for the directory
entries (and removals) that have not been fsynced, and `badManifests`,
`badResults` for rotten files. Each process has a program counter `pc`, the
progress `stage` of its current `atomic_write` or cleanup, the block in hand
and its memory (`recovery_state_` and `durable_results_`). `temps` holds the
processes with a file in `tmp/` and `lock` the flock.

| action | code |
|---|---|
| `OpenStore` | directory creation, flock, sweep of `tmp/`, refusal of a payload without `run_spec.bin` |
| `Scan` (`StartRun`, `LoadTerminal`, `Resume`) | `load_latest_valid_manifest`, overflow checks, choice of incarnation, sequence and leases |
| `RemoveOrphan`, `FinishOpen` | `remove_orphan_block_results`, one unlink at a time, then its fsync; complete and failed stores are dealt with at once |
| `Consume`, `Finish` | the consume callback and the end of `run_parallel_durable` |
| `WriteTemp`, `Rename`, `SyncDirectory` | `atomic_write` |
| `Installed` | what the caller does once `atomic_write` has returned: memory follows the disk, a checkpoint is due, the run ends |
| `Abort`, `Crash` | an exception (temporary removed, lock released); a kill (temporary left behind) |
| `PowerFailure`, `RotManifest`, `RotResult` | environment: any subset of the unsynced directory changes is lost; a file becomes unreadable |

Data are abstracted to what the protocol tells apart. A block's payload is a
function of the block, so a result is its name (block, incarnation, lease
epoch); a manifest is its sequence, incarnation, status, lease table and entry
table; a checksum, hash or aggregate is only intact or not. A poisoned block is
one whose aggregate breaks its own invariants, the rejection the driver's own
workers can produce. I/O errors, refused storage and worker exceptions are all
`Abort`. The engine below is abstracted to "every missing block is delivered
once, in any order", which is what module Engine shows.

`CommitLog` is what the store promises: a partial function from blocks to the
lease they were committed under, that only grows, and a status that ends once.
`RunStore` implements it under the mapping "the snapshot recovery would load
now" (`ImplementsCommitLog`); the rename of a manifest is the commit.

### Engine: worker, scheduler and calling thread

`execute_missing_blocks` step by step: queue operations, `record_error` (whose
two closes are separate steps), the decrement of `workers_remaining` and the
close that follows it, failures to create a thread, joins, and the slots of
`block_commit_ns` that hold a clock marker until the result is consumed. A
queue operation is one step, enabled when its wait predicate holds.

### BoundedQueue: why that one step is justified

The monitor itself: a call enters, may sleep on its condition variable, is sent
back to compete for the mutex by `notify_one`, `notify_all` or spuriously, and
re-checks its predicate; other threads may barge in between.

### Coordinator: which results count

`validate_result` in the order of its checks, `commit_result`,
`is_benign_rejection` and the callback of `run_parallel_durable`, with restarts
that restore the committed payloads from the latest manifest. Results stay in a
pool and may be delivered at any time and any number of times. The program's
own workers deliver a block once per incarnation; the pool models the
at-least-once delivery that the coordinator's interface and tests are written
for. Some results are foreign, broken or wrong. Since leases change only with
the incarnation, the proofs also show that the lease test never decides.

### StorageBudget: can an admitted run be refused?

The completion estimate of `open()`, the check before every write, the counters
that check trusts, and the sizes the codec really writes (a result is 296 bytes
where the estimate says 512, a manifest 269+8n+56c where it says 512+64n, and a
failure record fits as long as its reason has at most 147 bytes). Blocks are only
counted. Stopped processes leave results and one manifest each; other programs
take space; the operator may reopen with another configuration. The rule that
comes out: beyond the first estimate a store needs one manifest per stopped
process and the results of one interval, and with one less it can be shut out,
because orphans are removed only after the next estimate ("Cleanup is
deliberately last" in `open()`).

### BlockLayout and FixedTree: from scenarios to the answer

`BlockLayout` is `make_blocks` and the checks made of its result by
`make_coordinator_state`, `compute_block` and `validate_result`, with the word
and its limit as constants. `FixedTree` adds the leaves that arrive in any order,
`reduce_block_results`, snapshots over gaps, and the comparison of a manifest's
aggregate with a fresh reduction when a run is resumed. Floating-point addition
is not associative, so an aggregate is the term of merges that produced it, and
the result is compared with a recursive reference.

### InjectedRun, Watchdog, CrashMatrix, ReplayTool: the crash harness

`InjectedRun` is a child process: the durable run with a hook between any two
steps of an install (write, fsync, close, rename, directory fsync), the injector
that counts, traces and finally writes its descriptor and dies. A failure point
is the artifact and the stage just reached; the trace is kept whole where the
code keeps its SHA-256. `Watchdog` is `wait_for_child`: the poll, the look at the
clock and the kill are separate steps, and the child may exit between any two.
`CrashMatrix` and `ReplayTool` are the two programs on top. The matrix runs a
case into its failure point, reads the evidence, recovers, judges, removes the
case or stops and keeps it. The replay tool checks the evidence, runs it again in
a directory that must be empty, and compares; several may be started on one
target.

Three consequences of the code show in the model and are allowed for. Evidence
can exist although the child that wrote it threw (the unlink or directory fsync
after the link fails): the child exits with 94, and the matrix stops and keeps
the case. Evidence of a run that had itself been resumed is not reproduced by a
tool that is alone with its empty directory; the verdict is then a mismatch or a
missed hook. And two replay tools that race for one target can spoil each other's
run but not the verdict: "reproduced" is only ever said of evidence that agrees.

### ReplayDescriptor, DurableCodec, Sha256Hasher: texts, files and digests

`ReplayDescriptor` is the text of the evidence, line by line with the spelling of
its values, and a reader for text that was damaged or edited. Against
damage under the old checksum, the checksum and the canonical re-encoding each
suffice; only the latter rejects odd spellings under a correct checksum.
`DurableCodec` has every encoder and decoder of the durable files field by field.
Encoder and decoder agree on what a manifest and a block record may be, but for two
checks that are on one side only. `encode_run_metadata` checks less than its decoder;
what it is given comes from `expected_metadata`, and that is always read back. And
`encode_manifest` refuses a statistics schema other than 1, while `decode_manifest`
only compares the schema of the aggregate with the one in the same file: a manifest
sealed with schema 2 in both places decodes. `validate_manifest_snapshot` refuses it
(`SnapshotFits`), so that `Usable`, what the store goes by, is again what the encoder
can write. `decode_block_record` has no such gap: its digest check encodes the
aggregate again. In both a CRC or digest is what it is
computed from, and a damaged file may be sealed again with a fresh CRC.
`Sha256Hasher` is the incremental hasher up to `transform`: a digest is the
sequence of blocks handed to it. `HashedMessage` is one such hasher with the
assumption on its sizes.

### RngLayout, PathStreams, ExportStream, Philox: random numbers

`RngLayout` packs scenario, step, dimension and draw into a counter with its
range checks; fields are disjoint, so "or" is a sum. `PathStreams` computes
blocks side by side, and again after a restart, keeping a path as the signed
draws it uses in both kernels, singly and in antithetic pairs. `ExportStream` is
the tool that writes a stretch of the stream; `RandomStreams` puts it beside the
blocks, on one layout. `Philox` is the ten rounds and the
conversion to a uniform number, over all counters and keys of a narrow word.

The MC modules name the model values. `MCResults`, `MCFormats` and `MCRandom` put
parts that answer one question side by side: the initial state picks the part,
and the others stand still in that behaviour. Definitions introduced by a comment
"Fault:" are deliberate mistakes, used to confirm that a property can fail; no
specification uses them.

## 3. Runs

| run | instance | shows |
|---|---|---|
| RunStoreCrash | 2 processes, 3 blocks, interval 2, 3 kills or exceptions, fair | temporaries are never swept from under their owner (`TempOwned`); `CommitLog` is implemented (`ImplementsCommitLog`); the run is reported, so the directory can always be reopened (`RunReported`) |
| RunStoreFaults | 1 process, 2 blocks, one perhaps poisoned, identities 0..4, 2 kills, 1 power failure, 2 rotten files | types and overflow checks; evidence durable before it is cited; nothing acknowledged lost; no name taken while a file of that name exists; snapshots of all histories agree; cleanup takes nothing a usable manifest needs; terminal means terminal |
| Engine | 3 workers, 4 blocks, capacities 1 and 2, everyone may throw, fair | a normal return has every block and hides no exception; no block twice; the call ends |
| Queue | 3 producers, 2 consumers, capacity 2, 2 items each, fair | FIFO, no lost wakeup; a close releases everyone |
| Results | 2 blocks, 2 payloads, 3 incarnations, 2 damaged results; and runs of up to 12 scenarios in up to 7 blocks with a restart | a run fails only for cause; disagreement stops the run; a published answer never changes; the program accepts its own work, and reduces it by one tree in any order |
| Storage | 5 blocks, limits from too small to ample, 2 stops, other programs, a changed configuration | an admitted process is never refused half way; limits are kept; restarts are admitted with the stated headroom |
| Matrix | 2 cases in a row, up to 5 blocks, all nine points, 1 I/O error, hanging children, fair | the injection is reached; evidence is durable before death; recovery is exact; no child survives; a pass means coverage; the matrix returns |
| Replay | 3 blocks, every schedule, fresh or resumed; for some schedules 2 tools on one target, 1 I/O error | a replay alone reproduces; a verdict is sound; evidence is never replaced |
| Formats | 180 000 values, right and wrong; two damages, sealed again or not; messages up to 11 bytes in any chunks | what is written is read back, and the store goes by nothing that its encoder refuses; damage is refused and every value has one spelling; the hasher sees the standard blocks |
| Random | both models, plain and antithetic, widths scaled to 16 scenarios, 4 steps, 2 dimensions; 256 counters, 16 keys | no draw shared; samples exact; the export is served and complete; rounds are one-to-one and uniforms lie inside (0, 1) |
| IncarnationReuse, MetadataInstall | violation | section 5 |

Bounds. `MaxFaults`, `MaxPowerFailures` and `MaxRots` cap the failures: two kills
are needed for a recovery of a recovery, two rotten files for a fallback past a
recovery that itself fell back, and power failure needs a preceding crash to
matter for what a dead process left unsynced. Some promises of the store end with
the first rotten file (`DurableTerminalStays`, and of those only proved
`AllManifestsValid` and `IncarnationFresh`) or also with a power failure
(`Reopenable`); they say so by the counters `rots` and `powerFailures`. `U64Max`
is 4 where exhaustion is the question and 20, out of reach, elsewhere. Two blocks
suffice for "one committed, one missing"; three with interval 2 give a result
recorded but not yet checkpointed next to a checkpoint. A queue capacity of one
makes every wait happen. Two damaged results allow a conflict next to a broken or
foreign result, and three incarnations a result that is stale twice over. Storage
limits take both sides of every boundary the estimate has. In Matrix, seeds stand
for every case that `make_case` can build, and five pairs of failure points for
the nine, so that coverage can be met and missed in two cases. In Replay,
`Contested` bounds the schedules that two tools replay at once to the first and
the last boundary of a manifest and its rename, where a child that is killed
leaves a manifest behind. `Perishable` bounds the values whose files are damaged
to a sample of each kind (every value is checked for agreement). The hasher has
blocks of 5 bytes and a length of 2; the counter layout has words of three bits
and bytes of one, so that each limit is reached and exceeded. Replay tools and the
coordinator's blocks are symmetric where no liveness is checked. Deadlock is
checked for RunStore and Storage; the other systems stop when the call, the case
or the message is over.

Fairness. In RunStore, weak fairness of a process's own steps (an operating
system schedules a live process) and of "some process is started", which is an
assumption about the operator, and no fairness of failures. In Engine and
BoundedQueue, weak fairness of each thread's own steps; exceptions and spurious
wakeups are owed to nobody, so a blocked thread cannot be saved by one, and
nobody need ever close the queue. In Matrix the parent and the clock are weakly
fair and the child is not: it may hang, which is what the watchdog is for.

## 4. Theorems

The eight proof modules rest on the specifications as they are run; every failure
bound in them is arbitrary. The inductive invariants were model-checked before
they were proved. A proof has one step per action; steps that install a file are
lemmas of their own.

`RunStoreProofs`, for any processes, any finite nonempty set of blocks, any
interval and width of the identities:

* `TypeCorrect` (`TypeOK`). Needs `InstallReady`: a manifest past the overflow
  test has a sequence within range, and whoever records has a block in hand.
* `WritesCanonicalManifests` (`ManifestsCanonical`). Needs `MemoryLeased`: from
  the scan on, a process's memory would itself pass `decode_manifest`.
* `EvidenceIsDurable` (`EvidenceBeforeManifest`) and `NamesAreFresh`
  (`FreshNames`), from one invariant, `FreshInv`. Its parts: the flock admits
  one live process (`LockOwned`); an entry's incarnation is at most its
  manifest's sequence (`ManifestBounded`), which is why
  `highest_sequence_seen + 1` exceeds every incarnation that occurs in an entry
  even though it may repeat one that a manifest announced; the process is ahead
  of every sequence on disk (`SequenceAhead`); what the directory holds of its
  incarnation it has in memory (`EntriesKnown`, `ResultsKnown`); and what it
  has in memory is durable (`ResultsDurable`).
* `AcknowledgedForEver` (`AckedSurvives`) and `TemporariesSafe` (`TempOwned`),
  from `AckInv`.

The second half of the module is about recovery. A manifest is recoverable exactly
if it and its results are intact, and the memory of a process that has loaded
contains every intact manifest. Hence `CommitsGrow` (`CommitsMonotone`) and
`ValidStaysValid` (`ValidNeverShrinks`) under any crashes, power failures and rot,
and `AllUsable` (`AllManifestsValid`) and `IncarnationsAreFresh`
(`IncarnationFresh`) until a file rots. Further, sequences are unique, a terminal
manifest is the last, what is new lies on top, and only an unfinished store is
worked on (`EndInv`, until rot); there is a last manifest, it is known to the
process, and `run_spec.bin` with it (`LogInv`, until a power failure too). Hence
`TerminalStays` (`DurableTerminalStays`), `CanBeReopened` (`Reopenable`), and
`StoreIsCommitLog`: with neither rot nor power failures every step of the store is
a step of `CommitLog` or a stutter.

`EngineProofs`, for any blocks, workers, capacities and exceptions: `TypeCorrect`,
`BlocksExactlyOnce` (`ExactlyOnce`), `ReturnsComplete` (`CleanReturn`) and
`MarkersCleared` (`NoMarkerExposed`). Three layers: counts and the item in hand
(`Base`); the assignment queue is a segment of the missing blocks, and every
block is in one place (`Placed`); who has left, which error was recorded, who
closes last and where the blocks have gone (`Ending`, `Clean`).

`BoundedQueueProofs`, for any finite sets of threads, capacity and calls:
`TypeCorrect`, `OrderKept` (`FirstInFirstOut`), `NoLostWakeup`
(`WakeupsSuffice`), by counting the awake threads of each kind.

`CoordinatorProofs`, for any blocks, payloads, restarts and damage:
`TypeCorrect`, `NondeterminismStopsTheRun` (`OneAnswer`), `FailureHasCause`
(`FailsOnlyForCause`), `CommitsAreSupported` (`CommitsSupported`) and
`SnapshotsAreStable` (`SnapshotStable`). The invariant adds that results of the
current incarnation carry its leases (`LeasesCurrent`), that the table contains
the manifest (`SnapshotKept`), and that whatever was heard and not refused is
what is committed (`HeardCommitted`), without which `OneAnswer` is not
inductive.

`PathStreamsProofs`, with the block layout, for every word width, specification
and block size (`WordAssumption`, `ScenariosAssumption`, `LayoutAssumption`,
`SpecsAssumption`): `MakeBlocksPartitions`, `CoordinatorAcceptsBlocks`,
`CountersDiffer`, `NeverThrowsTheorem`, `SamplesExactTheorem`,
`StreamsApartTheorem`. The invariant says that each block's loop stands right
after what it has added. Two more parts rest on the same arithmetic of cuts and
are instances in this module:

* `ExportIsComplete` (`ExportCovers`), for every width and every request of
  natural numbers (`RequestsAssumption`). What is written is the beginning of what
  was asked for (`ExportInv`); the tool's check of the last scenario bounds every
  quotient before it (`QuotientGrows`, `WordsFit`), and a counter gives back
  scenario and dimension, hence the index (`WordsDiffer`).
* `HashIsOfMessage` (`DigestOfMessage`), for every block size, length size and
  alphabet, under `HasherAssumption`: the length field fits a block and can
  express the longest message, which is where FIPS 180-4 defines the hash (the
  prover knows nothing of powers, so that one is a number is assumed too).
  `HashInv`: the whole blocks of the message have been transformed, the rest is at
  the beginning of the buffer, and nothing is said of what the buffer holds behind
  it. The three cases of a top-up (`CopiedCases`) are joined by one lemma about
  blocks of adjacent pieces (`BlocksJoin`), which also carries `finalize()`.

`StorageBudgetProofs`, for any number of blocks, configurations, sizes and stops
(beyond that the constants are numbers, a failure reason has at most 147 bytes):
`AdmittedRunsFinish` (`NeverRefusedMidway`), `LimitsKept` (`WithinLimits`) and
`RestartsAreAdmitted` (`RestartsAdmitted`). `Local` says where a process is
between two checkpoints and that its counters are what the directory holds.
`Budget` bounds what an admitted process may still write, the results it lacks
and a manifest for each interval among them, by what the limits leave; a
checkpoint pays for its manifest with the interval that led to it (`QuotientStep`).
`Paid` counts the manifests of all processes so far: with the headroom stated, no
more than the first estimate allows and one for each stop.

`CrashMatrixProofs`, for any number of blocks, cases and failure points
(`ApartAssumption`: the value that stands for "no failure point" and "no exit
code" is neither of them): `HooksAreReached` (`InjectionReached`),
`EvidenceIsDurable` (`EvidenceBeforeDeath`), `RecoveryIsExact` (`RecoveryExact`),
`ChildrenAreReaped` (`NoChildLeft`) and `PassingIsCoverage`
(`PassMeansCovered`). `Life` relates matrix, watchdog and child; `Assigned` gives
the child its case. `Count` is why a hook is always met: the hits are at least
the artifacts installed so far plus one if the current install is past the hook
(`Met`), the first periodic checkpoint comes before the last block because
`make_case` keeps the interval below the number of blocks, and so a run that is
over has recorded three results and written three manifests, two of them
followed by the hook after the install. `Log`, `Ahead` and `Memory` are why
recovery is exact: the latest manifest is unique, the child is ahead of it, what
it remembers is one entry for each block it has, and a run that returns has a
complete manifest on top, so the second open finds it (`Reported`).

`ReplayToolProofs`, for any number of replay tools on one target, any schedules,
workers, blocks, timeouts and I/O errors (`VerdictsAssumption`: no verdict yet is
not a verdict): `VerdictsAreSound` (`VerdictSound`) and `EvidenceStands`
(`EvidenceImmutable`). The argument is that the trace of a child that found no
manifest tells everything in its directory: `Fresh` says that the visible results
and manifests are those whose rename the trace has recorded (`ResultsOf`,
`ManifestsOf`), and that memory is behind by at most the result being installed.
Which children this is about can be read off the trace itself, because only a
first manifest has sequence 0 (`Clean`). `Owned` and `Tool` keep the directories
apart: who has opened one holds its lock, so no other tool's step touches what its
trace tells. `Linked` says that from `link()` on the descriptor is the child's own
and the site noted with it is what the trace tells. A verdict then compares the
traces of two children that both began with sequence 0, and so their directories.
The proof attempt corrected the property: with a resumed original and two tools,
a trace can be reproduced over other orphans (section 6).

The second half of the module proves `ReplaysReproduce` (`AloneReproduces`): a
fresh run's failure is reproduced by a replay that is alone in its directory, in
time and free of I/O errors, for every number of blocks, interval, failure point
and occurrence. `VerdictSound` says that a tool claims no reproduction wrongly;
this says that it does not deny one. A child with one worker follows a script:
four events of the first manifest, four for each result, five for each checkpoint,
one checkpoint after every interval and one at the end. `Placed` says which event
may stand at a place of the script; that it is only one is arithmetic (`OnePlace`:
the number of blocks and checkpoints before a place is determined by the place).
`Follows` says where in the script a child is, from its memory alone, that its hits
are the places of its trace that match the failure point, and that it dies at the
one that was asked for. Two scripted traces that end at the same hit are therefore
equal (`OneTrace`). The script has an end, so a replay might miss the hit: it does
not, because the original met it (`AllMet`). `Fixed` adds, over the invariant of
the first half, that a fresh original is such a child, and that a
replay for which the hypotheses hold so far (`Alone`) was asked for what the
evidence says, found no manifest and no evidence in its target, and can only have
died at its hit, by its watchdog or not yet (`Solo`). That such a replay is not
refused either is `NotRefused`: nobody has been in the target (`Unvisited`), and the
evidence of a fresh run says one worker, the cadence that was resolved and an
occurrence above zero, which is what the reader asks for.

Some of these say more than the runs list, and are left to the proofs: type
correctness of the engine, the queue and the coordinator, `ManifestsCanonical`,
`AllManifestsValid`, `IncarnationFresh`, `Reopenable`, `NoMarkerExposed`,
`CommitsSupported`, `NeverThrows`, and the two theorems about block layouts.

Model-checked only: everything under fairness (`RunReported`, `Terminates`,
`CloseReleasesAll`, `MatrixReturns`) and ENABLED, which the prover does not
handle; the reduction, which is recursive; Philox, whose rounds are bitwise; the
codecs (`CodecsAgree`, `OneSpellingEach`), because the committed table is flattened
and digests are folded over words, so that a proof needs induction over data.

## 5. Where the documents and the code differ

* `docs/R2_DURABLE_RECOVERY.md:78` says the sequence high-water mark "prevents an
  incarnation collision even when the latest manifest is corrupt". It does not
  (run IncarnationReuse): sequence 0 has incarnation 1, the first recovery
  writes sequence 1 with incarnation 2, and if that manifest rots the next one
  computes max(1+1, 1+1) = 2 again. `NamesAreFresh`
  shows that no file is overwritten by it: what the first use left is removed before
  the name is taken again.
* `docs/R2_DURABLE_RECOVERY.md:41-48` says each file is installed by the whole
  protocol. A process killed between the rename and the directory fsync of
  `run_spec.bin` leaves it unsynced, and the next `open()` finds it and goes on
  without ever syncing the run directory (run MetadataInstall). After a later
  power failure the directory may hold a payload and no `run_spec.bin`, which
  `open()` refuses.

## 6. Not modelled, and limits

* A replay of a run that was itself resumed starts from an empty directory, so
  it reproduces at best the trace, never the orphans the original found. Two tools
  on one target can make that happen: the child of one is killed between rename
  and link, the other resumes what it left, and the traces agree. `VerdictSound`
  therefore promises equal directories for fresh originals only.
* A power failure after the `Complete` manifest was renamed but before it was
  synced may undo it: `CommitLog` is therefore checked without power failures,
  and `AckedSurvives` and `DurableTerminalStays` say what holds with them.
* The entries of the run directory and its subdirectories in their parents,
  and rot of `run_spec.bin`, are not modelled.
* In RunStore, write and fsync of a temporary are one step (a temporary is never
  read); InjectedRun has them apart.
* Floating point: path prices and payoffs, the moments of an aggregate (and so a
  merge that throws because a moment is not finite), the analytic prices, the
  inverse normal, and the statistics of the checkpoint gate. A count cannot
  overflow in a merge: a run has at most 2^40 scenarios.
* The rounds of SHA-256 and the text of the build identity. The hasher's byte
  count wraps at 2^61 bytes, which nothing reaches.
* In the harness: the test that the evidence lies outside the run directory, the
  topology statistics of long matrices, the search for the executable, a failure
  of `remove_all`, and the range check of the timeout.
* Timing metrics, argument parsing and printing; `run_simulation` and the
  benchmarks call the modelled operations in sequence and keep no state.

## 7. What could follow

1. Power failures and rot in one instance of the refinement, against an abstract
   log that may forget what was not acknowledged.
