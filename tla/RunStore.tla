------------------------------ MODULE RunStore ------------------------------
(***************************************************************************)
(* The durable run store (src/run_store.cpp) driven by the coordinator     *)
(* loop of run_parallel_durable (src/runtime/engine.cpp).                  *)
(*                                                                         *)
(* Several processes may be started on one run directory; an flock admits  *)
(* one at a time.  The directory holds run_spec.bin, immutable manifests   *)
(* named by a sequence number and immutable block results named by block,  *)
(* incarnation and lease epoch.  Every file is installed by writing and    *)
(* fsyncing a temporary, renaming it into place and fsyncing the           *)
(* directory.  Between any two of those steps the process may throw or be  *)
(* killed, or the machine may lose power; installed bytes may also rot.    *)
(*                                                                         *)
(* Abstractions.  A payload is a function of its block (the computation is *)
(* deterministic), so a result file is its name; a rotten file is a name   *)
(* in badManifests or badResults.  Hashes, the aggregate and the envelope  *)
(* checksum are the difference between a good and a rotten file.  The      *)
(* engine delivers every missing block once, in any order (module Engine). *)
(* Storage limits, I/O errors and worker exceptions are all the action     *)
(* Abort, an exception that unwinds through the store's destructor.        *)
(***************************************************************************)
EXTENDS Naturals, FiniteSets

CONSTANTS
    Procs,             \* processes started on the run directory
    None,              \* no process, no block
    Blocks,            \* block identifiers of the run
    PoisonBlocks,      \* blocks whose aggregate may break its own invariants
    Interval,          \* checkpoint_interval_blocks after cadence resolution
    U64Max,            \* largest value of a uint64_t identity
    MaxFaults,         \* bound on exceptions and process deaths
    MaxPowerFailures,  \* bound on power failures
    MaxRots            \* bound on files that rot

ASSUME NoneAssumption == None \notin Procs \cup Blocks
ASSUME BlocksAssumption == IsFiniteSet(Blocks) /\ Blocks # {}
ASSUME PoisonAssumption == PoisonBlocks \subseteq Blocks
ASSUME IntervalAssumption == Interval \in Nat \ {0}
ASSUME U64Assumption == U64Max \in Nat \ {0}
ASSUME BudgetAssumption == {MaxFaults, MaxPowerFailures, MaxRots} \subseteq Nat

VARIABLES
    meta,         \* run_spec.bin: "absent", "renamed" or "durable"
    manifests,    \* installed manifests, full snapshots
    results,      \* names of installed block results
    newManifests, \* sequences whose directory entry is not yet fsynced
    newResults,   \* result names whose directory entry is not yet fsynced
    unlinked,     \* result names removed, the removal not yet fsynced
    badManifests, \* sequences of rotten manifests
    badResults,   \* names of rotten results
    temps,        \* processes whose temporary file is in tmp/
    lock,         \* holder of the flock on .coordinator.lock
    pc,           \* what each process is doing
    stage,        \* how far its current install or cleanup has come
    hold,         \* block whose completion the coordinator is consuming
    mem,          \* recovery_state_, durable_results_ of each process
    acked,        \* history: sequences whose install was acknowledged
    reported,     \* history: some process returned a complete run
    faults, powerFailures, rots

disk == <<meta, manifests, results, newManifests, newResults, unlinked,
          badManifests, badResults>>
volatile == <<temps, lock, pc, stage, hold, mem>>
history == <<acked, reported>>
budgets == <<faults, powerFailures, rots>>
vars == <<disk, volatile, history, budgets>>

-----------------------------------------------------------------------------
(* Identities and records *)

U64 == 0 .. U64Max

\* A lease: the incarnation and lease epoch a result was computed under.
Stamp == [inc : U64, epoch : U64]
Absent == [inc |-> 0, epoch |-> 0]

\* The name of a block-result file.
Name == Blocks \X Stamp

Status == {"running", "complete", "failed"}

Manifest == [seq : U64, inc : U64, status : Status,
             leases : [Blocks -> U64], entries : [Blocks -> Stamp]]

\* recovery_state_ (seq, inc, status, leases, committed) and durable_results_.
Memory == [seq : U64, inc : U64, status : Status, leases : [Blocks -> U64],
           committed : [Blocks -> Stamp], durable : [Blocks -> Stamp]]

NoMemory == [seq |-> 0, inc |-> 0, status |-> "running",
             leases |-> [b \in Blocks |-> 0],
             committed |-> [b \in Blocks |-> Absent],
             durable |-> [b \in Blocks |-> Absent]]

Present(entries) == {b \in Blocks : entries[b] # Absent}

\* The result files a snapshot names.
Names(entries) == {<<b, entries[b]>> : b \in Present(entries)}

\* Processes writing a manifest, and processes inside atomic_write.
ManifestPcs == {"initial", "recovery", "checkpoint", "finish", "fail"}
InstallPcs == ManifestPcs \cup {"meta", "record"}
Pcs == InstallPcs \cup {"down", "scan", "cleanup", "running"}
Stages == {"begin", "tmp", "renamed", "synced", "removed"}

-----------------------------------------------------------------------------
(* Reading the store back *)

\* decode_manifest: the canonical form every loaded manifest must have.
Canonical(m) ==
    /\ m.inc # 0
    /\ \A b \in Blocks : m.leases[b] # 0
    /\ \A b \in Present(m.entries) :
        /\ m.entries[b].inc # 0
        /\ m.entries[b].epoch # 0
        /\ m.entries[b].inc <= m.inc
        /\ m.entries[b].epoch <= m.leases[b]
        /\ m.entries[b].inc = m.inc => m.entries[b].epoch = m.leases[b]
    /\ m.status = "complete" => Present(m.entries) = Blocks

\* validate_manifest_snapshot: every named result is there and intact.
Evidence(m) == Names(m.entries) \subseteq results \ badResults

Valid(m) == m.seq \notin badManifests /\ Canonical(m) /\ Evidence(m)

\* load_latest_valid_manifest: candidates are tried from the highest
\* sequence down, and the first valid one is taken.
LatestValid(m) ==
    /\ m \in manifests
    /\ Valid(m)
    /\ \A n \in manifests : Valid(n) => n.seq <= m.seq

\* highest_sequence_seen, which counts the rotten manifests too.
HighestSequence(s) ==
    /\ \E m \in manifests : m.seq = s
    /\ \A m \in manifests : m.seq <= s

Payload == manifests # {} \/ results # {}

-----------------------------------------------------------------------------
(* What a process writes *)

NextIncarnation(inc, highest) == IF inc >= highest THEN inc + 1 ELSE highest + 1

\* Fault: the sequence is counted from the loaded manifest, not the highest.
SequenceAfterLoaded(loaded, highest) == loaded + 1

NextSequence(loaded, highest) == highest + 1

NextLeases(leases) == [b \in Blocks |-> leases[b] + 1]

DraftSequence(p) ==
    IF pc[p] \in {"initial", "recovery"} THEN mem[p].seq ELSE mem[p].seq + 1

DraftStatus(p) ==
    CASE pc[p] = "finish" -> "complete"
      [] pc[p] = "fail" -> "failed"
      [] OTHER -> "running"

\* The manifest that make_manifest_from_results or checkpoint() builds.
Draft(p) ==
    [seq |-> DraftSequence(p), inc |-> mem[p].inc, status |-> DraftStatus(p),
     leases |-> mem[p].leases, entries |-> mem[p].durable]

\* The lease under which this process computes block b.
Lease(p, b) == [inc |-> mem[p].inc, epoch |-> mem[p].leases[b]]

\* block_path_for: the file a completion of block hold[p] goes to.
ResultName(p) == <<hold[p], Lease(p, hold[p])>>

\* atomic_write finds its final path taken.
TargetExists(p) ==
    \/ pc[p] \in ManifestPcs /\ \E m \in manifests : m.seq = DraftSequence(p)
    \/ pc[p] = "record" /\ ResultName(p) \in results

\* ... and holding the very bytes it was about to write.
TargetMatches(p) ==
    \/ /\ pc[p] \in ManifestPcs
       /\ Draft(p) \in manifests
       /\ DraftSequence(p) \notin badManifests
    \/ pc[p] = "record" /\ ResultName(p) \in results \ badResults

\* checkpoint() refuses to move past the last sequence.
SequenceExhausted(p) == DraftSequence(p) > U64Max

\* pending_since_checkpoint: results recorded but named by no manifest yet.
Pending(m) == Cardinality(Present(m.durable) \ Present(m.committed))

CheckpointDue(m) ==
    Pending(m) >= Interval /\ Present(m.durable) # Blocks

\* Fault: whatever an earlier incarnation computed counts as an orphan.
OrphansOfEarlierIncarnations(p) == {n \in results : n[2].inc # mem[p].inc}

\* remove_orphan_block_results: names the loaded snapshot does not reference.
Orphans(p) == results \ Names(mem[p].committed)

-----------------------------------------------------------------------------
(* Steps common to several operations *)

Goto(p, where) ==
    /\ pc' = [pc EXCEPT ![p] = where]
    /\ stage' = [stage EXCEPT ![p] = "begin"]

\* The process is gone: its memory is lost and the kernel drops its flock.
Exit(p) ==
    /\ Goto(p, "down")
    /\ lock' = None
    /\ hold' = [hold EXCEPT ![p] = None]
    /\ mem' = [mem EXCEPT ![p] = NoMemory]

\* Fault: the directory fsync is forgotten.
ResultsNotSynced == UNCHANGED <<newResults, unlinked>>
ManifestsNotSynced == UNCHANGED newManifests

\* fsync of block_results/ and of manifests/: all their entries are durable.
SyncResults == newResults' = {} /\ unlinked' = {}
SyncManifests == newManifests' = {}

Init ==
    /\ meta = "absent"
    /\ manifests = {} /\ results = {}
    /\ newManifests = {} /\ newResults = {} /\ unlinked = {}
    /\ badManifests = {} /\ badResults = {}
    /\ temps = {} /\ lock = None
    /\ pc = [p \in Procs |-> "down"]
    /\ stage = [p \in Procs |-> "begin"]
    /\ hold = [p \in Procs |-> None]
    /\ mem = [p \in Procs |-> NoMemory]
    /\ acked = {} /\ reported = FALSE
    /\ faults = 0 /\ powerFailures = 0 /\ rots = 0

-----------------------------------------------------------------------------
(* DurableRunStore::open *)

\* Fault: the directory is used without its flock.
LockIgnored(p) == TRUE

\* ScopedRunLock takes the flock without waiting.
LockFree(p) == lock = None

\* metadata_existed decides whether run_spec.bin is installed first.
AfterLock == IF meta = "absent" THEN "meta" ELSE "scan"

\* The flock is taken, stale temporaries are removed, and run_spec.bin is
\* looked for.  A directory with a payload but no run_spec.bin is refused.
OpenStore(p) ==
    /\ pc[p] = "down"
    /\ LockFree(p)
    /\ temps' = {}
    /\ IF meta = "absent" /\ Payload
         THEN UNCHANGED <<lock, pc, stage>>
         ELSE /\ lock' = p
              /\ Goto(p, AfterLock)
    /\ UNCHANGED <<disk, hold, mem, history, budgets>>

\* The first manifest of a run: sequence 0, incarnation 1, lease epoch 1.
StartRun(p) ==
    /\ manifests = {}
    /\ Goto(p, "initial")
    /\ mem' = [mem EXCEPT ![p] =
                [NoMemory EXCEPT !.inc = 1, !.leases = [b \in Blocks |-> 1]]]
    /\ UNCHANGED <<lock, hold>>

\* A terminal snapshot is loaded as it is.
LoadTerminal(p, m) ==
    /\ Goto(p, "cleanup")
    /\ mem' = [mem EXCEPT ![p] =
                [seq |-> m.seq, inc |-> m.inc, status |-> m.status,
                 leases |-> m.leases,
                 committed |-> m.entries, durable |-> m.entries]]
    /\ UNCHANGED <<lock, hold>>

\* Fault: the blocks that the snapshot commits are not taken over.
ResumeAfresh(p, m, highest) ==
    /\ Goto(p, "recovery")
    /\ mem' = [mem EXCEPT ![p] =
                [NoMemory EXCEPT !.seq = NextSequence(m.seq, highest),
                                 !.inc = NextIncarnation(m.inc, highest),
                                 !.leases = NextLeases(m.leases)]]
    /\ UNCHANGED <<lock, hold>>

\* A running snapshot is resumed under a new incarnation and new leases.
Resume(p, m, highest) ==
    /\ Goto(p, "recovery")
    /\ mem' = [mem EXCEPT ![p] =
                [seq |-> NextSequence(m.seq, highest),
                 inc |-> NextIncarnation(m.inc, highest),
                 status |-> "running",
                 leases |-> NextLeases(m.leases),
                 committed |-> m.entries, durable |-> m.entries]]
    /\ UNCHANGED <<lock, hold>>

\* Fault: recovery trusts its counters never to wrap.
NeverExhausted(m, highest) == FALSE

IdentityExhausted(m, highest) ==
    \/ m.inc = U64Max
    \/ highest = U64Max
    \/ \E b \in Blocks : m.leases[b] = U64Max

\* Fault: a terminal snapshot is resumed like a running one.
ResumeAlways(p, m, highest) ==
    IF IdentityExhausted(m, highest) THEN Exit(p) ELSE Resume(p, m, highest)

Recover(p, m, highest) ==
    IF m.status # "running" THEN LoadTerminal(p, m)
    ELSE IF IdentityExhausted(m, highest) THEN Exit(p)
    ELSE Resume(p, m, highest)

\* load_latest_valid_manifest and the decision it feeds.
Scan(p) ==
    /\ pc[p] = "scan"
    /\ \/ StartRun(p)
       \/ \E m \in manifests, s \in U64 :
            LatestValid(m) /\ HighestSequence(s) /\ Recover(p, m, s)
       \/ /\ manifests # {}
          /\ \A m \in manifests : ~Valid(m)
          /\ Exit(p)
    /\ UNCHANGED <<disk, temps, history, budgets>>

\* remove_orphan_block_results unlinks the orphans one by one, ...
RemoveOrphan(p) ==
    /\ pc[p] = "cleanup"
    /\ \E n \in Orphans(p) :
        /\ results' = results \ {n}
        /\ newResults' = newResults \ {n}
        /\ unlinked' = unlinked \cup {n}
    /\ stage' = [stage EXCEPT ![p] = "removed"]
    /\ UNCHANGED <<meta, manifests, newManifests, badManifests, badResults,
                   temps, lock, pc, hold, mem, history, budgets>>

\* Fault: every terminal store is refused, a complete one too.
NeverLoadedComplete(p) == FALSE

\* A complete snapshot is reduced and returned without starting workers.
LoadedComplete(p) == mem[p].status = "complete"

\* ... fsyncs the directory if it removed any, and open() returns: a complete
\* run is reported at once, a failed one throws, a running one goes to work.
FinishOpen(p) ==
    /\ pc[p] = "cleanup"
    /\ Orphans(p) = {}
    /\ IF stage[p] = "removed"
         THEN SyncResults
         ELSE UNCHANGED <<newResults, unlinked>>
    /\ reported' = (reported \/ LoadedComplete(p))
    /\ IF mem[p].status = "running"
         THEN Goto(p, "running") /\ UNCHANGED <<lock, hold, mem>>
         ELSE Exit(p)
    /\ UNCHANGED <<meta, manifests, results, newManifests, badManifests,
                   badResults, temps, acked, budgets>>

-----------------------------------------------------------------------------
(* The coordinator loop of run_parallel_durable *)

\* A completion is popped and validated.  An aggregate that breaks its own
\* invariants stops the run with a failed checkpoint; any other one goes to
\* record_result.
Consume(p, b) ==
    /\ pc[p] = "running"
    /\ b \notin Present(mem[p].durable)
    /\ hold' = [hold EXCEPT ![p] = b]
    /\ \/ Goto(p, "record")
       \/ b \in PoisonBlocks /\ Goto(p, "fail")
    /\ UNCHANGED <<disk, temps, lock, mem, history, budgets>>

\* Every block has been received: the complete checkpoint follows.
Finish(p) ==
    /\ pc[p] = "running"
    /\ Present(mem[p].durable) = Blocks
    /\ Goto(p, "finish")
    /\ UNCHANGED <<disk, temps, lock, hold, mem, history, budgets>>

-----------------------------------------------------------------------------
(* atomic_write, for run_spec.bin, a result or a manifest *)

\* An immutable file that is already there is left alone if it holds the same
\* bytes, and refused otherwise; else the temporary is written and fsynced.
WriteTemp(p) ==
    /\ pc[p] \in InstallPcs
    /\ stage[p] = "begin"
    /\ IF \/ pc[p] \in ManifestPcs /\ SequenceExhausted(p)
          \/ TargetExists(p) /\ ~TargetMatches(p)
         THEN Exit(p) /\ UNCHANGED temps
       ELSE /\ IF TargetExists(p)
                 THEN /\ stage' = [stage EXCEPT ![p] = "synced"]
                      /\ UNCHANGED temps
                 ELSE /\ stage' = [stage EXCEPT ![p] = "tmp"]
                      /\ temps' = temps \cup {p}
            /\ UNCHANGED <<lock, pc, hold, mem>>
    /\ UNCHANGED <<disk, history, budgets>>

InstallMetadata(p) ==
    /\ pc[p] = "meta"
    /\ meta' = "renamed"
    /\ UNCHANGED <<manifests, newManifests, badManifests>>
    /\ UNCHANGED <<results, newResults, badResults, unlinked>>

InstallResult(p) ==
    /\ pc[p] = "record"
    /\ results' = results \cup {ResultName(p)}
    /\ newResults' = newResults \cup {ResultName(p)}
    /\ badResults' = badResults \ {ResultName(p)}
    /\ unlinked' = unlinked \ {ResultName(p)}
    /\ UNCHANGED <<meta, manifests, newManifests, badManifests>>

InstallManifest(p) ==
    /\ pc[p] \in ManifestPcs
    /\ manifests' = {m \in manifests : m.seq # DraftSequence(p)} \cup {Draft(p)}
    /\ newManifests' = newManifests \cup {DraftSequence(p)}
    /\ badManifests' = badManifests \ {DraftSequence(p)}
    /\ UNCHANGED <<meta, results, newResults, badResults, unlinked>>

\* rename() makes the file visible under its final name, whole.
Rename(p) ==
    /\ pc[p] \in InstallPcs
    /\ stage[p] = "tmp"
    /\ p \in temps
    /\ InstallMetadata(p) \/ InstallResult(p) \/ InstallManifest(p)
    /\ temps' = temps \ {p}
    /\ stage' = [stage EXCEPT ![p] = "renamed"]
    /\ UNCHANGED <<lock, pc, hold, mem, history, budgets>>

\* fsync of the destination directory: all its entries become durable.
SyncDirectory(p) ==
    /\ pc[p] \in InstallPcs
    /\ stage[p] = "renamed"
    /\ IF pc[p] = "meta" THEN meta' = "durable" ELSE UNCHANGED meta
    /\ IF pc[p] \in ManifestPcs THEN SyncManifests ELSE UNCHANGED newManifests
    /\ IF pc[p] = "record"
         THEN SyncResults
         ELSE UNCHANGED <<newResults, unlinked>>
    /\ stage' = [stage EXCEPT ![p] = "synced"]
    /\ UNCHANGED <<manifests, results, badManifests, badResults,
                   temps, lock, pc, hold, mem, history, budgets>>

-----------------------------------------------------------------------------
(* atomic_write has returned: memory follows the disk *)

MetadataInstalled(p) ==
    /\ pc[p] = "meta"
    /\ Goto(p, "scan")
    /\ UNCHANGED <<lock, hold, mem, history>>

\* durable_results_, committed_payloads and received gain the block in hand.
WithResult(p) ==
    [mem[p] EXCEPT !.durable = [@ EXCEPT ![hold[p]] = Lease(p, hold[p])]]

\* record_result and commit_result; a checkpoint follows when one is due.
ResultRecorded(p) ==
    /\ pc[p] = "record"
    /\ mem' = [mem EXCEPT ![p] = WithResult(p)]
    /\ Goto(p, IF CheckpointDue(WithResult(p)) THEN "checkpoint" ELSE "running")
    /\ hold' = [hold EXCEPT ![p] = None]
    /\ UNCHANGED <<lock, history>>

\* The initial or the recovery manifest is in place; cleanup is next.
RunOpened(p) ==
    /\ pc[p] \in {"initial", "recovery"}
    /\ acked' = acked \cup {DraftSequence(p)}
    /\ Goto(p, "cleanup")
    /\ UNCHANGED <<lock, hold, mem, reported>>

\* A periodic checkpoint moves recovery_state_ forward.
CheckpointTaken(p) ==
    /\ pc[p] = "checkpoint"
    /\ acked' = acked \cup {DraftSequence(p)}
    /\ mem' = [mem EXCEPT ![p].seq = DraftSequence(p),
                          ![p].committed = mem[p].durable]
    /\ Goto(p, "running")
    /\ UNCHANGED <<lock, hold, reported>>

\* After a terminal checkpoint run_parallel_durable returns the run, or
\* throws if the checkpoint recorded a failure.
RunEnded(p) ==
    /\ pc[p] \in {"finish", "fail"}
    /\ acked' = acked \cup {DraftSequence(p)}
    /\ reported' = (reported \/ pc[p] = "finish")
    /\ Exit(p)

Installed(p) ==
    /\ stage[p] = "synced"
    /\ \/ MetadataInstalled(p)
       \/ ResultRecorded(p)
       \/ RunOpened(p)
       \/ CheckpointTaken(p)
       \/ RunEnded(p)
    /\ UNCHANGED <<disk, temps, budgets>>

-----------------------------------------------------------------------------
(* Failures *)

\* An exception anywhere unwinds: atomic_write removes its temporary and the
\* destructor releases the flock.  What was renamed stays renamed.
Abort(p) ==
    /\ pc[p] # "down"
    /\ faults < MaxFaults
    /\ faults' = faults + 1
    /\ temps' = temps \ {p}
    /\ Exit(p)
    /\ UNCHANGED <<disk, history, powerFailures, rots>>

\* The process is killed: its temporary file stays behind.
Crash(p) ==
    /\ pc[p] # "down"
    /\ faults < MaxFaults
    /\ faults' = faults + 1
    /\ Exit(p)
    /\ UNCHANGED <<disk, temps, history, powerFailures, rots>>

\* Power failure: of the directory changes not yet fsynced, any may be lost.
PowerFailure ==
    /\ powerFailures < MaxPowerFailures
    /\ powerFailures' = powerFailures + 1
    /\ meta' \in IF meta = "renamed" THEN {"absent", "durable"} ELSE {meta}
    /\ \E lost \in SUBSET newManifests :
        manifests' = {m \in manifests : m.seq \notin lost}
    /\ \E lost \in SUBSET newResults, back \in SUBSET unlinked :
        results' = (results \ lost) \cup back
    /\ temps' \in SUBSET temps
    /\ newManifests' = {} /\ newResults' = {} /\ unlinked' = {}
    /\ lock' = None
    /\ pc' = [p \in Procs |-> "down"]
    /\ stage' = [p \in Procs |-> "begin"]
    /\ hold' = [p \in Procs |-> None]
    /\ mem' = [p \in Procs |-> NoMemory]
    /\ UNCHANGED <<badManifests, badResults, history, faults, rots>>

\* A file loses its integrity in place.
RotManifest ==
    /\ rots < MaxRots
    /\ rots' = rots + 1
    /\ \E m \in manifests :
        m.seq \notin badManifests /\ badManifests' = badManifests \cup {m.seq}
    /\ UNCHANGED <<meta, manifests, results, newManifests, newResults, unlinked,
                   badResults, volatile, history, faults, powerFailures>>

RotResult ==
    /\ rots < MaxRots
    /\ rots' = rots + 1
    /\ \E n \in results \ badResults : badResults' = badResults \cup {n}
    /\ UNCHANGED <<meta, manifests, results, newManifests, newResults, unlinked,
                   badManifests, volatile, history, faults, powerFailures>>

-----------------------------------------------------------------------------

\* The steps of one process that its own code takes.
Work(p) ==
    \/ Scan(p) \/ RemoveOrphan(p) \/ FinishOpen(p)
    \/ (\E b \in Blocks : Consume(p, b)) \/ Finish(p)
    \/ WriteTemp(p) \/ Rename(p) \/ SyncDirectory(p) \/ Installed(p)

Next ==
    \/ \E p \in Procs : OpenStore(p) \/ Work(p) \/ Abort(p) \/ Crash(p)
    \/ PowerFailure \/ RotManifest \/ RotResult

Spec == Init /\ [][Next]_vars

\* An operating system keeps scheduling a live process, and an operator who
\* finds the run unfinished starts it again.
Fairness ==
    /\ \A p \in Procs : WF_vars(Work(p))
    /\ WF_vars(\E p \in Procs : OpenStore(p))

FairSpec == Spec /\ Fairness
-----------------------------------------------------------------------------
(* Correctness *)

DiskTypes ==
    /\ meta \in {"absent", "renamed", "durable"}
    /\ manifests \subseteq Manifest
    /\ results \subseteq Name
    /\ newManifests \subseteq U64 /\ badManifests \subseteq U64
    /\ newResults \subseteq Name /\ unlinked \subseteq Name
    /\ badResults \subseteq Name

ProcessTypes ==
    /\ temps \subseteq Procs
    /\ lock \in Procs \cup {None}
    /\ pc \in [Procs -> Pcs]
    /\ stage \in [Procs -> Stages]
    /\ hold \in [Procs -> Blocks \cup {None}]
    /\ mem \in [Procs -> Memory]

CounterTypes ==
    /\ acked \subseteq U64
    /\ reported \in BOOLEAN
    /\ faults \in 0 .. MaxFaults
    /\ powerFailures \in 0 .. MaxPowerFailures
    /\ rots \in 0 .. MaxRots

\* Every variable keeps its type: identities stay within a uint64_t, names and
\* stamps are well formed, and processes are at a point the code has.
TypeOK == DiskTypes /\ ProcessTypes /\ CounterTypes

\* A process inside atomic_write that is about to rename still has its
\* temporary file: no other open() has swept it from tmp/.
TempOwned ==
    \A p \in Procs : stage[p] = "tmp" => p \in temps

\* Every manifest that recovery and checkpointing ever write passes the checks
\* decode_manifest makes: no entry runs ahead of the incarnation or of its
\* lease high-water mark, and a complete snapshot names every block.
ManifestsCanonical == \A m \in manifests : Canonical(m)

\* atomic_write never finds its final path taken: no process takes a sequence
\* number or a result name while a file of that name exists, readable or not,
\* whatever crashed or rotted before.  A name whose file is gone, an orphan that
\* was removed or an entry that power failure took, may be used again.
FreshNames ==
    \A p \in Procs :
        pc[p] \in InstallPcs /\ stage[p] \in {"begin", "tmp"} => ~TargetExists(p)

\* No manifest names a result whose directory entry a power failure could
\* still take away: record_result is durable before checkpoint() cites it.
EvidenceBeforeManifest ==
    \A m \in manifests : Names(m.entries) \cap newResults = {}

\* Unless files rot, every manifest in the directory could be recovered from:
\* orphan cleanup never removes a result that any manifest names.
AllManifestsValid == rots = 0 => \A m \in manifests : Valid(m)

\* A manifest whose install was acknowledged to the coordinator never
\* disappears, not even through a power failure.
AckedSurvives == \A s \in acked : \E m \in manifests : m.seq = s

\* Later snapshots contain earlier ones: whatever recovery fell back to, no
\* block committed in one valid manifest is missing from, or committed again
\* under another lease in, a valid manifest with a higher sequence.
CommitsMonotone ==
    \A m, n \in manifests :
        Valid(m) /\ Valid(n) /\ m.seq <= n.seq =>
            \A b \in Present(m.entries) : n.entries[b] = m.entries[b]

\* The sequence high-water mark prevents an incarnation collision even when the
\* latest manifest is corrupt: the incarnation a recovery is about to announce
\* was never announced before.
NoIncarnationCollision ==
    \A p \in Procs :
        pc[p] = "recovery" /\ stage[p] \in {"begin", "tmp"} =>
            \A m \in manifests : m.inc < mem[p].inc

\* Unless files rot, a recovery announces an incarnation that was never
\* announced before, so a result of an earlier process can always be told from
\* a new one.
IncarnationFresh == rots = 0 => NoIncarnationCollision

\* Unless files rot or power fails, open() would accept the directory whenever
\* no process owns it: it is not refused for lack of run_spec.bin, nor for lack
\* of a valid manifest.
Reopenable ==
    lock = None /\ rots = 0 /\ powerFailures = 0 =>
        /\ Payload => meta # "absent"
        /\ manifests # {} => \E m \in manifests : Valid(m)

\* Every file is installed by the whole protocol, the fsync of the destination
\* directory included: no manifest and no result is in the directory while
\* run_spec.bin, the identity they depend on, could still vanish from it.
MetadataFullyInstalled == Payload => meta = "durable"

\* No step of a process turns a manifest recovery could have used into one it
\* could not use.
ValidNeverShrinks ==
    [][rots' = rots /\ powerFailures' = powerFailures =>
         \A m \in manifests : Valid(m) => m \in manifests' /\ Valid(m)']_vars

\* Once a terminal manifest is durable the run is over, unless files rot:
\* reopening it installs no further manifest.
DurableTerminalStays ==
    [][/\ rots = 0
       /\ \E m \in manifests : m.status # "running" /\ m.seq \notin newManifests
       => manifests' = manifests]_vars

-----------------------------------------------------------------------------
(* RunStore implements CommitLog *)

\* The snapshot a recovery would load now, if there is one.
Loaded == {m \in manifests : LatestValid(m)}

loggedEntries ==
    IF Loaded = {} THEN [b \in Blocks |-> Absent]
    ELSE (CHOOSE m \in Loaded : TRUE).entries

loggedStatus ==
    IF Loaded = {} THEN "none" ELSE (CHOOSE m \in Loaded : TRUE).status

Log == INSTANCE CommitLog
         WITH Stamps <- Stamp, log <- loggedEntries, status <- loggedStatus

\* Unless files rot or power fails, the store behaves as a commit log.
ImplementsCommitLog == Log!Spec

\* A run without poisoned blocks is eventually reported complete.
RunReported == <>reported
=============================================================================
