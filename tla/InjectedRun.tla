---------------------------- MODULE InjectedRun ----------------------------
(***************************************************************************)
(* A child process of the crash harness: run_parallel_durable with a       *)
(* FailureInjector (src/failure_injection.cpp) whose hooks sit between the *)
(* steps of every durable install, and the replay descriptor it leaves.    *)
(*                                                                         *)
(* A failure point is the artifact being installed and the stage that has  *)
(* just been reached.  The trace is kept whole where the code keeps its    *)
(* SHA-256.  A run directory is reduced to what the hooks can tell apart:  *)
(* its visible manifests and results, and the processes whose temporary    *)
(* file is in tmp/; module RunStore has the rest.  Each tool t supervises  *)
(* one child at a time, child[t].                                          *)
(***************************************************************************)
EXTENDS Naturals, Sequences, FiniteSets

CONSTANTS
    Tools,         \* processes that supervise a child
    Dirs,          \* run directories
    Paths,         \* paths of replay descriptors
    None,
    MaxBlocks,     \* largest number of blocks of a run
    MinAutomatic,  \* kMinimumAutomaticCheckpointBlocks
    MaxErrors      \* bound on I/O errors while evidence is written

ASSUME NoneAssumption == None \notin Tools
ASSUME RunAssumption == {MaxBlocks, MinAutomatic} \subseteq Nat \ {0}
ASSUME ErrorsAssumption == MaxErrors \in Nat

VARIABLES
    store,      \* what each run directory holds
    lock,       \* holder of the flock of each run directory
    evidence,   \* the descriptor at each path, or NoEvidence
    synced,     \* paths whose directory entry has been fsynced
    litter,     \* replay temporaries: a path and the tool whose child wrote it
    child,      \* the child of each tool
    errors

childVars == <<store, lock, evidence, synced, litter, child, errors>>

-----------------------------------------------------------------------------
(* The failure points and the schedule they are chosen by *)

HookStages == {"written", "fsynced", "closed", "renamed"}

kFailurePoints == ({"result", "manifest"} \X HookStages) \cup {<<"manifest", "installed">>}

ManifestPcs == {"initial", "recovery", "checkpoint", "finish"}
InstallPcs == ManifestPcs \cup {"meta", "record"}

Artifact(pc) ==
    CASE pc = "meta" -> "metadata"
      [] pc = "record" -> "result"
      [] OTHER -> "manifest"

\* hit_write_failure and the hook of checkpoint(): run_spec.bin has no hooks,
\* and only a checkpoint is followed by manifest.after_install_before_memory.
Hooked(pc, stage) ==
    /\ <<Artifact(pc), stage>> \in kFailurePoints
    /\ stage = "installed" => pc \in {"checkpoint", "finish"}

\* What a caller asks of a run.  No point means no failure_injection.
RunConfig == [n : 1 .. MaxBlocks, interval : 0 .. MaxBlocks, workers : 1 .. 2,
              point : kFailurePoints \cup {None}, occurrence : 0 .. 3]

\* FailureInjectionConfig::validate.
ValidInjection(cfg) == cfg.occurrence # 0

\* resolve_checkpoint_cadence: zero selects the automatic cadence.
Cadence(cfg) == IF cfg.interval # 0 THEN cfg.interval ELSE MinAutomatic

-----------------------------------------------------------------------------
(* Children *)

NoEvidence == [point |-> None]
EmptyStore == [meta |-> FALSE, manifests |-> {}, results |-> {}, temps |-> {}]

NoChild == [state |-> "none", code |-> 0, job |-> "inject", dir |-> None,
            path |-> None, cfg |-> None, pc |-> "down", stage |-> "begin",
            seq |-> 0, inc |-> 0, status |-> "running", done |-> {},
            recovered |-> 0, pending |-> 0, block |-> 0, enabled |-> FALSE,
            hits |-> 0, trace |-> <<>>, reports |-> <<>>]

\* Exit codes: kFailureInjectionExitCode, a run that returned, a run that
\* threw, a recovery that failed; Signal stands for death by SIGKILL.
Injected == 86
Returned == 95
Threw == 94
RecoveryFailed == 93
Signal == 256

Blocks(r) == 0 .. r.cfg.n - 1
Missing(r) == Blocks(r) \ {e[1] : e \in r.done}

Unlock(t) ==
    lock' = [d \in Dirs |-> IF lock[d] = t THEN None ELSE lock[d]]

\* The child becomes a zombie with this status; the kernel drops its flock.
Die(t, code) ==
    /\ child' = [child EXCEPT ![t].state = "zombie", ![t].code = code]
    /\ Unlock(t)

\* An exception unwinds to the handler of the child's main: atomic_write and
\* write_descriptor_atomic remove their temporaries on the way.
Throw(t) ==
    /\ Die(t, IF child[t].job = "recover" THEN RecoveryFailed ELSE Threw)
    /\ store' = [d \in Dirs |-> [store[d] EXCEPT !.temps = @ \ {t}]]
    /\ litter' = {x \in litter : x[2] # t}
    /\ UNCHANGED <<evidence, synced>>

\* A fresh child, before its main has done anything.
Spawned(job, cfg, dir, path) ==
    [NoChild EXCEPT !.state = "running", !.job = job, !.cfg = cfg,
                    !.dir = dir, !.path = path, !.pc = "construct"]

At(t, pc) == child[t].state = "running" /\ child[t].pc = pc

Become(t, r) == child' = [child EXCEPT ![t] = r]

Quiet == UNCHANGED <<evidence, synced, litter, errors>>

-----------------------------------------------------------------------------
(* DurableRunStore::open *)

\* The checks of the FailureInjector's constructor.  That the path lies outside
\* the run directory, which it also checks, is how Paths and Dirs are named.
InjectorAccepts(t) ==
    LET r == child[t] IN
    /\ r.cfg.workers = 1
    /\ ValidInjection(r.cfg)
    /\ evidence[r.path] = NoEvidence

\* Fault: the injector is given the policy as requested.
RequestedPolicy(r) ==
    [r EXCEPT !.pc = "open", !.enabled = r.cfg.point # None, !.hits = 0, !.trace = <<>>]

\* The injector copies the resolved policy, and starts an empty trace.
Constructed(r) ==
    [r EXCEPT !.pc = "open", !.enabled = r.cfg.point # None,
              !.cfg.interval = Cadence(r.cfg), !.hits = 0, !.trace = <<>>]

Construct(t) ==
    /\ At(t, "construct")
    /\ IF child[t].cfg.point = None \/ InjectorAccepts(t)
         THEN /\ Become(t, Constructed(child[t]))
              /\ UNCHANGED <<store, lock, evidence, synced, litter>>
         ELSE Throw(t)
    /\ UNCHANGED errors

\* The flock is taken without waiting and stale temporaries are removed.
Open(t) ==
    LET r == child[t] IN
    /\ At(t, "open")
    /\ IF lock[r.dir] # None
         THEN Throw(t)
         ELSE /\ lock' = [lock EXCEPT ![r.dir] = t]
              /\ store' = [store EXCEPT ![r.dir].temps = {}]
              /\ Become(t, [r EXCEPT !.stage = "begin",
                              !.pc = IF store[r.dir].meta THEN "scan" ELSE "meta"])
              /\ UNCHANGED <<evidence, synced, litter>>
    /\ UNCHANGED errors

\* Fault: recovery starts from the first manifest.
FirstManifest(ms) == CHOOSE m \in ms : \A o \in ms : m.seq <= o.seq

\* load_latest_valid_manifest, where no file rots.
LatestManifest(ms) == CHOOSE m \in ms : \A o \in ms : o.seq <= m.seq

Larger(a, b) == IF a >= b THEN a ELSE b

Scanned(r, ms) ==
    IF ms = {}
      THEN [r EXCEPT !.pc = "initial", !.seq = 0, !.inc = 1,
                     !.status = "running", !.done = {}]
      ELSE LET m == LatestManifest(ms)
               highest == (CHOOSE h \in ms : \A o \in ms : o.seq <= h.seq).seq IN
           IF m.status = "complete"
             THEN [r EXCEPT !.pc = "cleanup", !.seq = m.seq, !.inc = m.inc,
                            !.status = m.status, !.done = m.entries]
             ELSE [r EXCEPT !.pc = "recovery", !.seq = highest + 1,
                            !.inc = Larger(m.inc, highest) + 1,
                            !.status = m.status, !.done = m.entries]

Scan(t) ==
    LET r == child[t] IN
    /\ At(t, "scan")
    /\ Become(t, [Scanned(r, store[r.dir].manifests) EXCEPT !.stage = "begin"])
    /\ UNCHANGED <<store, lock>>
    /\ Quiet

\* remove_orphan_block_results, the last thing open() does; the driver then
\* counts the blocks it recovered.
Cleanup(t) ==
    LET r == child[t] IN
    /\ At(t, "cleanup")
    /\ store' = [store EXCEPT ![r.dir].results = r.done]
    /\ Become(t, [r EXCEPT !.recovered = Cardinality(r.done), !.pending = 0,
                           !.pc = IF r.status = "complete" THEN "return"
                                  ELSE "running"])
    /\ UNCHANGED lock
    /\ Quiet

-----------------------------------------------------------------------------
(* Hooks and installs *)

\* The FailureContext of the artifact being installed.
Context(r) ==
    IF Artifact(r.pc) = "result"
      THEN [inc |-> r.inc, block |-> r.block, seq |-> None]
      ELSE [inc |-> r.inc, block |-> None,
            seq |-> IF r.pc \in {"checkpoint", "finish"} THEN r.seq + 1 ELSE r.seq]

\* FailureInjector::hit, for the stage just reached.
Hit(r) ==
    IF ~r.enabled \/ ~Hooked(r.pc, r.stage) THEN r
    ELSE LET selected == <<Artifact(r.pc), r.stage>> = r.cfg.point
             hits == IF selected THEN r.hits + 1 ELSE r.hits IN
         [r EXCEPT !.trace = Append(r.trace, <<Artifact(r.pc), r.stage, Context(r)>>),
                   !.hits = hits,
                   !.pc = IF selected /\ hits = r.cfg.occurrence
                            THEN "evidence" ELSE r.pc]

NextStage == [begin |-> "written", written |-> "fsynced", fsynced |-> "closed",
              closed |-> "renamed", renamed |-> "installed"]

\* The manifest that make_manifest_from_results or checkpoint() builds.
Manifest(r) ==
    [seq |-> Context(r).seq, inc |-> r.inc, entries |-> r.done,
     status |-> IF r.pc = "finish" THEN "complete" ELSE "running"]

\* rename() gives the artifact its final name.
Renamed(r, s) ==
    CASE Artifact(r.pc) = "metadata" -> [s EXCEPT !.meta = TRUE]
      [] Artifact(r.pc) = "result" ->
            [s EXCEPT !.results = @ \cup {<<r.block, r.inc>>}]
      [] OTHER -> [s EXCEPT !.manifests = @ \cup {Manifest(r)}]

\* atomic_write, from one hook to the next.
Advance(t) ==
    LET r == child[t]
        stage == NextStage[r.stage]
        s == store[r.dir] IN
    /\ child[t].state = "running" /\ r.pc \in InstallPcs
    /\ r.stage # "installed"
    /\ store' = [store EXCEPT ![r.dir] =
                    CASE stage = "written" -> [s EXCEPT !.temps = @ \cup {t}]
                      [] stage = "renamed" -> [Renamed(r, s) EXCEPT !.temps = @ \ {t}]
                      [] OTHER -> s]
    /\ Become(t, Hit([r EXCEPT !.stage = stage]))
    /\ UNCHANGED lock
    /\ Quiet

CheckpointDue(r) ==
    r.pending >= r.cfg.interval /\ Cardinality(r.done) < r.cfg.n

\* What follows an install: memory catches up with the disk.
Settled(r) ==
    CASE r.pc = "meta" -> [r EXCEPT !.pc = "scan"]
      [] r.pc \in {"initial", "recovery"} -> [r EXCEPT !.pc = "cleanup"]
      [] r.pc = "record" ->
            LET q == [r EXCEPT !.done = @ \cup {<<r.block, r.inc>>},
                               !.pending = @ + 1] IN
            [q EXCEPT !.pc = IF CheckpointDue(q) THEN "checkpoint" ELSE "running"]
      [] r.pc = "checkpoint" ->
            [r EXCEPT !.pc = "running", !.seq = @ + 1, !.pending = 0]
      [] r.pc = "finish" ->
            [r EXCEPT !.pc = "return", !.seq = @ + 1, !.status = "complete"]

Settle(t) ==
    LET r == child[t] IN
    /\ r.state = "running" /\ r.pc \in InstallPcs
    /\ r.stage = "installed"
    /\ Become(t, [Settled(r) EXCEPT !.stage = "begin"])
    /\ UNCHANGED <<store, lock>>
    /\ Quiet

\* A completion reaches the coordinator: with one worker in the order of the
\* assignments, with more in any order.
Receive(t, b) ==
    LET r == child[t] IN
    /\ At(t, "running")
    /\ b \in Missing(r)
    /\ r.cfg.workers = 1 => \A o \in Missing(r) : b <= o
    /\ Become(t, [r EXCEPT !.pc = "record", !.block = b, !.stage = "begin"])
    /\ UNCHANGED <<store, lock>>
    /\ Quiet

AllReceived(t) ==
    LET r == child[t] IN
    /\ At(t, "running")
    /\ Missing(r) = {}
    /\ Become(t, [r EXCEPT !.pc = "finish", !.stage = "begin"])
    /\ UNCHANGED <<store, lock>>
    /\ Quiet

\* run_recovery_child: the run is completed, and found complete when reopened.
RecoveryHolds(reports, n) ==
    /\ reports[1].recovered + reports[1].computed = n
    /\ reports[2].recovered = n
    /\ reports[2].computed = 0

\* run_parallel_durable returns: an injected child has missed its hook, a
\* recovery child runs a second time and then compares.
Return(t) ==
    LET r == child[t]
        report == [recovered |-> r.recovered,
                   computed |-> Cardinality(r.done) - r.recovered]
        reports == Append(r.reports, report) IN
    /\ At(t, "return")
    /\ IF r.job = "recover" /\ Len(reports) = 1
         THEN /\ Become(t, [r EXCEPT !.pc = "construct", !.reports = reports])
              /\ Unlock(t)
         ELSE Die(t, IF r.job # "recover" THEN Returned
                     ELSE IF RecoveryHolds(reports, r.cfg.n) THEN 0
                     ELSE RecoveryFailed)
    /\ UNCHANGED store
    /\ Quiet

-----------------------------------------------------------------------------
(* write_descriptor_atomic, then _exit *)

\* The descriptor the injector has filled in.
Descriptor(r) ==
    [point |-> r.cfg.point, occurrence |-> r.cfg.occurrence, n |-> r.cfg.n,
     workers |-> r.cfg.workers, interval |-> r.cfg.interval, trace |-> r.trace]

\* The temporary is created, written, fsynced and closed.
WriteEvidence(t) ==
    /\ At(t, "evidence")
    /\ Become(t, [child[t] EXCEPT !.pc = "link"])
    /\ litter' = litter \cup {<<child[t].path, t>>}
    /\ UNCHANGED <<store, lock, evidence, synced, errors>>

\* Fault: rename() in place of link(), which replaces what is there.
RenameOver(t) ==
    LET r == child[t] IN
    /\ evidence' = [evidence EXCEPT ![r.path] = Descriptor(r)]
    /\ synced' = synced \ {r.path}
    /\ Become(t, [r EXCEPT !.pc = "sync"])
    /\ UNCHANGED <<store, lock, litter>>

\* link() refuses a path that is taken, and the hook throws.
LinkNoReplace(t) ==
    LET r == child[t] IN
    IF evidence[r.path] # NoEvidence THEN Throw(t)
    ELSE /\ evidence' = [evidence EXCEPT ![r.path] = Descriptor(r)]
         /\ synced' = synced \ {r.path}
         /\ Become(t, [r EXCEPT !.pc = "sync"])
         /\ UNCHANGED <<store, lock, litter>>

LinkEvidence(t) ==
    /\ At(t, "link")
    /\ LinkNoReplace(t)
    /\ UNCHANGED errors

\* Fault: the process exits before the directory is fsynced.
NoSync(t) == UNCHANGED synced

SyncParent(t) == synced' = synced \cup {child[t].path}

\* The temporary name is removed, the directory fsynced, and _exit(86) leaves
\* the run directory as it stands.
Crash(t) ==
    /\ At(t, "sync")
    /\ litter' = {x \in litter : x[2] # t}
    /\ SyncParent(t)
    /\ Die(t, Injected)
    /\ UNCHANGED <<store, evidence, errors>>

\* A write, fsync, link, unlink or directory fsync fails: the hook throws into
\* atomic_write, whether or not the descriptor has its name by then.
EvidenceError(t) ==
    /\ child[t].state = "running" /\ child[t].pc \in {"evidence", "link", "sync"}
    /\ errors < MaxErrors
    /\ errors' = errors + 1
    /\ Throw(t)

-----------------------------------------------------------------------------

ChildStep(t) ==
    \/ Construct(t) \/ Open(t) \/ Scan(t) \/ Cleanup(t)
    \/ Advance(t) \/ Settle(t) \/ AllReceived(t) \/ Return(t)
    \/ \E b \in 0 .. MaxBlocks - 1 : Receive(t, b)
    \/ WriteEvidence(t) \/ LinkEvidence(t) \/ Crash(t) \/ EvidenceError(t)

\* SIGKILL: what is on disk stays, temporaries included.
Kill(t) ==
    IF child[t].state = "running" THEN Die(t, Signal) ELSE UNCHANGED <<child, lock>>

ChildInit ==
    /\ store = [d \in Dirs |-> EmptyStore]
    /\ lock = [d \in Dirs |-> None]
    /\ evidence = [p \in Paths |-> NoEvidence]
    /\ synced = {} /\ litter = {}
    /\ child = [t \in Tools |-> NoChild]
    /\ errors = 0
=============================================================================
