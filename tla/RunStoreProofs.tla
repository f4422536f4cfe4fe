--------------------------- MODULE RunStoreProofs ---------------------------
(***************************************************************************)
(* Proofs about RunStore, for any set of processes, any finite set of      *)
(* blocks, any width of the identities and any number of failures.         *)
(*                                                                         *)
(* First what it writes; then what it can recover: recovery never loses a  *)
(* commit that an intact manifest names, and no process makes an intact    *)
(* manifest unusable.  Without rot a terminal manifest ends the run, and   *)
(* without power failures either every step of the store is a step of      *)
(* CommitLog, or changes nothing in it.                                    *)
(***************************************************************************)
EXTENDS RunStore, TLAPS

\* A manifest that has passed checkpoint()'s overflow test has a sequence, and
\* a process recording a result has a block in hand.
InstallReady ==
    \A p \in Procs :
        /\ pc[p] \in ManifestPcs /\ stage[p] # "begin" => DraftSequence(p) \in U64
        /\ pc[p] \in {"initial", "recovery"} => DraftSequence(p) \in U64
        /\ pc[p] = "record" => hold[p] \in Blocks

TypeInv == TypeOK /\ InstallReady

-----------------------------------------------------------------------------
(* Facts about the operators *)

\* The stamp of an uncommitted block is a stamp.
LEMMA AbsentIsStamp == Absent \in Stamp
BY U64Assumption DEF Absent, Stamp, U64

\* The memory of a process that is not running is well typed.
LEMMA NoMemoryIsMemory == NoMemory \in Memory
BY U64Assumption, AbsentIsStamp DEF NoMemory, Memory, U64, Status

\* Everything Goto and Exit change keeps its type.
LEMMA GotoTypes ==
  ASSUME NEW p \in Procs, ProcessTypes, NEW where \in Pcs, Goto(p, where)
  PROVE  /\ pc' \in [Procs -> Pcs]
         /\ stage' \in [Procs -> Stages]
BY DEF ProcessTypes, Goto, Stages

\* A process that exits leaves every volatile variable well typed.
LEMMA ExitTypes ==
  ASSUME NEW p \in Procs, ProcessTypes, Exit(p)
  PROVE  /\ lock' \in Procs \cup {None}
         /\ pc' \in [Procs -> Pcs]
         /\ stage' \in [Procs -> Stages]
         /\ hold' \in [Procs -> Blocks \cup {None}]
         /\ mem' \in [Procs -> Memory]
<1>1. "down" \in Pcs
  BY DEF Pcs
<1>2. pc' \in [Procs -> Pcs] /\ stage' \in [Procs -> Stages]
  BY <1>1, GotoTypes DEF Exit
<1> QED
  BY <1>2, NoMemoryIsMemory DEF ProcessTypes, Exit

\* A process that exits is no longer installing anything.
LEMMA ExitReady ==
  ASSUME NEW p \in Procs, ProcessTypes, InstallReady, Exit(p)
  PROVE  InstallReady'
BY DEF Exit, Goto, InstallReady, ManifestPcs, DraftSequence, ProcessTypes

\* A process recording a result goes to a well-formed file name.
LEMMA NamesAreNames ==
  ASSUME NEW p \in Procs, TypeInv, pc[p] = "record"
  PROVE  /\ ResultName(p) \in Name
         /\ Lease(p, hold[p]) \in Stamp
BY DEF TypeInv, TypeOK, ProcessTypes, InstallReady, ResultName, Lease, Name,
       Stamp, Memory

\* The manifest in hand is well formed once its sequence passed the test.
LEMMA DraftIsManifest ==
  ASSUME NEW p \in Procs, ProcessTypes, DraftSequence(p) \in U64
  PROVE  Draft(p) \in Manifest
<1>1. mem[p] \in Memory
  BY DEF ProcessTypes
<1>2. DraftStatus(p) \in Status
  BY DEF DraftStatus, Status
<1> QED
  BY <1>1, <1>2 DEF Draft, Manifest, Memory

-----------------------------------------------------------------------------
(* Type correctness *)

\* An empty run directory with no process is well typed.
LEMMA TypeInit == Init => TypeInv
<1> SUFFICES ASSUME Init PROVE TypeInv
  OBVIOUS
<1>1. DiskTypes
  BY DEF Init, DiskTypes
<1>2. ProcessTypes
  BY NoMemoryIsMemory DEF Init, ProcessTypes, Pcs, Stages
<1>3. CounterTypes
  <2>1. MaxFaults \in Nat /\ MaxPowerFailures \in Nat /\ MaxRots \in Nat
    BY BudgetAssumption
  <2>2. 0 \in 0 .. MaxFaults /\ 0 \in 0 .. MaxPowerFailures /\ 0 \in 0 .. MaxRots
    BY <2>1
  <2> QED
    BY <2>2 DEF Init, CounterTypes
<1>4. InstallReady
  BY DEF Init, InstallReady, ManifestPcs
<1> QED
  BY <1>1, <1>2, <1>3, <1>4 DEF TypeInv, TypeOK

\* One step per action of Next.
LEMMA TypeStep == TypeInv /\ [Next]_vars => TypeInv'
<1> SUFFICES ASSUME TypeInv, [Next]_vars PROVE TypeInv'
  OBVIOUS
<1> USE DEF TypeInv, TypeOK
<1>1. ASSUME NEW p \in Procs, OpenStore(p) PROVE TypeInv'
  <2>1. DiskTypes' /\ CounterTypes'
    BY <1>1 DEF OpenStore, DiskTypes, CounterTypes, disk, history, budgets
  <2>2. AfterLock \in Pcs
    BY DEF AfterLock, Pcs, InstallPcs
  <2>3. ProcessTypes'
    BY <1>1, <2>2, GotoTypes DEF OpenStore, ProcessTypes
  <2>4. InstallReady'
    BY <1>1 DEF OpenStore, InstallReady, Goto, AfterLock, ManifestPcs,
       DraftSequence, ProcessTypes
  <2> QED
    BY <2>1, <2>3, <2>4
<1>2. ASSUME NEW p \in Procs, Scan(p) PROVE TypeInv'
  <2>1. DiskTypes' /\ CounterTypes' /\ temps' \subseteq Procs
    BY <1>2 DEF Scan, DiskTypes, ProcessTypes, CounterTypes, disk, history, budgets
  <2>2. ASSUME Exit(p) PROVE ProcessTypes' /\ InstallReady'
    <3>1. ProcessTypes'
      BY <2>1, <2>2, ExitTypes DEF ProcessTypes
    <3>2. InstallReady'
      BY <2>2, ExitReady
    <3> QED
      BY <3>1, <3>2
  <2>3. ASSUME StartRun(p) PROVE ProcessTypes' /\ InstallReady'
    <3>1. mem'[p] = [seq |-> 0, inc |-> 1, status |-> "running",
                     leases |-> [b \in Blocks |-> 1],
                     committed |-> [b \in Blocks |-> Absent],
                     durable |-> [b \in Blocks |-> Absent]]
      BY <2>3 DEF StartRun, NoMemory, ProcessTypes
    <3>2. mem'[p] \in Memory /\ mem'[p].seq \in U64
      BY <3>1, U64Assumption, AbsentIsStamp DEF Memory, Status, U64
    <3>3. "initial" \in Pcs
      BY DEF Pcs, InstallPcs, ManifestPcs
    <3>4. ProcessTypes'
      BY <2>1, <2>3, <3>2, <3>3, GotoTypes DEF StartRun, ProcessTypes
    <3>5. InstallReady'
      BY <2>3, <3>2 DEF StartRun, Goto, InstallReady, ManifestPcs, DraftSequence,
         ProcessTypes
    <3> QED
      BY <3>4, <3>5
  <2>4. ASSUME NEW m \in manifests, LoadTerminal(p, m)
        PROVE  ProcessTypes' /\ InstallReady'
    <3>1. m \in Manifest
      BY DEF DiskTypes
    <3>2. mem' \in [Procs -> Memory]
      BY <2>4, <3>1 DEF LoadTerminal, Memory, Manifest, ProcessTypes
    <3>3. "cleanup" \in Pcs
      BY DEF Pcs
    <3>4. ProcessTypes'
      BY <2>1, <2>4, <3>2, <3>3, GotoTypes DEF LoadTerminal, ProcessTypes
    <3>5. InstallReady'
      BY <2>4 DEF LoadTerminal, Goto, InstallReady, ManifestPcs, DraftSequence,
         ProcessTypes
    <3> QED
      BY <3>4, <3>5
  <2>5. ASSUME NEW m \in manifests, NEW s \in U64, ~IdentityExhausted(m, s),
               Resume(p, m, s)
        PROVE  ProcessTypes' /\ InstallReady'
    <3>1. m \in Manifest
      BY DEF DiskTypes
    <3>2. /\ NextSequence(m.seq, s) \in U64
          /\ NextIncarnation(m.inc, s) \in U64
      BY <2>5, <3>1, U64Assumption
         DEF IdentityExhausted, NextSequence, NextIncarnation, U64, Manifest
    <3>3. NextLeases(m.leases) \in [Blocks -> U64]
      <4>1. \A b \in Blocks : m.leases[b] \in U64 /\ m.leases[b] # U64Max
        BY <2>5, <3>1 DEF IdentityExhausted, Manifest
      <4> QED
        BY <4>1, U64Assumption DEF NextLeases, U64
    <3>4. mem'[p] = [seq |-> NextSequence(m.seq, s),
                     inc |-> NextIncarnation(m.inc, s),
                     status |-> "running",
                     leases |-> NextLeases(m.leases),
                     committed |-> m.entries, durable |-> m.entries]
      BY <2>5 DEF Resume, ProcessTypes
    <3>5. mem'[p] \in Memory /\ mem'[p].seq \in U64
      BY <3>1, <3>2, <3>3, <3>4 DEF Memory, Manifest, Status
    <3>6. "recovery" \in Pcs
      BY DEF Pcs, InstallPcs, ManifestPcs
    <3>7. ProcessTypes'
      BY <2>1, <2>5, <3>5, <3>6, GotoTypes DEF Resume, ProcessTypes
    <3>8. InstallReady'
      BY <2>5, <3>5 DEF Resume, Goto, InstallReady, ManifestPcs, DraftSequence,
         ProcessTypes
    <3> QED
      BY <3>7, <3>8
  <2> QED
    BY <1>2, <2>1, <2>2, <2>3, <2>4, <2>5 DEF Scan, Recover
<1>3. ASSUME NEW p \in Procs, RemoveOrphan(p) PROVE TypeInv'
  <2>1. DiskTypes'
    BY <1>3 DEF RemoveOrphan, DiskTypes, Orphans
  <2>2. ProcessTypes'
    BY <1>3 DEF RemoveOrphan, ProcessTypes, Stages
  <2>3. CounterTypes'
    BY <1>3 DEF RemoveOrphan, CounterTypes, history, budgets
  <2>4. InstallReady'
    BY <1>3 DEF RemoveOrphan, InstallReady, ManifestPcs, DraftSequence, ProcessTypes
  <2> QED
    BY <2>1, <2>2, <2>3, <2>4
<1>4. ASSUME NEW p \in Procs, FinishOpen(p) PROVE TypeInv'
  <2>1. DiskTypes'
    BY <1>4 DEF FinishOpen, DiskTypes, SyncResults
  <2>2. CounterTypes'
    BY <1>4 DEF FinishOpen, CounterTypes, budgets
  <2>3. CASE mem[p].status = "running"
    <3>1. "running" \in Pcs
      BY DEF Pcs
    <3>2. ProcessTypes'
      BY <1>4, <2>3, <3>1, GotoTypes DEF FinishOpen, ProcessTypes
    <3>3. InstallReady'
      BY <1>4, <2>3 DEF FinishOpen, Goto, InstallReady, ManifestPcs,
         DraftSequence, ProcessTypes
    <3> QED
      BY <2>1, <2>2, <3>2, <3>3
  <2>4. CASE mem[p].status # "running"
    <3>1. Exit(p)
      BY <1>4, <2>4 DEF FinishOpen
    <3>2. ProcessTypes'
      BY <1>4, <3>1, ExitTypes DEF FinishOpen, ProcessTypes
    <3>3. InstallReady'
      BY <3>1, ExitReady
    <3> QED
      BY <2>1, <2>2, <3>2, <3>3
  <2> QED
    BY <2>3, <2>4
<1>5. ASSUME NEW p \in Procs, NEW b \in Blocks, Consume(p, b) PROVE TypeInv'
  <2>1. DiskTypes' /\ CounterTypes'
    BY <1>5 DEF Consume, DiskTypes, CounterTypes, disk, history, budgets
  <2>2. {"fail", "record"} \subseteq Pcs
    BY DEF Pcs, InstallPcs, ManifestPcs
  <2>3. ProcessTypes'
    BY <1>5, <2>2, GotoTypes DEF Consume, ProcessTypes
  <2>4. InstallReady'
    BY <1>5 DEF Consume, Goto, InstallReady, ManifestPcs, DraftSequence,
       ProcessTypes
  <2> QED
    BY <2>1, <2>3, <2>4
<1>6. ASSUME NEW p \in Procs, Finish(p) PROVE TypeInv'
  <2>1. DiskTypes' /\ CounterTypes'
    BY <1>6 DEF Finish, DiskTypes, CounterTypes, disk, history, budgets
  <2>2. "finish" \in Pcs
    BY DEF Pcs, InstallPcs, ManifestPcs
  <2>3. ProcessTypes'
    BY <1>6, <2>2, GotoTypes DEF Finish, ProcessTypes
  <2>4. InstallReady'
    BY <1>6 DEF Finish, Goto, InstallReady, ManifestPcs, DraftSequence,
       ProcessTypes
  <2> QED
    BY <2>1, <2>3, <2>4
<1>7. ASSUME NEW p \in Procs, WriteTemp(p) PROVE TypeInv'
  <2>1. DiskTypes' /\ CounterTypes'
    BY <1>7 DEF WriteTemp, DiskTypes, CounterTypes, disk, history, budgets
  <2>2. CASE \/ pc[p] \in ManifestPcs /\ SequenceExhausted(p)
             \/ TargetExists(p) /\ ~TargetMatches(p)
    <3>1. Exit(p) /\ UNCHANGED temps
      BY <1>7, <2>2 DEF WriteTemp
    <3>2. ProcessTypes' /\ InstallReady'
      BY <3>1, ExitTypes, ExitReady DEF ProcessTypes
    <3> QED
      BY <2>1, <3>2
  <2>3. CASE ~(\/ pc[p] \in ManifestPcs /\ SequenceExhausted(p)
               \/ TargetExists(p) /\ ~TargetMatches(p))
    <3>1. /\ \E st \in {"synced", "tmp"} : stage' = [stage EXCEPT ![p] = st]
          /\ temps' \subseteq temps \cup {p}
          /\ UNCHANGED <<lock, pc, hold, mem>>
      BY <1>7, <2>3 DEF WriteTemp
    <3>2. ProcessTypes'
      BY <3>1 DEF ProcessTypes, Stages
    <3>3. pc[p] \in ManifestPcs => DraftSequence(p) \in U64
      <4>1. mem[p].seq \in Nat
        BY DEF ProcessTypes, Memory, U64
      <4>2. DraftSequence(p) \in Nat
        BY <4>1 DEF DraftSequence
      <4> QED
        BY <2>3, <4>2, U64Assumption DEF SequenceExhausted, U64
    <3>4. InstallReady'
      BY <3>1, <3>3 DEF InstallReady, DraftSequence, ProcessTypes
    <3> QED
      BY <2>1, <3>2, <3>4
  <2> QED
    BY <2>2, <2>3
<1>8. ASSUME NEW p \in Procs, Rename(p) PROVE TypeInv'
  <2>1. ProcessTypes'
    BY <1>8 DEF Rename, ProcessTypes, Stages
  <2>2. CounterTypes'
    BY <1>8 DEF Rename, CounterTypes, history, budgets
  <2>3. InstallReady'
    BY <1>8 DEF Rename, InstallReady, DraftSequence, ProcessTypes
  <2>4. CASE InstallMetadata(p)
    BY <2>1, <2>2, <2>3, <2>4 DEF InstallMetadata, DiskTypes
  <2>5. CASE InstallResult(p)
    <3>1. ResultName(p) \in Name
      BY <2>5, NamesAreNames DEF InstallResult
    <3>2. DiskTypes'
      BY <2>5, <3>1 DEF InstallResult, DiskTypes
    <3> QED
      BY <2>1, <2>2, <2>3, <3>2
  <2>6. CASE InstallManifest(p)
    <3>1. DraftSequence(p) \in U64
      BY <1>8, <2>6 DEF Rename, InstallManifest, InstallReady
    <3>2. Draft(p) \in Manifest
      BY <3>1, DraftIsManifest
    <3>3. DiskTypes'
      BY <2>6, <3>1, <3>2 DEF InstallManifest, DiskTypes
    <3> QED
      BY <2>1, <2>2, <2>3, <3>3
  <2> QED
    BY <1>8, <2>4, <2>5, <2>6 DEF Rename
<1>9. ASSUME NEW p \in Procs, SyncDirectory(p) PROVE TypeInv'
  <2>1. DiskTypes'
    BY <1>9 DEF SyncDirectory, SyncResults, SyncManifests, DiskTypes
  <2>2. ProcessTypes'
    BY <1>9 DEF SyncDirectory, ProcessTypes, Stages
  <2>3. CounterTypes'
    BY <1>9 DEF SyncDirectory, CounterTypes, history, budgets
  <2>4. InstallReady'
    BY <1>9 DEF SyncDirectory, InstallReady, DraftSequence, ProcessTypes
  <2> QED
    BY <2>1, <2>2, <2>3, <2>4
<1>10. ASSUME NEW p \in Procs, Installed(p) PROVE TypeInv'
  <2>1. DiskTypes' /\ temps' \subseteq Procs
    BY <1>10 DEF Installed, DiskTypes, ProcessTypes, disk
  <2>2. faults' = faults /\ powerFailures' = powerFailures /\ rots' = rots
    BY <1>10 DEF Installed, budgets
  <2>3. CASE MetadataInstalled(p)
    <3>1. "scan" \in Pcs
      BY DEF Pcs
    <3>2. ProcessTypes'
      BY <2>1, <2>3, <3>1, GotoTypes DEF MetadataInstalled, ProcessTypes
    <3>3. CounterTypes'
      BY <2>2, <2>3 DEF MetadataInstalled, CounterTypes, history
    <3>4. InstallReady'
      BY <2>3 DEF MetadataInstalled, Goto, InstallReady, ManifestPcs,
         DraftSequence, ProcessTypes
    <3> QED
      BY <2>1, <3>2, <3>3, <3>4
  <2>4. CASE ResultRecorded(p)
    <3>1. {"checkpoint", "running"} \subseteq Pcs
      BY DEF Pcs, InstallPcs, ManifestPcs
    <3>2. Lease(p, hold[p]) \in Stamp
      BY <2>4, NamesAreNames DEF ResultRecorded
    <3>3. WithResult(p) \in Memory
      BY <3>2 DEF WithResult, Memory, ProcessTypes
    <3>4. mem' \in [Procs -> Memory]
      BY <2>4, <3>3 DEF ResultRecorded, ProcessTypes
    <3>5. pc' \in [Procs -> Pcs] /\ stage' \in [Procs -> Stages]
      BY <2>4, <3>1, GotoTypes DEF ResultRecorded
    <3>6. ProcessTypes'
      BY <2>1, <2>4, <3>4, <3>5 DEF ResultRecorded, ProcessTypes
    <3>7. CounterTypes'
      BY <2>2, <2>4 DEF ResultRecorded, CounterTypes, history
    <3>8. InstallReady'
      BY <2>4 DEF ResultRecorded, Goto, InstallReady, ManifestPcs,
         DraftSequence, ProcessTypes
    <3> QED
      BY <2>1, <3>6, <3>7, <3>8
  <2>5. CASE RunOpened(p)
    <3>1. "cleanup" \in Pcs
      BY DEF Pcs
    <3>2. ProcessTypes'
      BY <2>1, <2>5, <3>1, GotoTypes DEF RunOpened, ProcessTypes
    <3>3. CounterTypes'
      BY <2>2, <2>5 DEF RunOpened, CounterTypes, InstallReady
    <3>4. InstallReady'
      BY <2>5 DEF RunOpened, Goto, InstallReady, ManifestPcs, DraftSequence,
         ProcessTypes
    <3> QED
      BY <2>1, <3>2, <3>3, <3>4
  <2>6. CASE CheckpointTaken(p)
    <3>1. "running" \in Pcs
      BY DEF Pcs
    <3>2. DraftSequence(p) \in U64
      BY <1>10, <2>6 DEF Installed, CheckpointTaken, InstallReady, ManifestPcs
    <3>3. mem' \in [Procs -> Memory]
      BY <2>6, <3>2 DEF CheckpointTaken, Memory, ProcessTypes
    <3>4. ProcessTypes'
      BY <2>1, <2>6, <3>1, <3>3, GotoTypes DEF CheckpointTaken, ProcessTypes
    <3>5. CounterTypes'
      BY <2>2, <2>6, <3>2 DEF CheckpointTaken, CounterTypes
    <3>6. InstallReady'
      BY <2>6 DEF CheckpointTaken, Goto, InstallReady, ManifestPcs,
         DraftSequence, ProcessTypes
    <3> QED
      BY <2>1, <3>4, <3>5, <3>6
  <2>7. CASE RunEnded(p)
    <3>1. DraftSequence(p) \in U64
      BY <1>10, <2>7 DEF Installed, RunEnded, InstallReady, ManifestPcs
    <3>2. ProcessTypes' /\ InstallReady'
      BY <2>1, <2>7, ExitTypes, ExitReady DEF RunEnded, ProcessTypes
    <3>3. CounterTypes'
      BY <2>2, <2>7, <3>1 DEF RunEnded, CounterTypes
    <3> QED
      BY <2>1, <3>2, <3>3
  <2> QED
    BY <1>10, <2>3, <2>4, <2>5, <2>6, <2>7 DEF Installed
<1>11. ASSUME NEW p \in Procs, Abort(p) \/ Crash(p) PROVE TypeInv'
  <2>1. DiskTypes'
    BY <1>11 DEF Abort, Crash, DiskTypes, disk
  <2>2. CounterTypes'
    BY <1>11, BudgetAssumption DEF Abort, Crash, CounterTypes, history
  <2>3. Exit(p) /\ temps' \subseteq Procs
    BY <1>11 DEF Abort, Crash, ProcessTypes
  <2>4. ProcessTypes' /\ InstallReady'
    BY <2>3, ExitTypes, ExitReady DEF ProcessTypes
  <2> QED
    BY <2>1, <2>2, <2>4
<1>12. CASE PowerFailure
  <2>1. DiskTypes'
    BY <1>12 DEF PowerFailure, DiskTypes
  <2>2. CounterTypes'
    BY <1>12, BudgetAssumption DEF PowerFailure, CounterTypes, history
  <2>3. ProcessTypes'
    BY <1>12, NoMemoryIsMemory DEF PowerFailure, ProcessTypes, Pcs, Stages
  <2>4. InstallReady'
    BY <1>12 DEF PowerFailure, InstallReady, ManifestPcs
  <2> QED
    BY <2>1, <2>2, <2>3, <2>4
<1>13. CASE RotManifest \/ RotResult
  <2>1. DiskTypes'
    <3>1. \A m \in manifests : m.seq \in U64
      BY DEF DiskTypes, Manifest
    <3> QED
      BY <1>13, <3>1 DEF RotManifest, RotResult, DiskTypes
  <2>2. CounterTypes'
    BY <1>13, BudgetAssumption DEF RotManifest, RotResult, CounterTypes, history
  <2>3. ProcessTypes' /\ InstallReady'
    BY <1>13 DEF RotManifest, RotResult, ProcessTypes, InstallReady,
       DraftSequence, volatile
  <2> QED
    BY <2>1, <2>2, <2>3
<1>14. CASE UNCHANGED vars
  BY <1>14 DEF vars, disk, volatile, history, budgets, DiskTypes, ProcessTypes,
     CounterTypes, InstallReady, DraftSequence
<1> QED
  BY <1>1, <1>2, <1>3, <1>4, <1>5, <1>6, <1>7, <1>8, <1>9, <1>10, <1>11, <1>12,
     <1>13, <1>14 DEF Next, Work

\* For any number of processes, crashes, power failures and rotten files, every
\* identity the store computes stays within a uint64_t and every record keeps
\* its shape: the overflow guards of open() and checkpoint() are enough.
THEOREM TypeCorrect == Spec => []TypeOK
<1>1. Spec => []TypeInv
  BY TypeInit, TypeStep, PTL DEF Spec
<1>2. TypeInv => TypeOK
  BY DEF TypeInv
<1> QED
  BY <1>1, <1>2, PTL

-----------------------------------------------------------------------------
(* Every manifest written is one that can be read back *)

\* What decode_manifest asks of the entries, for an incarnation and leases.
Leased(entries, inc, leases) ==
    /\ inc # 0
    /\ \A b \in Blocks : leases[b] # 0
    /\ \A b \in Blocks : entries[b] # Absent =>
        /\ entries[b].inc # 0
        /\ entries[b].epoch # 0
        /\ entries[b].inc <= inc
        /\ entries[b].epoch <= leases[b]
        /\ entries[b].inc = inc => entries[b].epoch = leases[b]

\* From the scan on, the memory of an open store would pass those checks, and
\* the complete checkpoint is begun only with every block received.
MemoryLeased ==
    \A p \in Procs :
        /\ pc[p] \notin {"down", "meta", "scan"} =>
             Leased(mem[p].durable, mem[p].inc, mem[p].leases)
        /\ pc[p] = "finish" => Present(mem[p].durable) = Blocks

CanonicalInv == TypeInv /\ MemoryLeased /\ ManifestsCanonical

\* The entry checks of decode_manifest are those of Leased.
LEMMA CanonicalLeased ==
  ASSUME NEW m
  PROVE  Canonical(m) <=>
           /\ Leased(m.entries, m.inc, m.leases)
           /\ m.status = "complete" => Present(m.entries) = Blocks
BY DEF Canonical, Leased, Present

\* Recovery moves the incarnation and every lease strictly past what it loaded.
LEMMA ResumeLeased ==
  ASSUME NEW m \in Manifest, NEW s \in U64,
         Leased(m.entries, m.inc, m.leases)
  PROVE  Leased(m.entries, NextIncarnation(m.inc, s), NextLeases(m.leases))
<1>1. m.inc \in Nat /\ s \in Nat
  BY DEF Manifest, U64
<1>2. NextIncarnation(m.inc, s) \in Nat /\ m.inc < NextIncarnation(m.inc, s)
  BY <1>1 DEF NextIncarnation
<1>3. \A b \in Blocks : /\ m.leases[b] \in Nat
                        /\ m.entries[b].inc \in Nat /\ m.entries[b].epoch \in Nat
  BY DEF Manifest, Stamp, U64
<1>4. \A b \in Blocks : NextLeases(m.leases)[b] = m.leases[b] + 1
  BY DEF NextLeases
<1> QED
  BY <1>1, <1>2, <1>3, <1>4 DEF Leased

\* A recorded result carries the current incarnation and lease.
LEMMA RecordLeased ==
  ASSUME NEW p \in Procs, TypeInv, pc[p] = "record",
         Leased(mem[p].durable, mem[p].inc, mem[p].leases)
  PROVE  /\ WithResult(p).inc = mem[p].inc
         /\ WithResult(p).leases = mem[p].leases
         /\ Leased(WithResult(p).durable, mem[p].inc, mem[p].leases)
<1>1. mem[p] \in Memory /\ hold[p] \in Blocks
  BY DEF TypeInv, TypeOK, ProcessTypes, InstallReady
<1>2. /\ WithResult(p).inc = mem[p].inc
      /\ WithResult(p).leases = mem[p].leases
      /\ WithResult(p).durable =
           [mem[p].durable EXCEPT ![hold[p]] = Lease(p, hold[p])]
  BY <1>1 DEF WithResult, Memory
<1>3. /\ Lease(p, hold[p]).inc = mem[p].inc
      /\ Lease(p, hold[p]).epoch = mem[p].leases[hold[p]]
  BY DEF Lease
<1>4. mem[p].inc \in Nat /\ mem[p].leases[hold[p]] \in Nat
  BY <1>1 DEF Memory, U64
<1>5. ASSUME NEW b \in Blocks
      PROVE  WithResult(p).durable[b] =
               IF b = hold[p] THEN Lease(p, hold[p]) ELSE mem[p].durable[b]
  BY <1>1, <1>2 DEF Memory
<1> QED
  BY <1>1, <1>2, <1>3, <1>4, <1>5 DEF Leased

\* What checkpoint() and open() write passes the checks of decode_manifest.
LEMMA DraftCanonical ==
  ASSUME NEW p \in Procs, MemoryLeased, pc[p] \in ManifestPcs
  PROVE  Canonical(Draft(p))
<1>1. Leased(mem[p].durable, mem[p].inc, mem[p].leases)
  BY DEF MemoryLeased, ManifestPcs
<1>2. DraftStatus(p) = "complete" => Present(mem[p].durable) = Blocks
  BY DEF DraftStatus, MemoryLeased, ManifestPcs
<1>3. /\ Draft(p).entries = mem[p].durable /\ Draft(p).inc = mem[p].inc
      /\ Draft(p).leases = mem[p].leases /\ Draft(p).status = DraftStatus(p)
  BY DEF Draft
<1> QED
  BY <1>1, <1>2, <1>3, CanonicalLeased

\* A process that exits has no memory left to be checked.
LEMMA ExitLeased ==
  ASSUME NEW p \in Procs, ProcessTypes, MemoryLeased, Exit(p)
  PROVE  MemoryLeased'
BY DEF Exit, Goto, MemoryLeased, Leased, Present, ProcessTypes

\* An empty run directory has no manifest to read back.
LEMMA CanonicalInit == Init => CanonicalInv
BY TypeInit DEF Init, CanonicalInv, MemoryLeased, ManifestsCanonical

\* Only a rename adds a manifest; the other steps are about memory.
LEMMA CanonicalStep == CanonicalInv /\ [Next]_vars => CanonicalInv'
<1> SUFFICES ASSUME CanonicalInv, [Next]_vars PROVE CanonicalInv'
  OBVIOUS
<1> USE DEF CanonicalInv
<1>0. TypeInv' /\ ProcessTypes /\ DiskTypes
  BY TypeStep DEF TypeInv, TypeOK
<1>1. ASSUME manifests' \subseteq manifests PROVE ManifestsCanonical'
  BY <1>1 DEF ManifestsCanonical, Canonical, Present
<1>2. ASSUME NEW p \in Procs, OpenStore(p) PROVE CanonicalInv'
  <2>1. MemoryLeased'
    BY <1>0, <1>2 DEF OpenStore, Goto, AfterLock, MemoryLeased, Leased, Present,
       ProcessTypes
  <2> QED
    BY <1>0, <1>1, <1>2, <2>1 DEF OpenStore, disk
<1>3. ASSUME NEW p \in Procs, Scan(p) PROVE CanonicalInv'
  <2>1. ASSUME StartRun(p) PROVE MemoryLeased'
    <3>1. mem'[p] = [seq |-> 0, inc |-> 1, status |-> "running",
                     leases |-> [b \in Blocks |-> 1],
                     committed |-> [b \in Blocks |-> Absent],
                     durable |-> [b \in Blocks |-> Absent]]
      BY <1>0, <2>1 DEF StartRun, NoMemory, ProcessTypes
    <3>2. Leased(mem'[p].durable, mem'[p].inc, mem'[p].leases)
      BY <3>1 DEF Leased
    <3> QED
      BY <1>0, <2>1, <3>2 DEF StartRun, Goto, MemoryLeased, Present, ProcessTypes
  <2>2. ASSUME NEW m \in manifests, LoadTerminal(p, m) PROVE MemoryLeased'
    <3>1. Leased(m.entries, m.inc, m.leases)
      BY CanonicalLeased DEF ManifestsCanonical
    <3>2. Leased(mem'[p].durable, mem'[p].inc, mem'[p].leases)
      BY <1>0, <2>2, <3>1 DEF LoadTerminal, ProcessTypes
    <3> QED
      BY <1>0, <2>2, <3>2 DEF LoadTerminal, Goto, MemoryLeased, Present, ProcessTypes
  <2>3. ASSUME NEW m \in manifests, NEW s \in U64, Resume(p, m, s)
        PROVE  MemoryLeased'
    <3>1. Leased(m.entries, m.inc, m.leases)
      BY CanonicalLeased DEF ManifestsCanonical
    <3>2. m \in Manifest
      BY <1>0 DEF DiskTypes
    <3>3. Leased(m.entries, NextIncarnation(m.inc, s), NextLeases(m.leases))
      BY <3>1, <3>2, ResumeLeased
    <3>4. Leased(mem'[p].durable, mem'[p].inc, mem'[p].leases)
      BY <1>0, <2>3, <3>3 DEF Resume, ProcessTypes
    <3> QED
      BY <1>0, <2>3, <3>4 DEF Resume, Goto, MemoryLeased, Present, ProcessTypes
  <2>4. MemoryLeased'
    BY <1>0, <1>3, <2>1, <2>2, <2>3, ExitLeased DEF Scan, Recover
  <2> QED
    BY <1>0, <1>1, <1>3, <2>4 DEF Scan, disk
<1>4. ASSUME NEW p \in Procs, RemoveOrphan(p) PROVE CanonicalInv'
  <2>1. MemoryLeased'
    BY <1>4 DEF RemoveOrphan, MemoryLeased, Leased, Present
  <2> QED
    BY <1>0, <1>1, <1>4, <2>1 DEF RemoveOrphan
<1>5. ASSUME NEW p \in Procs, FinishOpen(p) PROVE CanonicalInv'
  <2>1. CASE mem[p].status = "running"
    BY <1>0, <1>5, <2>1 DEF FinishOpen, Goto, MemoryLeased, Leased, Present,
       ProcessTypes, ManifestsCanonical, Canonical
  <2>2. CASE mem[p].status # "running"
    BY <1>0, <1>1, <1>5, <2>2, ExitLeased DEF FinishOpen
  <2> QED
    BY <2>1, <2>2
<1>6. ASSUME NEW p \in Procs, NEW b \in Blocks, Consume(p, b) PROVE CanonicalInv'
  <2>1. MemoryLeased'
    BY <1>0, <1>6 DEF Consume, Goto, MemoryLeased, Leased, Present, ProcessTypes
  <2> QED
    BY <1>0, <1>1, <1>6, <2>1 DEF Consume, disk
<1>7. ASSUME NEW p \in Procs, Finish(p) PROVE CanonicalInv'
  <2>1. MemoryLeased'
    BY <1>0, <1>7 DEF Finish, Goto, MemoryLeased, Leased, Present, ProcessTypes
  <2> QED
    BY <1>0, <1>1, <1>7, <2>1 DEF Finish, disk
<1>8. ASSUME NEW p \in Procs, WriteTemp(p) PROVE CanonicalInv'
  <2>1. Exit(p) \/ UNCHANGED <<pc, mem>>
    BY <1>8 DEF WriteTemp
  <2>2. CASE UNCHANGED <<pc, mem>>
    BY <1>0, <1>1, <1>8, <2>2 DEF WriteTemp, disk, MemoryLeased, Leased, Present
  <2>3. CASE Exit(p)
    BY <1>0, <1>1, <1>8, <2>3, ExitLeased DEF WriteTemp, disk
  <2> QED
    BY <2>1, <2>2, <2>3
<1>9. ASSUME NEW p \in Procs, Rename(p) PROVE CanonicalInv'
  <2>1. MemoryLeased'
    BY <1>9 DEF Rename, MemoryLeased, Leased, Present
  <2>2. CASE InstallMetadata(p) \/ InstallResult(p)
    BY <1>0, <1>1, <2>1, <2>2 DEF InstallMetadata, InstallResult
  <2>3. CASE InstallManifest(p)
    <3>1. Canonical(Draft(p))
      BY <2>3, DraftCanonical DEF InstallManifest
    <3>2. \A m \in manifests' : Canonical(m)
      BY <2>3, <3>1 DEF InstallManifest, ManifestsCanonical
    <3>3. ManifestsCanonical'
      BY <3>2 DEF ManifestsCanonical, Canonical, Present
    <3> QED
      BY <1>0, <2>1, <3>3
  <2> QED
    BY <1>9, <2>2, <2>3 DEF Rename
<1>10. ASSUME NEW p \in Procs, SyncDirectory(p) PROVE CanonicalInv'
  <2>1. MemoryLeased'
    BY <1>10 DEF SyncDirectory, MemoryLeased, Leased, Present
  <2> QED
    BY <1>0, <1>1, <1>10, <2>1 DEF SyncDirectory
<1>11. ASSUME NEW p \in Procs, Installed(p) PROVE CanonicalInv'
  <2>1. ManifestsCanonical'
    BY <1>1, <1>11 DEF Installed, disk
  <2>2. CASE MetadataInstalled(p) \/ RunOpened(p)
    <3>1. MemoryLeased'
      BY <1>0, <2>2 DEF MetadataInstalled, RunOpened, Goto, MemoryLeased, Leased,
         Present, ProcessTypes
    <3> QED
      BY <1>0, <2>1, <3>1
  <2>3. CASE ResultRecorded(p)
    <3>1. Leased(mem[p].durable, mem[p].inc, mem[p].leases)
      BY <2>3 DEF ResultRecorded, MemoryLeased
    <3>2. mem'[p] = WithResult(p)
      BY <1>0, <2>3 DEF ResultRecorded, ProcessTypes
    <3>3. Leased(mem'[p].durable, mem'[p].inc, mem'[p].leases)
      BY <2>3, <3>1, <3>2, RecordLeased DEF ResultRecorded
    <3>4. MemoryLeased'
      BY <1>0, <2>3, <3>3 DEF ResultRecorded, Goto, MemoryLeased, Present,
         ProcessTypes
    <3> QED
      BY <1>0, <2>1, <3>4
  <2>4. CASE CheckpointTaken(p)
    <3>1. /\ mem'[p].durable = mem[p].durable
          /\ mem'[p].inc = mem[p].inc
          /\ mem'[p].leases = mem[p].leases
      BY <1>0, <2>4 DEF CheckpointTaken, ProcessTypes, Memory
    <3>2. \A q \in Procs : q # p => mem'[q] = mem[q] /\ pc'[q] = pc[q]
      BY <1>0, <2>4 DEF CheckpointTaken, Goto, ProcessTypes
    <3>3. pc[p] = "checkpoint" /\ pc'[p] = "running"
      BY <1>0, <2>4 DEF CheckpointTaken, Goto, ProcessTypes
    <3>4. MemoryLeased'
      BY <3>1, <3>2, <3>3 DEF MemoryLeased, Leased, Present
    <3> QED
      BY <1>0, <2>1, <3>4
  <2>5. CASE RunEnded(p)
    BY <1>0, <2>1, <2>5, ExitLeased DEF RunEnded
  <2> QED
    BY <1>11, <2>2, <2>3, <2>4, <2>5 DEF Installed
<1>12. ASSUME NEW p \in Procs, Abort(p) \/ Crash(p) PROVE CanonicalInv'
  BY <1>0, <1>1, <1>12, ExitLeased DEF Abort, Crash, disk
<1>13. CASE PowerFailure
  <2>1. MemoryLeased'
    BY <1>13 DEF PowerFailure, MemoryLeased
  <2> QED
    BY <1>0, <1>1, <1>13, <2>1 DEF PowerFailure
<1>14. CASE RotManifest \/ RotResult
  <2>1. MemoryLeased'
    BY <1>14 DEF RotManifest, RotResult, volatile, MemoryLeased, Leased, Present
  <2> QED
    BY <1>0, <1>1, <1>14, <2>1 DEF RotManifest, RotResult
<1>15. CASE UNCHANGED vars
  BY <1>0, <1>1, <1>15 DEF vars, disk, volatile, MemoryLeased, Leased, Present
<1> QED
  BY <1>2, <1>3, <1>4, <1>5, <1>6, <1>7, <1>8, <1>9, <1>10, <1>11, <1>12, <1>13,
     <1>14, <1>15 DEF Next, Work

\* Whatever crashed, was lost or rotted, encode_manifest never rejects and
\* decode_manifest never refuses the form of a manifest the store writes: no
\* committed entry runs ahead of the lease table, and a complete manifest
\* names every block.
THEOREM WritesCanonicalManifests == Spec => []ManifestsCanonical
<1>1. Spec => []CanonicalInv
  BY CanonicalInit, CanonicalStep, PTL DEF Spec
<1>2. CanonicalInv => ManifestsCanonical
  BY DEF CanonicalInv
<1> QED
  BY <1>1, <1>2, PTL

-----------------------------------------------------------------------------
(* No name is taken twice at a time, and evidence is durable before it is cited *)

\* Every live process holds the flock, so there is at most one.
LockOwned == \A p \in Procs : pc[p] # "down" => lock = p

\* Incarnations run at most one ahead of sequences, and an entry was committed
\* by an incarnation no greater than the sequence of the manifest naming it.
\* Hence highest_sequence_seen + 1 exceeds the incarnation of every entry.
ManifestBounded ==
    \A m \in manifests :
        m.inc <= m.seq + 1 /\ \A b \in Blocks : m.entries[b].inc <= m.seq

\* A process that may yet write: it has loaded a running snapshot.
Active(p) ==
    \/ pc[p] \in ManifestPcs \cup {"record", "running"}
    \/ pc[p] = "cleanup" /\ mem[p].status = "running"

MemoryBounded(p) ==
    /\ mem[p].inc <= mem[p].seq + 1
    /\ pc[p] \in {"initial", "recovery"} =>
         \A b \in Blocks : mem[p].durable[b].inc <= mem[p].seq

\* The process knows a bound on every sequence in the directory.
SequenceAhead(p) ==
    \A m \in manifests :
        IF pc[p] \notin ManifestPcs THEN m.seq <= mem[p].seq
        ELSE IF stage[p] \in {"begin", "tmp"} THEN m.seq < DraftSequence(p)
        ELSE m.seq <= DraftSequence(p)

\* What a manifest has of the current incarnation, memory has too.
EntriesKnown(p) ==
    \A m \in manifests, b \in Blocks :
        m.entries[b].inc < mem[p].inc \/ m.entries[b] = mem[p].durable[b]

\* After the cleanup only results in memory are on disk, plus the one in hand.
ResultsKnown(p) ==
    /\ pc[p] \in {"initial", "recovery", "cleanup"} =>
         mem[p].committed = mem[p].durable
    /\ pc[p] \in {"running", "record", "checkpoint", "finish", "fail"} =>
         \A n \in results :
            \/ n \in Names(mem[p].durable)
            \/ pc[p] = "record" /\ stage[p] \notin {"begin", "tmp"}
                 /\ n = ResultName(p)
    /\ pc[p] = "record" => mem[p].durable[hold[p]] = Absent

\* What memory holds as durable cannot be lost any more.
ResultsDurable(p) ==
    /\ Names(mem[p].durable) \cap newResults = {}
    /\ pc[p] = "record" /\ stage[p] = "synced" => newResults = {}

ActiveOK(p) ==
    /\ MemoryBounded(p) /\ SequenceAhead(p) /\ EntriesKnown(p)
    /\ ResultsKnown(p) /\ ResultsDurable(p)

FreshInv ==
    /\ CanonicalInv
    /\ LockOwned
    /\ ManifestBounded
    /\ EvidenceBeforeManifest
    /\ \A p \in Procs : Active(p) => ActiveOK(p)

\* A file name a snapshot cites is the stamp of a committed block.
LEMMA NamesMembers ==
  \A entries, n : n \in Names(entries) <=>
     \E b \in Blocks : entries[b] # Absent /\ n = <<b, entries[b]>>
BY DEF Names, Present

\* While one process is live, every other one is down.
LEMMA OthersDown ==
  ASSUME NEW p \in Procs, LockOwned, pc[p] # "down"
  PROVE  \A q \in Procs : q # p => pc[q] = "down"
BY DEF LockOwned

\* A process that is down writes nothing.
LEMMA DownInactive ==
  ASSUME NEW p \in Procs, pc[p] = "down"
  PROVE  ~Active(p)
BY DEF Active, ManifestPcs

\* A step of a live process need only be examined for that process.
LEMMA StepOfOne ==
  ASSUME NEW p \in Procs, FreshInv, pc[p] # "down",
         \A q \in Procs : q # p => pc'[q] = pc[q],
         lock' = lock \/ pc'[p] = "down",
         CanonicalInv', ManifestBounded', EvidenceBeforeManifest',
         Active(p)' => ActiveOK(p)'
  PROVE  FreshInv'
<1>1. \A q \in Procs : q # p => pc'[q] = "down"
  BY OthersDown DEF FreshInv
<1>2. LockOwned'
  BY <1>1 DEF LockOwned, FreshInv
<1>3. \A q \in Procs : Active(q)' => ActiveOK(q)'
  <2>1. ASSUME NEW q \in Procs, q # p PROVE ~Active(q)'
    BY <1>1, <2>1 DEF Active, ManifestPcs
  <2> QED
    BY <2>1
<1> QED
  BY <1>2, <1>3 DEF FreshInv

\* A process that exits leaves the directory as it is.
LEMMA ExitFresh ==
  ASSUME NEW p \in Procs, FreshInv, pc[p] # "down", Exit(p), CanonicalInv',
         manifests' = manifests, newResults' \subseteq newResults
  PROVE  FreshInv'
<1>1. pc \in [Procs -> Pcs]
  BY DEF FreshInv, CanonicalInv, TypeInv, TypeOK, ProcessTypes
<1>2. pc'[p] = "down" /\ \A q \in Procs : q # p => pc'[q] = pc[q]
  BY <1>1 DEF Exit, Goto
<1>3. ~Active(p)'
  BY <1>2 DEF Active, ManifestPcs
<1>4. ManifestBounded' /\ EvidenceBeforeManifest'
  BY DEF FreshInv, ManifestBounded, EvidenceBeforeManifest, Names, Present
<1> QED
  BY <1>2, <1>3, <1>4, StepOfOne

\* An empty run directory holds no name at all.
LEMMA FreshInit == Init => FreshInv
BY CanonicalInit DEF Init, FreshInv, LockOwned, ManifestBounded,
   EvidenceBeforeManifest, Active, ManifestPcs

\* Resuming takes a sequence and an incarnation above all that is on disk.
LEMMA ResumeFresh ==
  ASSUME NEW p \in Procs, FreshInv, pc[p] = "scan", NEW m \in manifests,
         NEW s \in U64, HighestSequence(s), Resume(p, m, s),
         UNCHANGED <<manifests, newResults>>
  PROVE  ActiveOK(p)'
<1>1. /\ pc \in [Procs -> Pcs] /\ mem \in [Procs -> Memory]
      /\ stage \in [Procs -> Stages] /\ manifests \subseteq Manifest
  BY DEF FreshInv, CanonicalInv, TypeInv, TypeOK, ProcessTypes, DiskTypes
<1>2. /\ pc'[p] = "recovery" /\ stage'[p] = "begin"
      /\ mem'[p].seq = s + 1
      /\ mem'[p].inc = NextIncarnation(m.inc, s)
      /\ mem'[p].durable = m.entries
      /\ mem'[p].committed = m.entries
  BY <1>1 DEF Resume, Goto, NextSequence
<1>3. \A n \in manifests : n.seq \in Nat /\ n.inc \in Nat /\ n.seq <= s
  BY <1>1 DEF HighestSequence, Manifest, U64
<1>4. s \in Nat
  BY DEF U64
<1>5. \A n \in manifests, b \in Blocks :
        n.entries[b].inc \in Nat /\ n.entries[b].inc <= s
  <2>1. \A n \in manifests, b \in Blocks : n.entries[b].inc \in Nat
    BY <1>1 DEF Manifest, Stamp, U64
  <2> QED
    BY <1>3, <1>4, <2>1 DEF FreshInv, ManifestBounded
<1>6. m.inc <= m.seq + 1
  BY DEF FreshInv, ManifestBounded
<1>7. /\ mem'[p].inc \in Nat /\ s < mem'[p].inc
      /\ mem'[p].inc <= mem'[p].seq + 1
  BY <1>2, <1>3, <1>4, <1>6 DEF NextIncarnation
<1>8. MemoryBounded(p)'
  BY <1>2, <1>4, <1>5, <1>7 DEF MemoryBounded
<1>9. SequenceAhead(p)'
  BY <1>2, <1>3, <1>4 DEF SequenceAhead, DraftSequence, ManifestPcs
<1>10. EntriesKnown(p)'
  BY <1>4, <1>5, <1>7 DEF EntriesKnown
<1>11. ResultsKnown(p)'
  BY <1>2 DEF ResultsKnown
<1>12. ResultsDurable(p)'
  BY <1>2 DEF ResultsDurable, FreshInv, EvidenceBeforeManifest, Names, Present
<1> QED
  BY <1>8, <1>9, <1>10, <1>11, <1>12 DEF ActiveOK

\* A new manifest repeats what memory knows.
LEMMA ManifestFresh ==
  ASSUME NEW p \in Procs, FreshInv, Rename(p), InstallManifest(p)
  PROVE  ManifestBounded' /\ EvidenceBeforeManifest' /\ ActiveOK(p)'
<1>1. /\ pc \in [Procs -> Pcs] /\ mem \in [Procs -> Memory]
      /\ stage \in [Procs -> Stages] /\ manifests \subseteq Manifest
  BY DEF FreshInv, CanonicalInv, TypeInv, TypeOK, ProcessTypes, DiskTypes
<1>2. /\ pc[p] \in ManifestPcs /\ stage[p] = "tmp" /\ stage'[p] = "renamed"
      /\ pc' = pc /\ mem' = mem /\ hold' = hold
      /\ results' = results /\ newResults' = newResults
      /\ manifests' \subseteq manifests \cup {Draft(p)}
  BY <1>1 DEF Rename, InstallManifest
<1>3. ActiveOK(p)
  BY <1>2 DEF FreshInv, Active
<1>4. /\ Draft(p).seq = DraftSequence(p) /\ Draft(p).inc = mem[p].inc
      /\ Draft(p).entries = mem[p].durable
  BY DEF Draft
<1>5. /\ mem[p].seq \in Nat /\ mem[p].inc \in Nat /\ DraftSequence(p) \in Nat
      /\ \A b \in Blocks : mem[p].durable[b].inc \in Nat
  <2>1. mem[p] \in Memory
    BY <1>1
  <2>2. mem[p].seq \in Nat /\ mem[p].inc \in Nat
    BY <2>1 DEF Memory, U64
  <2> QED
    BY <2>1, <2>2 DEF Memory, Stamp, U64, DraftSequence
<1>6. Leased(mem[p].durable, mem[p].inc, mem[p].leases)
  BY <1>2 DEF FreshInv, CanonicalInv, MemoryLeased, ManifestPcs
<1>7. \A b \in Blocks : mem[p].durable[b].inc <= mem[p].inc
  BY <1>5, <1>6 DEF Leased, Absent
<1>8. /\ mem[p].inc <= DraftSequence(p) + 1
      /\ \A b \in Blocks : mem[p].durable[b].inc <= DraftSequence(p)
  BY <1>2, <1>3, <1>5, <1>7 DEF ActiveOK, MemoryBounded, DraftSequence, ManifestPcs
<1>9. ManifestBounded'
  BY <1>2, <1>4, <1>8 DEF ManifestBounded, FreshInv
<1>10. EvidenceBeforeManifest'
  <2>1. Names(Draft(p).entries) \cap newResults = {}
    BY <1>3, <1>4 DEF ActiveOK, ResultsDurable
  <2>2. \A m \in manifests' : Names(m.entries) \cap newResults = {}
    BY <1>2, <2>1 DEF FreshInv, EvidenceBeforeManifest
  <2> QED
    BY <1>2, <2>2 DEF EvidenceBeforeManifest, Names, Present
<1>11. MemoryBounded(p)'
  BY <1>2, <1>3 DEF ActiveOK, MemoryBounded
<1>12. SequenceAhead(p)'
  <2>1. \A m \in manifests : m.seq \in Nat /\ m.seq < DraftSequence(p)
    BY <1>1, <1>2, <1>3 DEF ActiveOK, SequenceAhead, Manifest, U64
  <2>2. \A m \in manifests' : m.seq <= DraftSequence(p)
    BY <1>2, <1>4, <1>5, <2>1
  <2>3. DraftSequence(p)' = DraftSequence(p)
    BY <1>2 DEF DraftSequence
  <2> QED
    BY <1>2, <2>2, <2>3 DEF SequenceAhead
<1>13. EntriesKnown(p)'
  BY <1>2, <1>3, <1>4 DEF ActiveOK, EntriesKnown
<1>14. ResultsKnown(p)'
  BY <1>2, <1>3 DEF ActiveOK, ResultsKnown, ManifestPcs, Names, Present,
     ResultName, Lease
<1>15. ResultsDurable(p)'
  BY <1>2, <1>3 DEF ActiveOK, ResultsDurable, ManifestPcs, Names, Present
<1> QED
  BY <1>9, <1>10, <1>11, <1>12, <1>13, <1>14, <1>15 DEF ActiveOK

\* A new result has a name that neither a manifest nor memory knows.
LEMMA ResultFresh ==
  ASSUME NEW p \in Procs, FreshInv, Rename(p), InstallResult(p)
  PROVE  EvidenceBeforeManifest' /\ ActiveOK(p)'
<1>1. /\ pc \in [Procs -> Pcs] /\ mem \in [Procs -> Memory]
      /\ stage \in [Procs -> Stages] /\ hold[p] \in Blocks
      /\ manifests \subseteq Manifest
  BY DEF FreshInv, CanonicalInv, TypeInv, TypeOK, ProcessTypes, DiskTypes,
     InstallReady, InstallResult
<1>2. /\ pc[p] = "record" /\ stage[p] = "tmp" /\ stage'[p] = "renamed"
      /\ pc' = pc /\ mem' = mem /\ hold' = hold /\ manifests' = manifests
      /\ results' = results \cup {ResultName(p)}
      /\ newResults' = newResults \cup {ResultName(p)}
  BY <1>1 DEF Rename, InstallResult
<1>3. ActiveOK(p)
  BY <1>2 DEF FreshInv, Active
<1>4. mem[p].durable[hold[p]] = Absent
  BY <1>2, <1>3 DEF ActiveOK, ResultsKnown
<1>5. ResultName(p) = <<hold[p], Lease(p, hold[p])>> /\ Lease(p, hold[p]).inc = mem[p].inc
  BY DEF ResultName, Lease
<1>6. ResultName(p) \notin Names(mem[p].durable)
  BY <1>4, <1>5, NamesMembers
<1>7. \A m \in manifests : ResultName(p) \notin Names(m.entries)
  <2> SUFFICES ASSUME NEW m \in manifests, ResultName(p) \in Names(m.entries)
               PROVE  FALSE
    OBVIOUS
  <2>1. m.entries[hold[p]] # Absent /\ m.entries[hold[p]] = Lease(p, hold[p])
    BY <1>5, NamesMembers
  <2>2. mem[p].inc \in Nat
    BY <1>1 DEF Memory, U64
  <2>3. m.entries[hold[p]] = mem[p].durable[hold[p]]
    BY <1>1, <1>3, <1>5, <2>1, <2>2 DEF ActiveOK, EntriesKnown
  <2> QED
    BY <1>4, <2>1, <2>3
<1>8. EvidenceBeforeManifest'
  <2>1. \A m \in manifests' : Names(m.entries) \cap newResults' = {}
    BY <1>2, <1>7 DEF FreshInv, EvidenceBeforeManifest
  <2> QED
    BY <2>1 DEF EvidenceBeforeManifest, Names, Present
<1>9. ResultName(p)' = ResultName(p)
  BY <1>2 DEF ResultName, Lease
<1>10. MemoryBounded(p)' /\ EntriesKnown(p)'
  BY <1>2, <1>3 DEF ActiveOK, MemoryBounded, EntriesKnown
<1>11. SequenceAhead(p)'
  BY <1>2, <1>3 DEF ActiveOK, SequenceAhead, ManifestPcs
<1>12. ResultsKnown(p)'
  <2>1. \A n \in results' : n \in Names(mem[p].durable) \/ n = ResultName(p)
    BY <1>2, <1>3 DEF ActiveOK, ResultsKnown
  <2>2. Names(mem[p].durable)' = Names(mem[p].durable)
    BY <1>2 DEF Names, Present
  <2> QED
    BY <1>2, <1>4, <1>9, <2>1, <2>2 DEF ResultsKnown
<1>13. ResultsDurable(p)'
  <2>1. Names(mem[p].durable) \cap newResults' = {}
    BY <1>2, <1>3, <1>6 DEF ActiveOK, ResultsDurable
  <2> QED
    BY <1>2, <2>1 DEF ResultsDurable, Names, Present
<1> QED
  BY <1>8, <1>10, <1>11, <1>12, <1>13 DEF ActiveOK

\* The result just recorded joins what memory holds as durable.
LEMMA RecordFresh ==
  ASSUME NEW p \in Procs, FreshInv, Installed(p), ResultRecorded(p)
  PROVE  ActiveOK(p)'
<1>1. /\ pc \in [Procs -> Pcs] /\ mem \in [Procs -> Memory]
      /\ stage \in [Procs -> Stages] /\ hold[p] \in Blocks
      /\ manifests \subseteq Manifest /\ TypeInv
  BY DEF FreshInv, CanonicalInv, TypeInv, TypeOK, ProcessTypes, DiskTypes,
     InstallReady, ResultRecorded
<1>2. /\ pc[p] = "record" /\ stage[p] = "synced" /\ stage'[p] = "begin"
      /\ pc'[p] \in {"checkpoint", "running"}
      /\ mem'[p] = WithResult(p)
      /\ manifests' = manifests /\ results' = results /\ newResults' = newResults
  BY <1>1 DEF Installed, ResultRecorded, Goto, disk
<1>3. ActiveOK(p)
  BY <1>2 DEF FreshInv, Active
<1>4. /\ mem'[p].seq = mem[p].seq /\ mem'[p].inc = mem[p].inc
      /\ mem'[p].durable = [mem[p].durable EXCEPT ![hold[p]] = Lease(p, hold[p])]
  BY <1>1, <1>2 DEF WithResult, Memory
<1>5. mem[p].seq \in Nat /\ mem[p].inc \in Nat /\ mem[p].inc # 0
  <2>1. mem[p].inc # 0
    BY <1>2 DEF FreshInv, CanonicalInv, MemoryLeased, Leased
  <2> QED
    BY <1>1, <2>1 DEF Memory, U64
<1>6. Lease(p, hold[p]) # Absent
  BY <1>5 DEF Lease, Absent
<1>7. mem[p].durable[hold[p]] = Absent
  BY <1>2, <1>3 DEF ActiveOK, ResultsKnown
<1>8. \A b \in Blocks : mem'[p].durable[b] =
        IF b = hold[p] THEN Lease(p, hold[p]) ELSE mem[p].durable[b]
  BY <1>1, <1>4 DEF Memory
<1>9. MemoryBounded(p)'
  BY <1>2, <1>3, <1>4 DEF ActiveOK, MemoryBounded
<1>10. SequenceAhead(p)'
  <2>1. \A m \in manifests : m.seq \in Nat /\ m.seq <= mem[p].seq
    BY <1>1, <1>2, <1>3 DEF ActiveOK, SequenceAhead, ManifestPcs, Manifest, U64
  <2> QED
    BY <1>2, <1>4, <1>5, <2>1 DEF SequenceAhead, DraftSequence, ManifestPcs
<1>11. EntriesKnown(p)'
  <2> SUFFICES ASSUME NEW m \in manifests, NEW b \in Blocks
               PROVE  \/ m.entries[b].inc < mem'[p].inc
                      \/ m.entries[b] = mem'[p].durable[b]
    BY <1>2 DEF EntriesKnown
  <2>1. \/ m.entries[b].inc < mem[p].inc
        \/ m.entries[b] = mem[p].durable[b]
    BY <1>3 DEF ActiveOK, EntriesKnown
  <2>2. CASE b # hold[p]
    BY <1>4, <1>8, <2>1, <2>2
  <2>3. CASE b = hold[p]
    BY <1>4, <1>5, <1>7, <2>1, <2>3 DEF Absent
  <2> QED
    BY <2>2, <2>3
<1>12. \A n : n \in Names(mem'[p].durable) <=>
             n \in Names(mem[p].durable) \/ n = ResultName(p)
  BY <1>1, <1>6, <1>7, <1>8, NamesMembers DEF ResultName
<1>13. ResultsKnown(p)'
  <2>1. \A n \in results : n \in Names(mem'[p].durable)
    BY <1>2, <1>3, <1>12 DEF ActiveOK, ResultsKnown
  <2> QED
    BY <1>2, <2>1 DEF ResultsKnown, Names, Present
<1>14. ResultsDurable(p)'
  <2>1. newResults' = {}
    BY <1>2, <1>3 DEF ActiveOK, ResultsDurable
  <2> QED
    BY <1>2, <2>1 DEF ResultsDurable
<1> QED
  BY <1>9, <1>10, <1>11, <1>13, <1>14 DEF ActiveOK

\* One step per action of Next.
LEMMA FreshStep == FreshInv /\ [Next]_vars => FreshInv'
<1> SUFFICES ASSUME FreshInv, [Next]_vars PROVE FreshInv'
  OBVIOUS
<1>0. /\ CanonicalInv'
      /\ pc \in [Procs -> Pcs] /\ mem \in [Procs -> Memory]
      /\ stage \in [Procs -> Stages] /\ hold \in [Procs -> Blocks \cup {None}]
      /\ manifests \subseteq Manifest
  BY CanonicalStep DEF FreshInv, CanonicalInv, TypeInv, TypeOK, ProcessTypes,
     DiskTypes
<1>a. ASSUME manifests' = manifests, newResults' \subseteq newResults
      PROVE  ManifestBounded' /\ EvidenceBeforeManifest'
  BY <1>a DEF FreshInv, ManifestBounded, EvidenceBeforeManifest, Names, Present
<1>1. ASSUME NEW p \in Procs, OpenStore(p) PROVE FreshInv'
  <2>1. \A q \in Procs : pc[q] = "down"
    BY <1>1, NoneAssumption DEF OpenStore, LockFree, FreshInv, LockOwned
  <2>2. \A q \in Procs : pc'[q] \in {"down", "meta", "scan"}
    BY <1>0, <1>1, <2>1 DEF OpenStore, Goto, AfterLock
  <2>3. \A q \in Procs : ~Active(q)'
    BY <2>2 DEF Active, ManifestPcs
  <2>4. LockOwned'
    BY <1>0, <1>1, <2>1 DEF OpenStore, Goto, LockOwned
  <2>5. manifests' = manifests /\ newResults' = newResults
    BY <1>1 DEF OpenStore, disk
  <2> QED
    BY <1>0, <1>a, <2>3, <2>4, <2>5 DEF FreshInv
<1>2. ASSUME NEW p \in Procs, Scan(p) PROVE FreshInv'
  <2>1. pc[p] = "scan" /\ manifests' = manifests /\ newResults' = newResults
    BY <1>2 DEF Scan, disk
  <2>2. ManifestBounded' /\ EvidenceBeforeManifest'
    BY <1>a, <2>1
  <2>3. CASE Exit(p)
    BY <1>0, <2>1, <2>3, ExitFresh
  <2>4. CASE StartRun(p)
    <3>1. /\ pc'[p] = "initial" /\ mem'[p].seq = 0 /\ mem'[p].inc = 1
          /\ mem'[p].durable = [b \in Blocks |-> Absent]
          /\ mem'[p].committed = [b \in Blocks |-> Absent]
      BY <1>0, <2>4 DEF StartRun, Goto, NoMemory
    <3>2. manifests' = {}
      BY <2>1, <2>4 DEF StartRun
    <3>3. MemoryBounded(p)'
      BY <3>1 DEF MemoryBounded, Absent
    <3>4. SequenceAhead(p)' /\ EntriesKnown(p)'
      BY <3>2 DEF SequenceAhead, EntriesKnown
    <3>5. ResultsKnown(p)'
      BY <3>1 DEF ResultsKnown
    <3>6. ResultsDurable(p)'
      BY <3>1 DEF ResultsDurable, Names, Present
    <3>7. (\A q \in Procs : q # p => pc'[q] = pc[q]) /\ lock' = lock
      BY <1>0, <2>4 DEF StartRun, Goto
    <3> QED
      BY <1>0, <2>1, <2>2, <3>3, <3>4, <3>5, <3>6, <3>7, StepOfOne DEF ActiveOK
  <2>5. ASSUME NEW m \in manifests, m.status # "running", LoadTerminal(p, m)
        PROVE  FreshInv'
    <3>1. pc'[p] = "cleanup" /\ mem'[p].status # "running"
      BY <1>0, <2>5 DEF LoadTerminal, Goto
    <3>2. ~Active(p)'
      BY <3>1 DEF Active, ManifestPcs
    <3>3. (\A q \in Procs : q # p => pc'[q] = pc[q]) /\ lock' = lock
      BY <1>0, <2>5 DEF LoadTerminal, Goto
    <3> QED
      BY <1>0, <2>1, <2>2, <3>2, <3>3, StepOfOne
  <2>6. ASSUME NEW m \in manifests, NEW s \in U64, HighestSequence(s),
               Resume(p, m, s)
        PROVE  FreshInv'
    <3>1. ActiveOK(p)'
      BY <2>1, <2>6, ResumeFresh
    <3>2. (\A q \in Procs : q # p => pc'[q] = pc[q]) /\ lock' = lock
      BY <1>0, <2>6 DEF Resume, Goto
    <3> QED
      BY <1>0, <2>1, <2>2, <3>1, <3>2, StepOfOne
  <2> QED
    BY <1>2, <2>3, <2>4, <2>5, <2>6 DEF Scan, Recover
<1>3. ASSUME NEW p \in Procs, RemoveOrphan(p) PROVE FreshInv'
  <2>1. /\ pc[p] = "cleanup" /\ pc' = pc /\ mem' = mem /\ lock' = lock
        /\ manifests' = manifests /\ newResults' \subseteq newResults
    BY <1>3 DEF RemoveOrphan
  <2>2. ASSUME Active(p) PROVE ActiveOK(p)'
    <3>1. ActiveOK(p)
      BY <2>2 DEF FreshInv
    <3>2. MemoryBounded(p)' /\ SequenceAhead(p)' /\ EntriesKnown(p)'
      BY <2>1, <3>1 DEF ActiveOK, MemoryBounded, SequenceAhead, EntriesKnown,
         ManifestPcs
    <3>3. ResultsKnown(p)' /\ ResultsDurable(p)'
      BY <2>1, <3>1 DEF ActiveOK, ResultsKnown, ResultsDurable, Names, Present
    <3> QED
      BY <3>2, <3>3 DEF ActiveOK
  <2>3. Active(p)' => Active(p)
    BY <2>1 DEF Active
  <2> QED
    BY <1>0, <1>a, <2>1, <2>2, <2>3, StepOfOne
<1>4. ASSUME NEW p \in Procs, FinishOpen(p) PROVE FreshInv'
  <2>1. /\ pc[p] = "cleanup" /\ Orphans(p) = {} /\ manifests' = manifests
        /\ results' = results /\ newResults' \subseteq newResults
    BY <1>4 DEF FinishOpen, SyncResults
  <2>2. CASE mem[p].status # "running"
    BY <1>0, <1>4, <2>1, <2>2, ExitFresh DEF FinishOpen
  <2>3. CASE mem[p].status = "running"
    <3>1. /\ pc'[p] = "running" /\ mem' = mem /\ lock' = lock
          /\ \A q \in Procs : q # p => pc'[q] = pc[q]
      BY <1>0, <1>4, <2>3 DEF FinishOpen, Goto
    <3>2. ActiveOK(p)
      BY <2>1, <2>3 DEF FreshInv, Active
    <3>3. MemoryBounded(p)' /\ SequenceAhead(p)' /\ EntriesKnown(p)'
      BY <2>1, <3>1, <3>2 DEF ActiveOK, MemoryBounded, SequenceAhead,
         EntriesKnown, ManifestPcs
    <3>4. ResultsKnown(p)'
      <4>1. \A n \in results : n \in Names(mem[p].durable)
        BY <2>1, <3>2 DEF Orphans, ActiveOK, ResultsKnown
      <4> QED
        BY <2>1, <3>1, <4>1 DEF ResultsKnown, Names, Present
    <3>5. ResultsDurable(p)'
      BY <2>1, <3>1, <3>2 DEF ActiveOK, ResultsDurable, Names, Present
    <3> QED
      BY <1>0, <1>a, <2>1, <3>1, <3>3, <3>4, <3>5, StepOfOne DEF ActiveOK
  <2> QED
    BY <2>2, <2>3
<1>5. ASSUME NEW p \in Procs, Finish(p) \/ \E b \in Blocks : Consume(p, b)
      PROVE  FreshInv'
  <2>1. /\ pc[p] = "running" /\ pc'[p] \in {"finish", "fail", "record"}
        /\ stage'[p] = "begin" /\ mem' = mem /\ lock' = lock
        /\ manifests' = manifests /\ results' = results
        /\ newResults' = newResults
        /\ \A q \in Procs : q # p => pc'[q] = pc[q]
    BY <1>0, <1>5 DEF Finish, Consume, Goto, disk
  <2>2. ActiveOK(p)
    BY <2>1 DEF FreshInv, Active
  <2>3. MemoryBounded(p)' /\ EntriesKnown(p)'
    BY <2>1, <2>2 DEF ActiveOK, MemoryBounded, EntriesKnown
  <2>4. SequenceAhead(p)'
    <3>1. \A m \in manifests : m.seq \in Nat /\ m.seq <= mem[p].seq
      BY <1>0, <2>1, <2>2 DEF ActiveOK, SequenceAhead, ManifestPcs, Manifest, U64
    <3>2. mem[p].seq \in Nat
      BY <1>0 DEF Memory, U64
    <3> QED
      BY <2>1, <3>1, <3>2 DEF SequenceAhead, DraftSequence, ManifestPcs
  <2>5. pc'[p] = "record" => mem[p].durable[hold'[p]] = Absent
    BY <1>0, <1>5, <2>1 DEF Finish, Consume, Goto, Present
  <2>6. ResultsKnown(p)'
    <3>1. \A n \in results : n \in Names(mem[p].durable)
      BY <2>1, <2>2 DEF ActiveOK, ResultsKnown
    <3> QED
      BY <2>1, <2>5, <3>1 DEF ResultsKnown, Names, Present
  <2>7. ResultsDurable(p)'
    BY <2>1, <2>2 DEF ActiveOK, ResultsDurable, Names, Present
  <2> QED
    BY <1>0, <1>a, <2>1, <2>3, <2>4, <2>6, <2>7, StepOfOne DEF ActiveOK
<1>6. ASSUME NEW p \in Procs, WriteTemp(p) PROVE FreshInv'
  <2>1. /\ pc[p] \in InstallPcs /\ stage[p] = "begin" /\ pc[p] # "down"
        /\ manifests' = manifests /\ results' = results
        /\ newResults' = newResults
    BY <1>6 DEF WriteTemp, disk, InstallPcs, ManifestPcs
  <2>2. CASE Exit(p)
    BY <1>0, <2>1, <2>2, ExitFresh
  <2>3. CASE ~Exit(p)
    <3>1. UNCHANGED <<lock, pc, hold, mem>>
      BY <1>6, <2>3 DEF WriteTemp
    <3>2. ASSUME Active(p) PROVE ActiveOK(p)'
      <4>1. ActiveOK(p)
        BY <3>2 DEF FreshInv
      <4>2. ~TargetExists(p)
        <5>1. pc[p] \in ManifestPcs => \A m \in manifests : m.seq # DraftSequence(p)
          <6>1. \A m \in manifests : m.seq \in Nat
            BY <1>0 DEF Manifest, U64
          <6> QED
            BY <2>1, <4>1, <6>1 DEF ActiveOK, SequenceAhead
        <5>2. pc[p] = "record" => ResultName(p) \notin results
          BY <2>1, <4>1, NamesMembers DEF ActiveOK, ResultsKnown, ResultName
        <5> QED
          BY <5>1, <5>2 DEF TargetExists
      <4>3. stage'[p] = "tmp"
        BY <1>0, <1>6, <2>3, <4>2 DEF WriteTemp
      <4>4. MemoryBounded(p)' /\ SequenceAhead(p)' /\ EntriesKnown(p)'
        BY <2>1, <3>1, <4>1, <4>3 DEF ActiveOK, MemoryBounded, SequenceAhead,
           EntriesKnown, DraftSequence
      <4>5. ResultsKnown(p)' /\ ResultsDurable(p)'
        BY <2>1, <3>1, <4>1, <4>3 DEF ActiveOK, ResultsKnown, ResultsDurable,
           Names, Present
      <4> QED
        BY <4>4, <4>5 DEF ActiveOK
    <3>3. Active(p)' => Active(p)
      BY <3>1 DEF Active
    <3> QED
      BY <1>0, <1>a, <2>1, <3>1, <3>2, <3>3, StepOfOne
  <2> QED
    BY <2>2, <2>3
<1>7. ASSUME NEW p \in Procs, Rename(p) PROVE FreshInv'
  <2>1. /\ pc[p] \in InstallPcs /\ pc[p] # "down" /\ pc' = pc /\ lock' = lock
        /\ mem' = mem
    BY <1>7 DEF Rename, InstallPcs, ManifestPcs
  <2>2. CASE InstallMetadata(p)
    <3>1. ~Active(p)' /\ manifests' = manifests /\ newResults' = newResults
      BY <2>1, <2>2 DEF InstallMetadata, Active, ManifestPcs
    <3> QED
      BY <1>0, <1>a, <2>1, <3>1, StepOfOne
  <2>3. CASE InstallResult(p)
    <3>1. ManifestBounded'
      BY <2>3 DEF InstallResult, FreshInv, ManifestBounded
    <3> QED
      BY <1>0, <1>7, <2>1, <2>3, <3>1, ResultFresh, StepOfOne
  <2>4. CASE InstallManifest(p)
    BY <1>0, <1>7, <2>1, <2>4, ManifestFresh, StepOfOne
  <2> QED
    BY <1>7, <2>2, <2>3, <2>4 DEF Rename
<1>8. ASSUME NEW p \in Procs, SyncDirectory(p) PROVE FreshInv'
  <2>1. /\ pc[p] \in InstallPcs /\ pc[p] # "down" /\ pc' = pc /\ lock' = lock
        /\ mem' = mem /\ hold' = hold /\ manifests' = manifests
        /\ results' = results /\ newResults' \subseteq newResults
        /\ stage[p] = "renamed" /\ stage'[p] = "synced"
        /\ pc[p] = "record" => newResults' = {}
    BY <1>0, <1>8 DEF SyncDirectory, InstallPcs, ManifestPcs, SyncResults
  <2>2. ASSUME Active(p) PROVE ActiveOK(p)'
    <3>1. ActiveOK(p)
      BY <2>2 DEF FreshInv
    <3>2. MemoryBounded(p)' /\ SequenceAhead(p)' /\ EntriesKnown(p)'
      BY <2>1, <3>1 DEF ActiveOK, MemoryBounded, SequenceAhead, EntriesKnown,
         DraftSequence
    <3>3. ResultsKnown(p)' /\ ResultsDurable(p)'
      BY <2>1, <3>1 DEF ActiveOK, ResultsKnown, ResultsDurable, Names, Present,
         ResultName, Lease
    <3> QED
      BY <3>2, <3>3 DEF ActiveOK
  <2>3. Active(p)' => Active(p)
    BY <2>1 DEF Active
  <2> QED
    BY <1>0, <1>a, <2>1, <2>2, <2>3, StepOfOne
<1>9. ASSUME NEW p \in Procs, Installed(p) PROVE FreshInv'
  <2>1. /\ manifests' = manifests /\ results' = results
        /\ newResults' = newResults /\ stage[p] = "synced"
    BY <1>9 DEF Installed, disk
  <2>2. ManifestBounded' /\ EvidenceBeforeManifest'
    BY <1>a, <2>1
  <2>3. CASE MetadataInstalled(p)
    <3>1. /\ pc[p] = "meta" /\ pc'[p] = "scan" /\ lock' = lock
          /\ \A q \in Procs : q # p => pc'[q] = pc[q]
      BY <1>0, <2>3 DEF MetadataInstalled, Goto
    <3>2. ~Active(p)'
      BY <3>1 DEF Active, ManifestPcs
    <3> QED
      BY <1>0, <2>2, <3>1, <3>2, StepOfOne
  <2>4. CASE ResultRecorded(p)
    <3>1. pc[p] = "record" /\ lock' = lock /\ \A q \in Procs : q # p => pc'[q] = pc[q]
      BY <1>0, <2>4 DEF ResultRecorded, Goto
    <3>2. ActiveOK(p)'
      BY <1>9, <2>4, RecordFresh
    <3> QED
      BY <1>0, <2>2, <3>1, <3>2, StepOfOne
  <2>5. CASE RunOpened(p) \/ CheckpointTaken(p)
    <3>1. /\ pc[p] \in {"initial", "recovery", "checkpoint"} /\ lock' = lock
          /\ pc'[p] = IF pc[p] = "checkpoint" THEN "running" ELSE "cleanup"
          /\ mem'[p].seq = DraftSequence(p)
          /\ mem'[p].inc = mem[p].inc /\ mem'[p].durable = mem[p].durable
          /\ pc[p] # "checkpoint" => mem'[p].committed = mem[p].committed
          /\ \A q \in Procs : q # p => pc'[q] = pc[q]
      BY <1>0, <2>5 DEF RunOpened, CheckpointTaken, Goto, DraftSequence, Memory
    <3>2. ActiveOK(p)
      BY <3>1 DEF FreshInv, Active, ManifestPcs
    <3>3. mem[p].seq \in Nat /\ mem[p].inc \in Nat /\ DraftSequence(p) \in Nat
      <4>1. mem[p].seq \in Nat /\ mem[p].inc \in Nat
        BY <1>0 DEF Memory, U64
      <4> QED
        BY <4>1 DEF DraftSequence
    <3>4. MemoryBounded(p)'
      BY <3>1, <3>2, <3>3 DEF ActiveOK, MemoryBounded, DraftSequence
    <3>5. SequenceAhead(p)'
      BY <2>1, <3>1, <3>2 DEF ActiveOK, SequenceAhead, ManifestPcs
    <3>6. EntriesKnown(p)'
      BY <2>1, <3>1, <3>2 DEF ActiveOK, EntriesKnown
    <3>7. ResultsKnown(p)'
      BY <2>1, <3>1, <3>2 DEF ActiveOK, ResultsKnown, Names, Present
    <3>8. ResultsDurable(p)'
      BY <2>1, <3>1, <3>2 DEF ActiveOK, ResultsDurable, Names, Present
    <3> QED
      BY <1>0, <2>2, <3>1, <3>4, <3>5, <3>6, <3>7, <3>8, StepOfOne DEF ActiveOK
  <2>6. CASE RunEnded(p)
    <3>1. pc[p] # "down"
      BY <2>6 DEF RunEnded
    <3> QED
      BY <1>0, <2>1, <2>6, <3>1, ExitFresh DEF RunEnded
  <2> QED
    BY <1>9, <2>3, <2>4, <2>5, <2>6 DEF Installed
<1>10. ASSUME NEW p \in Procs, Abort(p) \/ Crash(p) PROVE FreshInv'
  BY <1>0, <1>10, ExitFresh DEF Abort, Crash, disk
<1>11. CASE PowerFailure
  <2>1. \A q \in Procs : pc'[q] = "down"
    BY <1>11 DEF PowerFailure
  <2>2. LockOwned' /\ \A q \in Procs : ~Active(q)'
    BY <2>1 DEF LockOwned, Active, ManifestPcs
  <2>3. manifests' \subseteq manifests /\ newResults' = {}
    BY <1>11 DEF PowerFailure
  <2>4. ManifestBounded' /\ EvidenceBeforeManifest'
    BY <2>3 DEF FreshInv, ManifestBounded, EvidenceBeforeManifest
  <2> QED
    BY <1>0, <2>2, <2>4 DEF FreshInv
<1>12. CASE RotManifest \/ RotResult \/ UNCHANGED vars
  <2>1. UNCHANGED <<pc, stage, hold, mem, lock, manifests, results, newResults>>
    BY <1>12 DEF RotManifest, RotResult, vars, disk, volatile
  <2>2. LockOwned'
    BY <2>1 DEF FreshInv, LockOwned
  <2>3. ASSUME NEW q \in Procs, Active(q)' PROVE ActiveOK(q)'
    <3>1. ActiveOK(q)
      BY <2>1, <2>3 DEF FreshInv, Active
    <3>2. MemoryBounded(q)' /\ SequenceAhead(q)' /\ EntriesKnown(q)'
      BY <2>1, <3>1 DEF ActiveOK, MemoryBounded, SequenceAhead, EntriesKnown,
         DraftSequence
    <3>3. ResultsKnown(q)' /\ ResultsDurable(q)'
      BY <2>1, <3>1 DEF ActiveOK, ResultsKnown, ResultsDurable, Names, Present,
         ResultName, Lease
    <3> QED
      BY <3>2, <3>3 DEF ActiveOK
  <2> QED
    BY <1>0, <1>a, <2>1, <2>2, <2>3 DEF FreshInv
<1> QED
  BY <1>1, <1>2, <1>3, <1>4, <1>5, <1>6, <1>7, <1>8, <1>9, <1>10, <1>11, <1>12
     DEF Next, Work

\* The inductive invariant holds in every behaviour.
LEMMA FreshAlways == Spec => []FreshInv
BY FreshInit, FreshStep, PTL DEF Spec

\* No manifest ever cites a result whose directory entry could still be lost,
\* for any interleaving of processes and any number of crashes, power failures
\* and rotten files: record_result is durable before checkpoint() names it.
THEOREM EvidenceIsDurable == Spec => []EvidenceBeforeManifest
<1>1. FreshInv => EvidenceBeforeManifest
  BY DEF FreshInv
<1> QED
  BY <1>1, FreshAlways, PTL

\* The invariant keeps every name free until it is installed.
LEMMA FreshInvNames == FreshInv => FreshNames
<1> SUFFICES ASSUME FreshInv, NEW p \in Procs, pc[p] \in InstallPcs,
                    stage[p] \in {"begin", "tmp"}, TargetExists(p)
             PROVE  FALSE
  BY DEF FreshNames
<1>1. ActiveOK(p)
  BY DEF FreshInv, Active, TargetExists
<1>2. \A m \in manifests : m.seq \in Nat
  BY DEF FreshInv, CanonicalInv, TypeInv, TypeOK, DiskTypes, Manifest, U64
<1>3. CASE pc[p] \in ManifestPcs
  BY <1>1, <1>2, <1>3 DEF TargetExists, ActiveOK, SequenceAhead, ManifestPcs
<1>4. CASE pc[p] = "record"
  BY <1>1, <1>4, NamesMembers DEF TargetExists, ActiveOK, ResultsKnown,
     ResultName, ManifestPcs
<1> QED
  BY <1>3, <1>4 DEF TargetExists

\* The branch of atomic_write that finds its final path taken is never needed:
\* the sequences and result names that a process takes are those of no file on
\* disk, even when recovery falls back past rotten manifests and announces an
\* incarnation again.
THEOREM NamesAreFresh == Spec => []FreshNames
BY FreshInvNames, FreshAlways, PTL

-----------------------------------------------------------------------------
(* What was acknowledged survives, and nobody's temporary is swept away *)

\* The sequence is in the directory, and no power failure can take it away.
DurableSequence(s) == s \notin newManifests /\ \E m \in manifests : m.seq = s

AckedDurable == \A s \in acked : DurableSequence(s)

\* How far the install of process p has come is what the disk shows of it.
InstallShown(p) ==
    /\ pc[p] = "down" => stage[p] = "begin"
    /\ stage[p] = "tmp" => p \in temps
    /\ pc[p] \in ManifestPcs /\ stage[p] = "renamed" =>
         \E m \in manifests : m.seq = DraftSequence(p)
    /\ pc[p] \in ManifestPcs /\ stage[p] = "synced" =>
         DurableSequence(DraftSequence(p))

AckInv == FreshInv /\ AckedDurable /\ \A p \in Procs : InstallShown(p)

\* Nothing is acknowledged and nobody installs in an empty run directory.
LEMMA AckInit == Init => AckInv
BY FreshInit DEF Init, AckInv, AckedDurable, InstallShown, ManifestPcs

\* A process between two installs shows nothing.
LEMMA BeginShown ==
  ASSUME NEW p \in Procs, stage'[p] = "begin"
  PROVE  InstallShown(p)'
BY DEF InstallShown

\* A step of a live process need only be examined for that process.
LEMMA ShownOfOne ==
  ASSUME NEW p \in Procs, AckInv, pc[p] # "down",
         \A q \in Procs : q # p => stage'[q] = stage[q],
         InstallShown(p)'
  PROVE  \A q \in Procs : InstallShown(q)'
<1> SUFFICES ASSUME NEW q \in Procs, q # p PROVE InstallShown(q)'
  OBVIOUS
<1>1. pc[q] = "down"
  BY OthersDown DEF AckInv, FreshInv
<1>2. stage'[q] = "begin"
  BY <1>1 DEF AckInv, InstallShown
<1> QED
  BY <1>2, BeginShown

\* A step of p that ends or restarts what p is doing, and installs nothing.
LEMMA GotoShown ==
  ASSUME NEW p \in Procs, AckInv, FreshInv', pc[p] # "down",
         stage' = [stage EXCEPT ![p] = "begin"],
         UNCHANGED <<manifests, newManifests>>,
         \A s \in acked' : DurableSequence(s)
  PROVE  AckInv'
<1>1. stage'[p] = "begin" /\ \A q \in Procs : q # p => stage'[q] = stage[q]
  BY DEF AckInv, FreshInv, CanonicalInv, TypeInv, TypeOK, ProcessTypes
<1>2. AckedDurable'
  BY DEF AckedDurable, DurableSequence
<1> QED
  BY <1>1, <1>2, BeginShown, ShownOfOne DEF AckInv

\* One step per action.
LEMMA AckStep == AckInv /\ [Next]_vars => AckInv'
<1> SUFFICES ASSUME AckInv, [Next]_vars PROVE AckInv'
  OBVIOUS
<1>1. FreshInv' /\ FreshNames
  BY FreshStep, FreshInvNames DEF AckInv
<1>2. /\ pc \in [Procs -> Pcs] /\ stage \in [Procs -> Stages]
      /\ mem \in [Procs -> Memory] /\ temps \subseteq Procs
  BY DEF AckInv, FreshInv, CanonicalInv, TypeInv, TypeOK, ProcessTypes
<1>3. \A s \in acked : DurableSequence(s)
  BY DEF AckInv, AckedDurable
<1>4. ASSUME NEW p \in Procs, OpenStore(p) PROVE AckInv'
  <2>1. \A q \in Procs : pc[q] = "down"
    BY <1>4, NoneAssumption DEF OpenStore, LockFree, AckInv, FreshInv, LockOwned
  <2>2. \A q \in Procs : stage'[q] = "begin"
    BY <1>2, <1>4, <2>1 DEF OpenStore, Goto, AckInv, InstallShown
  <2>3. AckedDurable'
    BY <1>3, <1>4 DEF OpenStore, disk, history, AckedDurable, DurableSequence
  <2> QED
    BY <1>1, <2>2, <2>3, BeginShown DEF AckInv
<1>5. ASSUME NEW p \in Procs,
             Scan(p) \/ FinishOpen(p) \/ (\E b \in Blocks : Consume(p, b))
               \/ Finish(p) \/ Abort(p) \/ Crash(p)
      PROVE  AckInv'
  <2>1. /\ pc[p] # "down" /\ stage' = [stage EXCEPT ![p] = "begin"]
        /\ UNCHANGED <<manifests, newManifests, acked>>
    <3>1. CASE Scan(p)
      BY <3>1 DEF Scan, StartRun, Recover, LoadTerminal, Resume, Exit, Goto, disk,
         history
    <3>2. CASE FinishOpen(p)
      BY <3>2 DEF FinishOpen, Exit, Goto
    <3>3. CASE \E b \in Blocks : Consume(p, b)
      BY <3>3 DEF Consume, Goto, disk, history
    <3>4. CASE Finish(p)
      BY <3>4 DEF Finish, Goto, disk, history
    <3>5. CASE Abort(p) \/ Crash(p)
      BY <3>5 DEF Abort, Crash, Exit, Goto, disk, history
    <3> QED
      BY <1>5, <3>1, <3>2, <3>3, <3>4, <3>5
  <2> QED
    BY <1>1, <1>3, <2>1, GotoShown
<1>6. ASSUME NEW p \in Procs, RemoveOrphan(p) PROVE AckInv'
  <2>1. /\ pc[p] = "cleanup" /\ pc' = pc /\ stage' = [stage EXCEPT ![p] = "removed"]
        /\ UNCHANGED <<manifests, newManifests, acked>>
    BY <1>6 DEF RemoveOrphan, history
  <2>2. InstallShown(p)'
    BY <1>2, <2>1 DEF InstallShown, ManifestPcs
  <2>3. AckedDurable'
    BY <1>3, <2>1 DEF AckedDurable, DurableSequence
  <2> QED
    BY <1>1, <1>2, <2>1, <2>2, <2>3, ShownOfOne DEF AckInv
<1>7. ASSUME NEW p \in Procs, WriteTemp(p) PROVE AckInv'
  <2>1. /\ pc[p] # "down" /\ ~TargetExists(p)
        /\ UNCHANGED <<manifests, newManifests, acked>>
    BY <1>1, <1>7 DEF WriteTemp, FreshNames, InstallPcs, ManifestPcs, disk, history
  <2>2. CASE Exit(p)
    BY <1>1, <1>3, <2>1, <2>2, GotoShown DEF Exit, Goto
  <2>3. CASE ~Exit(p)
    <3>1. /\ stage' = [stage EXCEPT ![p] = "tmp"] /\ temps' = temps \cup {p}
          /\ pc' = pc
      BY <1>7, <2>1, <2>3 DEF WriteTemp
    <3>2. InstallShown(p)'
      BY <1>2, <2>1, <3>1 DEF InstallShown
    <3>3. AckedDurable'
      BY <1>3, <2>1 DEF AckedDurable, DurableSequence
    <3> QED
      BY <1>1, <1>2, <2>1, <3>1, <3>2, <3>3, ShownOfOne DEF AckInv
  <2> QED
    BY <2>2, <2>3
<1>8. ASSUME NEW p \in Procs, Rename(p) PROVE AckInv'
  <2>1. /\ pc[p] \in InstallPcs /\ pc[p] # "down" /\ stage[p] = "tmp"
        /\ stage' = [stage EXCEPT ![p] = "renamed"]
        /\ UNCHANGED <<pc, mem, acked>>
    BY <1>8 DEF Rename, InstallPcs, ManifestPcs, history
  <2>2. DraftSequence(p)' = DraftSequence(p)
    BY <2>1 DEF DraftSequence
  <2>3. CASE pc[p] \in ManifestPcs
    <3>1. /\ manifests' = {m \in manifests : m.seq # DraftSequence(p)} \cup {Draft(p)}
          /\ newManifests' = newManifests \cup {DraftSequence(p)}
      BY <1>8, <2>3 DEF Rename, InstallMetadata, InstallResult, InstallManifest,
         ManifestPcs
    <3>2. Draft(p).seq = DraftSequence(p)
      BY DEF Draft
    <3>3. \A m \in manifests : m.seq # DraftSequence(p)
      BY <1>1, <2>1, <2>3 DEF FreshNames, TargetExists
    <3>4. AckedDurable'
      BY <1>3, <2>1, <3>1, <3>3 DEF AckedDurable, DurableSequence
    <3>5. InstallShown(p)'
      BY <1>2, <2>1, <2>2, <3>1, <3>2 DEF InstallShown
    <3> QED
      BY <1>1, <1>2, <2>1, <3>4, <3>5, ShownOfOne DEF AckInv
  <2>4. CASE pc[p] \notin ManifestPcs
    <3>1. UNCHANGED <<manifests, newManifests>>
      BY <1>8, <2>4 DEF Rename, InstallMetadata, InstallResult, InstallManifest
    <3>2. AckedDurable'
      BY <1>3, <2>1, <3>1 DEF AckedDurable, DurableSequence
    <3>3. InstallShown(p)'
      BY <1>2, <2>1, <2>4 DEF InstallShown
    <3> QED
      BY <1>1, <1>2, <2>1, <3>2, <3>3, ShownOfOne DEF AckInv
  <2> QED
    BY <2>3, <2>4
<1>9. ASSUME NEW p \in Procs, SyncDirectory(p) PROVE AckInv'
  <2>1. /\ pc[p] # "down" /\ stage[p] = "renamed"
        /\ stage' = [stage EXCEPT ![p] = "synced"]
        /\ UNCHANGED <<pc, mem, manifests, acked>>
        /\ newManifests' = IF pc[p] \in ManifestPcs THEN {} ELSE newManifests
    BY <1>9 DEF SyncDirectory, SyncManifests, InstallPcs, ManifestPcs, history
  <2>2. DraftSequence(p)' = DraftSequence(p)
    BY <2>1 DEF DraftSequence
  <2>3. AckedDurable'
    BY <1>3, <2>1 DEF AckedDurable, DurableSequence
  <2>4. InstallShown(p)
    BY DEF AckInv
  <2>5. InstallShown(p)'
    BY <1>2, <2>1, <2>2, <2>4 DEF InstallShown, DurableSequence
  <2> QED
    BY <1>1, <1>2, <2>1, <2>3, <2>5, ShownOfOne DEF AckInv
<1>10. ASSUME NEW p \in Procs, Installed(p) PROVE AckInv'
  <2>1. /\ pc[p] # "down" /\ stage[p] = "synced"
        /\ stage' = [stage EXCEPT ![p] = "begin"]
        /\ UNCHANGED <<manifests, newManifests>>
    BY <1>10 DEF Installed, MetadataInstalled, ResultRecorded, RunOpened,
       CheckpointTaken, RunEnded, Exit, Goto, disk
  <2>2. acked' = acked \/ (pc[p] \in ManifestPcs /\ acked' = acked \cup {DraftSequence(p)})
    BY <1>10 DEF Installed, MetadataInstalled, ResultRecorded, RunOpened,
       CheckpointTaken, RunEnded, ManifestPcs, history
  <2>3. \A s \in acked' : DurableSequence(s)
    BY <1>3, <2>1, <2>2 DEF AckInv, InstallShown
  <2> QED
    BY <1>1, <2>1, <2>3, GotoShown
<1>11. CASE PowerFailure
  <2>1. PICK lost \in SUBSET newManifests :
          manifests' = {m \in manifests : m.seq \notin lost}
    BY <1>11 DEF PowerFailure
  <2>2. newManifests' = {} /\ acked' = acked /\ \A q \in Procs : stage'[q] = "begin"
    BY <1>11 DEF PowerFailure, history
  <2>3. AckedDurable'
    BY <1>3, <2>1, <2>2 DEF AckedDurable, DurableSequence
  <2> QED
    BY <1>1, <2>2, <2>3, BeginShown DEF AckInv
<1>12. CASE RotManifest \/ RotResult \/ UNCHANGED vars
  <2>1. UNCHANGED <<manifests, newManifests, acked, temps, pc, stage, mem>>
    BY <1>12 DEF RotManifest, RotResult, vars, disk, volatile, history
  <2> QED
    BY <1>1, <2>1 DEF AckInv, AckedDurable, DurableSequence, InstallShown, DraftSequence
<1> QED
  BY <1>4, <1>5, <1>6, <1>7, <1>8, <1>9, <1>10, <1>11, <1>12 DEF Next, Work

\* A manifest whose install was acknowledged is in the directory for ever, for
\* any number of crashes, power failures and restarts: atomic_write returns
\* only after the fsync of the directory, and nothing replaces its sequence.
THEOREM AcknowledgedForEver == Spec => []AckedSurvives
<1>1. AckInv => AckedSurvives
  BY DEF AckInv, AckedDurable, DurableSequence, AckedSurvives
<1> QED
  BY <1>1, AckInit, AckStep, PTL DEF Spec

\* The sweep of tmp/ that open() makes never takes away the temporary of a
\* process that is about to rename it.
THEOREM TemporariesSafe == Spec => []TempOwned
<1>1. AckInv => TempOwned
  BY DEF AckInv, InstallShown, TempOwned
<1> QED
  BY <1>1, AckInit, AckStep, PTL DEF Spec

-----------------------------------------------------------------------------
(* What can be recovered *)

\* Neither the manifest nor any result it names is rotten.
Intact(m) == m.seq \notin badManifests /\ Names(m.entries) \cap badResults = {}

\* Every result an intact manifest names is in the directory.
EvidenceKept ==
    \A m \in manifests : Intact(m) => Names(m.entries) \subseteq results

\* Among intact manifests a higher sequence contains a lower one.
IntactMonotone ==
    \A m, n \in manifests : Intact(m) /\ Intact(n) /\ m.seq <= n.seq =>
        /\ m.inc <= n.inc
        /\ \A b \in Present(m.entries) : n.entries[b] = m.entries[b]

\* A process that has loaded a snapshot.
LoadedPcs == {"cleanup", "record", "running"} \cup ManifestPcs

\* Memory contains every intact manifest m, under an incarnation that is not
\* older, and newer while the recovery manifest is not yet in place.
KnowsManifest(p, m) ==
    /\ m.inc <= mem[p].inc
    /\ pc[p] = "recovery" /\ stage[p] \in {"begin", "tmp"} => m.inc < mem[p].inc
    /\ \A b \in Present(m.entries) : mem[p].durable[b] = m.entries[b]

\* What a process has in memory, the directory has, and the other way round.
Knows(p) == pc[p] \in LoadedPcs =>
    /\ Names(mem[p].durable) \subseteq results
    /\ pc[p] = "cleanup" => mem[p].committed = mem[p].durable
    /\ pc[p] = "record" /\ stage[p] \in {"renamed", "synced"} =>
         ResultName(p) \in results
    /\ \A m \in manifests : Intact(m) => KnowsManifest(p, m)

RecoveryInv ==
    /\ FreshInv
    /\ EvidenceKept
    /\ IntactMonotone
    /\ \A p \in Procs : Knows(p)

-----------------------------------------------------------------------------
(* Lemmas *)

\* Being recoverable is being intact.
LEMMA ValidIsIntact ==
  ASSUME RecoveryInv, NEW m \in manifests
  PROVE  Valid(m) <=> Intact(m)
BY DEF RecoveryInv, FreshInv, CanonicalInv, ManifestsCanonical, EvidenceKept,
   Valid, Evidence, Intact

\* An empty run directory satisfies the invariant.
LEMMA RecoveryInit == Init => RecoveryInv
BY FreshInit DEF Init, RecoveryInv, EvidenceKept, IntactMonotone, Knows, LoadedPcs,
   ManifestPcs

\* A step of a live process need only be examined for that process.
LEMMA KnowsOfOne ==
  ASSUME NEW p \in Procs, RecoveryInv, pc[p] # "down",
         \A q \in Procs : q # p => pc'[q] = pc[q],
         Knows(p)'
  PROVE  \A q \in Procs : Knows(q)'
<1> SUFFICES ASSUME NEW q \in Procs, q # p PROVE Knows(q)'
  OBVIOUS
<1>1. pc'[q] = "down"
  BY OthersDown DEF RecoveryInv, FreshInv
<1> QED
  BY <1>1 DEF Knows, LoadedPcs, ManifestPcs

\* Steps that leave manifests and results alone keep what is said of them.
LEMMA SameFiles ==
  ASSUME RecoveryInv, UNCHANGED <<manifests, results, badManifests, badResults>>
  PROVE  EvidenceKept' /\ IntactMonotone'
BY DEF RecoveryInv, EvidenceKept, IntactMonotone, Intact

\* A process that has not loaded anything knows nothing.
LEMMA UnloadedKnows ==
  ASSUME NEW p \in Procs, pc'[p] \in {"down", "meta", "scan"}
  PROVE  Knows(p)'
BY DEF Knows, LoadedPcs, ManifestPcs

\* A step of a process that has loaded, with the same files and memory, and
\* not back to an earlier stage.
LEMMA SameKnows ==
  ASSUME NEW p \in Procs, RecoveryInv,
         UNCHANGED <<manifests, results, badManifests, badResults>>,
         pc[p] \in LoadedPcs,
         mem'[p].durable = mem[p].durable, mem'[p].inc = mem[p].inc,
         pc'[p] = "cleanup" => mem'[p].committed = mem'[p].durable,
         pc'[p] = "record" /\ stage'[p] \in {"renamed", "synced"} =>
            ResultName(p)' \in results,
         pc'[p] = "recovery" /\ stage'[p] \in {"begin", "tmp"} =>
            pc[p] = "recovery" /\ stage[p] \in {"begin", "tmp"}
  PROVE  Knows(p)'
<1>1. Knows(p)
  BY DEF RecoveryInv
<1>2. \A m \in manifests : Intact(m)' = Intact(m)
  BY DEF Intact
<1>3. ASSUME NEW m \in manifests, KnowsManifest(p, m) PROVE KnowsManifest(p, m)'
  BY <1>3 DEF KnowsManifest
<1> QED
  BY <1>1, <1>2, <1>3 DEF Knows

\* The same for a whole step of a live process.
LEMMA StepSame ==
  ASSUME NEW p \in Procs, RecoveryInv, FreshInv', pc[p] # "down",
         UNCHANGED <<manifests, results, badManifests, badResults>>,
         \A q \in Procs : q # p => pc'[q] = pc[q],
         Knows(p)'
  PROVE  RecoveryInv'
BY SameFiles, KnowsOfOne DEF RecoveryInv

-----------------------------------------------------------------------------
(* The actions *)

\* Recovery loads the intact manifest with the highest sequence, which contains
\* all the others.
LEMMA ScanRecovers ==
  ASSUME NEW p \in Procs, RecoveryInv, FreshInv', Scan(p)
  PROVE  RecoveryInv'
<1>1. /\ pc[p] = "scan" /\ pc[p] # "down" /\ pc \in [Procs -> Pcs]
      /\ mem \in [Procs -> Memory] /\ manifests \subseteq Manifest
      /\ UNCHANGED <<manifests, results, badManifests, badResults>>
  BY DEF Scan, disk, RecoveryInv, FreshInv, CanonicalInv, TypeInv, TypeOK,
     ProcessTypes, DiskTypes
<1>2. \A q \in Procs : q # p => pc'[q] = pc[q]
  BY <1>1 DEF Scan, StartRun, Recover, LoadTerminal, Resume, Exit, Goto
<1>3. CASE Exit(p)
  BY <1>1, <1>2, <1>3, UnloadedKnows, StepSame DEF Exit, Goto
<1>4. CASE StartRun(p)
  <2>1. /\ manifests' = {} /\ pc'[p] = "initial"
        /\ mem'[p].durable = [b \in Blocks |-> Absent]
    BY <1>1, <1>4 DEF StartRun, Goto, NoMemory
  <2>2. Names(mem'[p].durable) = {}
    BY <2>1 DEF Names, Present
  <2> QED
    BY <1>1, <1>2, <2>1, <2>2, StepSame DEF Knows
<1>5. ASSUME NEW m \in manifests, NEW s \in U64, LatestValid(m), HighestSequence(s),
             LoadTerminal(p, m) \/ Resume(p, m, s)
      PROVE  RecoveryInv'
  <2>1. Intact(m) /\ Names(m.entries) \subseteq results
    BY <1>5, ValidIsIntact DEF LatestValid, RecoveryInv, EvidenceKept
  <2>2. \A n \in manifests : Intact(n) =>
          /\ n.inc <= m.inc
          /\ \A b \in Present(n.entries) : m.entries[b] = n.entries[b]
    BY <1>5, <2>1, ValidIsIntact DEF LatestValid, RecoveryInv, IntactMonotone
  <2>3. /\ mem'[p].durable = m.entries /\ mem'[p].committed = m.entries
        /\ pc'[p] \in {"cleanup", "recovery"}
        /\ mem'[p].inc = m.inc \/ mem'[p].inc = NextIncarnation(m.inc, s)
        /\ pc'[p] = "recovery" => mem'[p].inc = NextIncarnation(m.inc, s)
    BY <1>1, <1>5 DEF LoadTerminal, Resume, Goto
  <2>4. m.inc \in Nat /\ s \in Nat /\ \A n \in manifests : n.inc \in Nat
    BY <1>1, <1>5 DEF Manifest, U64
  <2>5. NextIncarnation(m.inc, s) \in Nat /\ NextIncarnation(m.inc, s) > m.inc
    BY <2>4 DEF NextIncarnation
  <2>6. ASSUME NEW n \in manifests, Intact(n) PROVE KnowsManifest(p, n)'
    BY <2>2, <2>3, <2>4, <2>5, <2>6 DEF KnowsManifest
  <2>7. \A n \in manifests : Intact(n)' = Intact(n)
    BY <1>1 DEF Intact
  <2>8. Knows(p)'
    BY <1>1, <2>1, <2>3, <2>6, <2>7 DEF Knows
  <2> QED
    BY <1>1, <1>2, <2>8, StepSame
<1> QED
  BY <1>3, <1>4, <1>5 DEF Scan, Recover

\* The cleanup unlinks only what no intact manifest names.
LEMMA CleanupRecovers ==
  ASSUME NEW p \in Procs, RecoveryInv, FreshInv', RemoveOrphan(p)
  PROVE  RecoveryInv'
<1>1. /\ pc[p] = "cleanup" /\ pc[p] # "down" /\ pc[p] \in LoadedPcs
      /\ UNCHANGED <<pc, mem, manifests, badManifests, badResults>>
      /\ Knows(p)
  BY DEF RemoveOrphan, LoadedPcs, RecoveryInv
<1>2. PICK x \in Orphans(p) : results' = results \ {x}
  BY DEF RemoveOrphan
<1>3. x \notin Names(mem[p].durable)
  BY <1>1, <1>2 DEF Orphans, Knows
<1>4. ASSUME NEW m \in manifests, Intact(m) PROVE Names(m.entries) \subseteq Names(mem[p].durable)
  <2>1. \A b \in Present(m.entries) : mem[p].durable[b] = m.entries[b]
    BY <1>1, <1>4 DEF Knows, KnowsManifest
  <2> QED
    BY <2>1, NamesMembers DEF Present
<1>5. \A m \in manifests : Intact(m)' = Intact(m)
  BY <1>1 DEF Intact
<1>6. EvidenceKept' /\ IntactMonotone'
  BY <1>1, <1>2, <1>3, <1>4, <1>5 DEF RecoveryInv, EvidenceKept, IntactMonotone
<1>7. ASSUME NEW m \in manifests, KnowsManifest(p, m) PROVE KnowsManifest(p, m)'
  BY <1>1, <1>7 DEF KnowsManifest
<1>8. Knows(p)'
  BY <1>1, <1>2, <1>3, <1>5, <1>7 DEF Knows
<1> QED
  BY <1>1, <1>6, <1>8, KnowsOfOne DEF RecoveryInv

\* The name a result is installed under is named by no manifest.
LEMMA NewNameUnnamed ==
  ASSUME NEW p \in Procs, FreshInv, pc[p] = "record", NEW m \in manifests
  PROVE  ResultName(p) \notin Names(m.entries)
<1> SUFFICES ASSUME ResultName(p) \in Names(m.entries) PROVE FALSE
  OBVIOUS
<1>1. /\ hold[p] \in Blocks /\ mem[p] \in Memory /\ m \in Manifest /\ ActiveOK(p)
  BY DEF FreshInv, CanonicalInv, TypeInv, TypeOK, ProcessTypes, DiskTypes,
     InstallReady, Active
<1>2. m.entries[hold[p]] # Absent /\ m.entries[hold[p]] = Lease(p, hold[p])
  BY NamesMembers DEF ResultName
<1>3. m.entries[hold[p]].inc = mem[p].inc /\ mem[p].inc \in Nat
  BY <1>1, <1>2 DEF Lease, Memory, U64
<1>4. m.entries[hold[p]] = mem[p].durable[hold[p]]
  BY <1>1, <1>3 DEF ActiveOK, EntriesKnown
<1> QED
  BY <1>1, <1>2, <1>4 DEF ActiveOK, ResultsKnown

\* A rename puts a file in place that agrees with everything intact.
LEMMA RenameRecovers ==
  ASSUME NEW p \in Procs, RecoveryInv, FreshInv', Rename(p)
  PROVE  RecoveryInv'
<1>1. /\ pc[p] \in InstallPcs /\ pc[p] # "down" /\ stage[p] = "tmp"
      /\ stage' = [stage EXCEPT ![p] = "renamed"] /\ stage \in [Procs -> Stages]
      /\ UNCHANGED <<pc, mem, hold>> /\ FreshInv /\ Knows(p)
  BY DEF Rename, InstallPcs, ManifestPcs, RecoveryInv, FreshInv, CanonicalInv,
     TypeInv, TypeOK, ProcessTypes
<1>2. stage'[p] = "renamed"
  BY <1>1
<1>3. CASE InstallMetadata(p)
  BY <1>1, <1>3, UnloadedKnows, StepSame DEF InstallMetadata
<1>4. CASE InstallResult(p)
  <2>1. /\ pc[p] = "record" /\ results' = results \cup {ResultName(p)}
        /\ badResults' = badResults \ {ResultName(p)}
        /\ UNCHANGED <<manifests, badManifests>>
    BY <1>4 DEF InstallResult
  <2>2. \A m \in manifests : Intact(m)' = Intact(m)
    BY <1>1, <2>1, NewNameUnnamed DEF Intact
  <2>3. EvidenceKept' /\ IntactMonotone'
    BY <2>1, <2>2 DEF RecoveryInv, EvidenceKept, IntactMonotone
  <2>4. ASSUME NEW m \in manifests, KnowsManifest(p, m) PROVE KnowsManifest(p, m)'
    BY <1>1, <2>1, <2>4 DEF KnowsManifest
  <2>5. ResultName(p)' = ResultName(p)
    BY <1>1 DEF ResultName, Lease
  <2>6. Knows(p)'
    BY <1>1, <2>1, <2>2, <2>4, <2>5 DEF Knows
  <2> QED
    BY <1>1, <2>3, <2>6, KnowsOfOne DEF RecoveryInv
<1>5. CASE InstallManifest(p)
  <2> DEFINE s == DraftSequence(p)
             d == Draft(p)
  <2>1. /\ pc[p] \in ManifestPcs /\ pc[p] \in LoadedPcs
        /\ manifests' = {m \in manifests : m.seq # s} \cup {d}
        /\ badManifests' = badManifests \ {s}
        /\ UNCHANGED <<results, badResults>>
    BY <1>5 DEF InstallManifest, LoadedPcs
  <2>2. d.seq = s /\ d.entries = mem[p].durable /\ d.inc = mem[p].inc
    BY DEF Draft
  <2>3. ActiveOK(p) /\ mem[p] \in Memory
    BY <1>1, <2>1 DEF FreshInv, Active, CanonicalInv, TypeInv, TypeOK, ProcessTypes
  <2>4. s \in Nat /\ \A m \in manifests : m.seq \in Nat /\ m.seq < s
    BY <1>1, <2>1, <2>3
       DEF ActiveOK, SequenceAhead, DraftSequence, Memory, U64, FreshInv, CanonicalInv,
           TypeInv, TypeOK, DiskTypes, Manifest
  <2>5. manifests' = manifests \cup {d} /\ \A m \in manifests : m.seq # s
    BY <2>1, <2>4
  <2>6. \A m \in manifests : Intact(m)' = Intact(m)
    BY <2>1, <2>5 DEF Intact
  <2>7. Names(d.entries) \subseteq results
    BY <1>1, <2>1, <2>2 DEF Knows
  <2>8. EvidenceKept'
    BY <2>1, <2>5, <2>6, <2>7 DEF RecoveryInv, EvidenceKept
  <2>9. \A m \in manifests : Intact(m) =>
           /\ m.inc <= mem[p].inc
           /\ \A b \in Present(m.entries) : mem[p].durable[b] = m.entries[b]
    BY <1>1, <2>1 DEF Knows, KnowsManifest
  <2>10. mem[p].inc \in Nat
    BY <2>3 DEF Memory, U64
  <2>11. IntactMonotone'
    <3> SUFFICES ASSUME NEW m \in manifests', NEW n \in manifests',
                        Intact(m)', Intact(n)', m.seq <= n.seq
                 PROVE  /\ m.inc <= n.inc
                        /\ \A b \in Present(m.entries) : n.entries[b] = m.entries[b]
      BY DEF IntactMonotone
    <3> HIDE DEF d, s
    <3>1. CASE m \in manifests /\ n \in manifests
      BY <2>6, <3>1 DEF RecoveryInv, IntactMonotone
    <3>2. CASE m \in manifests /\ n = d
      BY <2>2, <2>6, <2>9, <3>2
    <3>3. CASE m = d /\ n \in manifests
      BY <2>2, <2>4, <3>3
    <3>4. CASE m = d /\ n = d
      BY <2>2, <2>10, <3>4
    <3> QED
      BY <2>5, <3>1, <3>2, <3>3, <3>4
  <2>12. ASSUME NEW m \in manifests', Intact(m)' PROVE KnowsManifest(p, m)'
    <3> HIDE DEF d, s
    <3>1. CASE m \in manifests
      BY <1>1, <1>2, <2>6, <2>9, <2>12, <3>1 DEF KnowsManifest
    <3>2. CASE m = d
      BY <1>1, <1>2, <2>2, <2>10, <3>2 DEF KnowsManifest
    <3> QED
      BY <2>5, <3>1, <3>2
  <2>13. Knows(p)'
    BY <1>1, <2>1, <2>12 DEF Knows, ManifestPcs
  <2> QED
    BY <1>1, <2>8, <2>11, <2>13, KnowsOfOne DEF RecoveryInv
<1> QED
  BY <1>3, <1>4, <1>5 DEF Rename

\* Memory follows the disk when an install has returned.
LEMMA InstalledRecovers ==
  ASSUME NEW p \in Procs, RecoveryInv, FreshInv', Installed(p)
  PROVE  RecoveryInv'
<1>1. /\ pc[p] # "down" /\ stage[p] = "synced" /\ FreshInv /\ Knows(p)
      /\ pc \in [Procs -> Pcs] /\ mem \in [Procs -> Memory]
      /\ stage \in [Procs -> Stages]
      /\ UNCHANGED <<manifests, results, badManifests, badResults>>
  BY DEF Installed, MetadataInstalled, ResultRecorded, RunOpened, CheckpointTaken,
     RunEnded, disk, RecoveryInv, FreshInv, CanonicalInv, TypeInv, TypeOK, ProcessTypes
<1>2. \A q \in Procs : q # p => pc'[q] = pc[q]
  BY <1>1 DEF Installed, MetadataInstalled, ResultRecorded, RunOpened,
     CheckpointTaken, RunEnded, Exit, Goto
<1>3. CASE MetadataInstalled(p)
  BY <1>1, <1>2, <1>3, UnloadedKnows, StepSame DEF MetadataInstalled, Goto
<1>4. CASE RunEnded(p)
  BY <1>1, <1>2, <1>4, UnloadedKnows, StepSame DEF RunEnded, Exit, Goto
<1>5. CASE RunOpened(p)
  <2>1. /\ pc[p] \in {"initial", "recovery"} /\ pc[p] \in LoadedPcs
        /\ pc'[p] = "cleanup" /\ mem' = mem
    BY <1>1, <1>5 DEF RunOpened, Goto, LoadedPcs, ManifestPcs
  <2>2. mem[p].committed = mem[p].durable
    BY <1>1, <2>1 DEF FreshInv, Active, ManifestPcs, ActiveOK, ResultsKnown
  <2>3. Knows(p)'
    BY <1>1, <2>1, <2>2, SameKnows
  <2> QED
    BY <1>1, <1>2, <2>3, StepSame
<1>6. CASE CheckpointTaken(p)
  <2>1. /\ pc[p] \in LoadedPcs /\ pc'[p] = "running"
        /\ mem'[p].durable = mem[p].durable /\ mem'[p].inc = mem[p].inc
    BY <1>1, <1>6 DEF CheckpointTaken, Goto, LoadedPcs, ManifestPcs, Memory
  <2>2. Knows(p)'
    BY <1>1, <2>1, SameKnows
  <2> QED
    BY <1>1, <1>2, <2>2, StepSame
<1>7. CASE ResultRecorded(p)
  <2>1. /\ pc[p] = "record" /\ pc[p] \in LoadedPcs /\ hold[p] \in Blocks
        /\ pc'[p] \in {"checkpoint", "running"} /\ mem'[p] = WithResult(p)
        /\ mem[p] \in Memory
    BY <1>1, <1>7 DEF ResultRecorded, Goto, LoadedPcs, FreshInv, CanonicalInv, TypeInv,
       InstallReady
  <2>2. /\ mem'[p].inc = mem[p].inc
        /\ mem'[p].durable = [mem[p].durable EXCEPT ![hold[p]] = Lease(p, hold[p])]
        /\ mem[p].durable \in [Blocks -> Stamp]
    BY <2>1 DEF WithResult, Memory
  <2>3. ResultName(p) \in results /\ mem[p].durable[hold[p]] = Absent
    BY <1>1, <2>1 DEF Knows, FreshInv, Active, ActiveOK, ResultsKnown
  <2>4. Names(mem'[p].durable) \subseteq Names(mem[p].durable) \cup {ResultName(p)}
    BY <2>1, <2>2, NamesMembers DEF ResultName
  <2>5. ASSUME NEW m \in manifests, KnowsManifest(p, m) PROVE KnowsManifest(p, m)'
    <3>1. hold[p] \notin Present(m.entries)
      BY <2>3, <2>5 DEF KnowsManifest, Present
    <3> QED
      BY <2>1, <2>2, <2>5, <3>1 DEF KnowsManifest, Present
  <2>6. \A m \in manifests : Intact(m)' = Intact(m)
    BY <1>1 DEF Intact
  <2>7. Knows(p)'
    BY <1>1, <2>1, <2>3, <2>4, <2>5, <2>6 DEF Knows
  <2> QED
    BY <1>1, <1>2, <2>7, StepSame
<1> QED
  BY <1>3, <1>4, <1>5, <1>6, <1>7 DEF Installed

\* The invariant is inductive: one step per action.
LEMMA RecoveryStep == RecoveryInv /\ [Next]_vars => RecoveryInv'
<1> SUFFICES ASSUME RecoveryInv, [Next]_vars PROVE RecoveryInv'
  OBVIOUS
<1>1. FreshInv' /\ FreshNames
  BY FreshStep, FreshInvNames DEF RecoveryInv
<1>2. /\ pc \in [Procs -> Pcs] /\ stage \in [Procs -> Stages]
      /\ mem \in [Procs -> Memory]
  BY DEF RecoveryInv, FreshInv, CanonicalInv, TypeInv, TypeOK, ProcessTypes
<1>3. ASSUME NEW p \in Procs, OpenStore(p) PROVE RecoveryInv'
  <2>1. \A q \in Procs : pc[q] = "down"
    BY <1>3, NoneAssumption DEF OpenStore, LockFree, RecoveryInv, FreshInv, LockOwned
  <2>2. \A q \in Procs : pc'[q] \in {"down", "meta", "scan"}
    BY <1>2, <1>3, <2>1 DEF OpenStore, Goto, AfterLock
  <2>3. UNCHANGED <<manifests, results, badManifests, badResults>>
    BY <1>3 DEF OpenStore, disk
  <2> QED
    BY <1>1, <2>2, <2>3, UnloadedKnows, SameFiles DEF RecoveryInv
<1>4. ASSUME NEW p \in Procs, Abort(p) \/ Crash(p) PROVE RecoveryInv'
  BY <1>1, <1>2, <1>4, UnloadedKnows, StepSame DEF Abort, Crash, Exit, Goto, disk
<1>5. ASSUME NEW p \in Procs, FinishOpen(p) PROVE RecoveryInv'
  <2>1. CASE mem[p].status = "running"
    BY <1>1, <1>2, <1>5, <2>1, SameKnows, StepSame DEF FinishOpen, Goto, LoadedPcs
  <2>2. CASE mem[p].status # "running"
    BY <1>1, <1>2, <1>5, <2>2, UnloadedKnows, StepSame DEF FinishOpen, Exit, Goto
  <2> QED
    BY <2>1, <2>2
<1>6. ASSUME NEW p \in Procs, Finish(p) \/ \E b \in Blocks : Consume(p, b)
      PROVE  RecoveryInv'
  <2>1. /\ pc[p] = "running" /\ pc'[p] \in {"finish", "fail", "record"}
        /\ stage'[p] = "begin" /\ mem' = mem
        /\ UNCHANGED <<manifests, results, badManifests, badResults>>
        /\ \A q \in Procs : q # p => pc'[q] = pc[q]
    BY <1>2, <1>6 DEF Finish, Consume, Goto, disk
  <2>2. Knows(p)'
    BY <2>1, SameKnows DEF LoadedPcs
  <2> QED
    BY <1>1, <2>1, <2>2, StepSame
<1>7. ASSUME NEW p \in Procs, WriteTemp(p) PROVE RecoveryInv'
  <2>1. /\ pc[p] \in InstallPcs /\ pc[p] # "down" /\ ~TargetExists(p)
        /\ stage[p] = "begin"
        /\ UNCHANGED <<manifests, results, badManifests, badResults>>
    BY <1>1, <1>7 DEF WriteTemp, FreshNames, InstallPcs, ManifestPcs, disk
  <2>2. CASE Exit(p)
    BY <1>1, <1>2, <2>1, <2>2, UnloadedKnows, StepSame DEF Exit, Goto
  <2>3. CASE ~Exit(p)
    <3>1. stage'[p] = "tmp" /\ pc' = pc /\ mem' = mem
      BY <1>2, <1>7, <2>1, <2>3 DEF WriteTemp
    <3>2. CASE pc[p] = "meta"
      BY <1>1, <2>1, <3>1, <3>2, UnloadedKnows, StepSame
    <3>3. CASE pc[p] # "meta"
      <4>1. pc[p] \in LoadedPcs /\ pc[p] # "cleanup"
        BY <2>1, <3>3 DEF InstallPcs, LoadedPcs, ManifestPcs
      <4>2. Knows(p)'
        BY <2>1, <3>1, <4>1, SameKnows
      <4> QED
        BY <1>1, <2>1, <3>1, <4>2, StepSame
    <3> QED
      BY <3>2, <3>3
  <2> QED
    BY <2>2, <2>3
<1>8. ASSUME NEW p \in Procs, SyncDirectory(p) PROVE RecoveryInv'
  <2>1. /\ pc[p] \in InstallPcs /\ pc[p] # "down" /\ stage[p] = "renamed"
        /\ stage'[p] = "synced" /\ UNCHANGED <<pc, mem, hold>>
        /\ UNCHANGED <<manifests, results, badManifests, badResults>>
    BY <1>2, <1>8 DEF SyncDirectory, InstallPcs, ManifestPcs
  <2>2. CASE pc[p] = "meta"
    BY <1>1, <2>1, <2>2, UnloadedKnows, StepSame
  <2>3. CASE pc[p] # "meta"
    <3>1. pc[p] \in LoadedPcs /\ pc[p] # "cleanup"
      BY <2>1, <2>3 DEF InstallPcs, LoadedPcs, ManifestPcs
    <3>2. pc[p] = "record" => ResultName(p)' \in results
      BY <2>1, <3>1 DEF RecoveryInv, Knows, ResultName, Lease
    <3>3. Knows(p)'
      BY <2>1, <3>1, <3>2, SameKnows
    <3> QED
      BY <1>1, <2>1, <3>3, StepSame
  <2> QED
    BY <2>2, <2>3
<1>9. CASE PowerFailure
  <2>1. PICK lost \in SUBSET newManifests :
          manifests' = {m \in manifests : m.seq \notin lost}
    BY <1>9 DEF PowerFailure
  <2>2. PICK gone \in SUBSET newResults, back \in SUBSET unlinked :
          results' = (results \ gone) \cup back
    BY <1>9 DEF PowerFailure
  <2>3. /\ UNCHANGED <<badManifests, badResults>> /\ manifests' \subseteq manifests
        /\ \A q \in Procs : pc'[q] = "down"
    BY <1>9, <2>1 DEF PowerFailure
  <2>4. \A m \in manifests : Names(m.entries) \cap newResults = {}
    BY DEF RecoveryInv, FreshInv, EvidenceBeforeManifest
  <2>5. \A m \in manifests : Intact(m)' = Intact(m)
    BY <2>3 DEF Intact
  <2>6. EvidenceKept' /\ IntactMonotone'
    BY <2>2, <2>3, <2>4, <2>5 DEF RecoveryInv, EvidenceKept, IntactMonotone
  <2> QED
    BY <1>1, <2>3, <2>6, UnloadedKnows DEF RecoveryInv
<1>10. CASE RotManifest \/ RotResult
  <2>1. /\ UNCHANGED <<manifests, results, pc, mem, stage, hold>>
        /\ badManifests \subseteq badManifests' /\ badResults \subseteq badResults'
    BY <1>10 DEF RotManifest, RotResult, volatile
  <2>2. \A m \in manifests : Intact(m)' => Intact(m)
    BY <2>1 DEF Intact
  <2>3. EvidenceKept' /\ IntactMonotone'
    BY <2>1, <2>2 DEF RecoveryInv, EvidenceKept, IntactMonotone
  <2>4. ASSUME NEW q \in Procs PROVE Knows(q)'
    BY <2>1, <2>2 DEF RecoveryInv, Knows, KnowsManifest, ResultName, Lease
  <2> QED
    BY <1>1, <2>3, <2>4 DEF RecoveryInv
<1>11. CASE UNCHANGED vars
  <2>1. UNCHANGED <<manifests, results, badManifests, badResults, pc, mem, stage, hold>>
    BY <1>11 DEF vars, disk, volatile
  <2> QED
    BY <1>1, <2>1, SameFiles DEF RecoveryInv, Knows, KnowsManifest, Intact, ResultName,
       Lease
<1> QED
  BY <1>1, <1>3, <1>4, <1>5, <1>6, <1>7, <1>8, <1>9, <1>10, <1>11, ScanRecovers,
     CleanupRecovers, RenameRecovers, InstalledRecovers DEF Next, Work

\* The invariant holds in every behaviour.
LEMMA RecoveryAlways == Spec => []RecoveryInv
BY RecoveryInit, RecoveryStep, PTL DEF Spec

-----------------------------------------------------------------------------
(* Theorems *)

\* Whatever crashed, was lost or rotted, a manifest that recovery could use
\* contains every commit of the usable manifests before it, under the same
\* lease.
THEOREM CommitsGrow == Spec => []CommitsMonotone
<1>1. RecoveryInv => CommitsMonotone
  BY ValidIsIntact DEF RecoveryInv, IntactMonotone, CommitsMonotone
<1> QED
  BY <1>1, RecoveryAlways, PTL

\* No step of a process, a crash included, makes a manifest unusable that
\* recovery could have used.
THEOREM ValidStaysValid == Spec => ValidNeverShrinks
<1> DEFINE Kept == \A m \in manifests : Valid(m) => m \in manifests' /\ Valid(m)'
<1>1. RecoveryInv /\ RecoveryInv' /\ [Next]_vars =>
        [rots' = rots /\ powerFailures' = powerFailures => Kept]_vars
  <2> SUFFICES ASSUME RecoveryInv, RecoveryInv', Next, rots' = rots,
                      powerFailures' = powerFailures,
                      NEW m \in manifests, Valid(m)
               PROVE  m \in manifests' /\ Valid(m)'
    OBVIOUS
  <2>1. rots \in Nat /\ powerFailures \in Nat
    BY BudgetAssumption DEF RecoveryInv, FreshInv, CanonicalInv, TypeInv, TypeOK,
       CounterTypes
  <2>2. ~PowerFailure /\ ~RotManifest /\ ~RotResult
    BY <2>1 DEF PowerFailure, RotManifest, RotResult
  <2>3. PICK p \in Procs : OpenStore(p) \/ Work(p) \/ Abort(p) \/ Crash(p)
    BY <2>2 DEF Next
  <2>4. Intact(m)
    BY ValidIsIntact
  <2>8. m \in manifests' /\ Intact(m)' => Valid(m)'
    BY DEF RecoveryInv, FreshInv, CanonicalInv, ManifestsCanonical, EvidenceKept,
       Valid, Evidence, Intact
  <2>5. CASE Rename(p) /\ InstallManifest(p)
    <3>1. \A n \in manifests : n.seq # DraftSequence(p)
      BY <2>5, FreshInvNames
         DEF RecoveryInv, FreshNames, TargetExists, InstallManifest, Rename
    <3> QED
      BY <2>4, <2>5, <2>8, <3>1 DEF InstallManifest, Intact
  <2>6. CASE Rename(p) /\ ~InstallManifest(p)
    <3>1. /\ UNCHANGED <<manifests, badManifests>> /\ badResults' \subseteq badResults
      BY <2>6 DEF Rename, InstallMetadata, InstallResult
    <3>2. Intact(m)'
      BY <2>4, <3>1 DEF Intact
    <3> QED
      BY <2>8, <3>1, <3>2
  <2>7. CASE ~Rename(p)
    <3>1. UNCHANGED <<manifests, badManifests, badResults>>
      BY <2>3, <2>7 DEF OpenStore, Work, Abort, Crash, Scan, RemoveOrphan, FinishOpen,
         Consume, Finish, WriteTemp, SyncDirectory, Installed, disk
    <3>2. Intact(m)'
      BY <2>4, <3>1 DEF Intact
    <3> QED
      BY <2>8, <3>1, <3>2
  <2> QED
    BY <2>5, <2>6, <2>7
<1> QED
  BY <1>1, RecoveryAlways, PTL DEF Spec, ValidNeverShrinks

\* The counters of rot and of power failures never go back to zero.
LEMMA FaultsRemembered ==
  ASSUME RecoveryInv, [Next]_vars
  PROVE  /\ rots' = 0 => rots = 0 /\ ~RotManifest /\ ~RotResult
         /\ powerFailures' = 0 => powerFailures = 0 /\ ~PowerFailure
<1>1. rots \in Nat /\ powerFailures \in Nat
  BY BudgetAssumption DEF RecoveryInv, FreshInv, CanonicalInv, TypeInv, TypeOK,
     CounterTypes
<1>2. CASE \E p \in Procs : OpenStore(p) \/ Abort(p) \/ Crash(p)
  BY <1>2 DEF OpenStore, Abort, Crash, PowerFailure, RotManifest, RotResult, budgets
<1>3. ASSUME NEW p \in Procs, Work(p) PROVE UNCHANGED <<rots, powerFailures>>
  BY <1>3 DEF Work, Scan, RemoveOrphan, FinishOpen, Consume, Finish, WriteTemp, Rename,
     SyncDirectory, Installed, budgets
<1>4. CASE PowerFailure \/ RotManifest \/ RotResult
  BY <1>1, <1>4 DEF PowerFailure, RotManifest, RotResult
<1>5. CASE UNCHANGED vars
  BY <1>1, <1>5 DEF vars, budgets, PowerFailure, RotManifest, RotResult
<1> QED
  BY <1>1, <1>2, <1>3, <1>4, <1>5 DEF Next, PowerFailure, RotManifest, RotResult

\* As long as nothing has rotted, no name is marked rotten.
NothingRots == rots = 0 => badManifests = {} /\ badResults = {}

\* Only the two rot actions mark a file.
LEMMA RotsCounted == Spec => []NothingRots
<1>1. Init => NothingRots
  BY DEF Init, NothingRots
<1>2. RecoveryInv /\ NothingRots /\ [Next]_vars => NothingRots'
  <2> SUFFICES ASSUME RecoveryInv, NothingRots, [Next]_vars, rots' = 0
               PROVE  badManifests' = {} /\ badResults' = {}
    BY DEF NothingRots
  <2>1. rots = 0 /\ ~RotManifest /\ ~RotResult
    BY FaultsRemembered
  <2>2. badManifests = {} /\ badResults = {}
    BY <2>1 DEF NothingRots
  <2>3. ASSUME NEW p \in Procs, OpenStore(p) \/ Abort(p) \/ Crash(p)
        PROVE  UNCHANGED <<badManifests, badResults>>
    BY <2>3 DEF OpenStore, Abort, Crash, disk
  <2>4. ASSUME NEW p \in Procs, Work(p)
        PROVE  badManifests' \subseteq badManifests /\ badResults' \subseteq badResults
    BY <2>4 DEF Work, Scan, RemoveOrphan, FinishOpen, Consume, Finish, WriteTemp,
       Rename, InstallMetadata, InstallResult, InstallManifest, SyncDirectory,
       Installed, disk
  <2>5. CASE PowerFailure \/ UNCHANGED vars
    BY <2>2, <2>5 DEF PowerFailure, vars, disk
  <2> QED
    BY <2>1, <2>2, <2>3, <2>4, <2>5 DEF Next
<1> QED
  BY <1>1, <1>2, RecoveryAlways, PTL DEF Spec

\* Until something rots every manifest in the directory stays usable, through
\* any number of crashes and power failures: the cleanup of orphans never takes
\* a result that some manifest names.
THEOREM AllUsable == Spec => []AllManifestsValid
<1>1. RecoveryInv /\ NothingRots => AllManifestsValid
  BY ValidIsIntact DEF NothingRots, AllManifestsValid, Intact
<1> QED
  BY <1>1, RecoveryAlways, RotsCounted, PTL

\* Until something rots a recovery announces an incarnation that no manifest
\* carries.
THEOREM IncarnationsAreFresh == Spec => []IncarnationFresh
<1>1. RecoveryInv /\ NothingRots => IncarnationFresh
  BY DEF RecoveryInv, NothingRots, IncarnationFresh, NoIncarnationCollision, Intact,
     Knows, KnowsManifest, LoadedPcs, ManifestPcs
<1> QED
  BY <1>1, RecoveryAlways, RotsCounted, PTL

-----------------------------------------------------------------------------
(* A terminal manifest is the last one *)

\* A sequence names one manifest.
UniqueSequences == \A m, n \in manifests : m.seq = n.seq => m = n

\* No manifest has a higher sequence than a terminal one.
TerminalLast ==
    \A m, n \in manifests : m.status # "running" => n.seq <= m.seq

\* The manifests a power failure may take are the newest.
NewOnTop ==
    \A s \in newManifests, m \in manifests : m.seq \notin newManifests => m.seq < s

\* A process that has yet to install a manifest, or may come to.
Going(p) ==
    \/ pc[p] \in {"initial", "recovery", "checkpoint", "record", "running"}
    \/ pc[p] \in {"finish", "fail"} /\ stage[p] \in {"begin", "tmp"}
    \/ pc[p] = "cleanup" /\ mem[p].status = "running"

\* While some process is going, no manifest is terminal.
Unfinished ==
    \A p \in Procs : Going(p) => \A m \in manifests : m.status = "running"

EndInv == UniqueSequences /\ TerminalLast /\ NewOnTop /\ Unfinished

\* The manifest a process installs comes after every other one.
LEMMA Installs ==
  ASSUME NEW p \in Procs, FreshInv, Rename(p), InstallManifest(p)
  PROVE  /\ manifests' = manifests \cup {Draft(p)}
         /\ Draft(p).seq = DraftSequence(p)
         /\ DraftSequence(p) \in Nat
         /\ \A m \in manifests : m.seq \in Nat /\ m.seq < DraftSequence(p)
<1>1. /\ pc[p] \in ManifestPcs /\ stage[p] = "tmp" /\ Active(p)
      /\ manifests' = {m \in manifests : m.seq # DraftSequence(p)} \cup {Draft(p)}
  BY DEF Rename, InstallManifest, Active
<1>2. ActiveOK(p) /\ mem[p] \in Memory
  BY <1>1 DEF FreshInv, CanonicalInv, TypeInv, TypeOK, ProcessTypes
<1>3. /\ DraftSequence(p) \in Nat
      /\ \A m \in manifests : m.seq \in Nat /\ m.seq < DraftSequence(p)
  BY <1>1, <1>2 DEF ActiveOK, SequenceAhead, DraftSequence, Memory, U64, FreshInv,
     CanonicalInv, TypeInv, TypeOK, DiskTypes, Manifest
<1>4. \A m \in manifests : m.seq # DraftSequence(p)
  BY <1>3
<1>5. Draft(p).seq = DraftSequence(p)
  BY DEF Draft
<1> QED
  BY <1>1, <1>3, <1>4, <1>5

\* A step of a process, or the rot of a file.
Quiet ==
    \/ \E p \in Procs : OpenStore(p) \/ Work(p) \/ Abort(p) \/ Crash(p)
    \/ RotManifest \/ RotResult
    \/ UNCHANGED vars

\* Every other step of a process leaves the manifests alone.
LEMMA ManifestsSame ==
  ASSUME Quiet, \A p \in Procs : ~(Rename(p) /\ InstallManifest(p))
  PROVE  /\ manifests' = manifests
         /\ newManifests' = newManifests \/ newManifests' = {}
<1>1. ASSUME NEW p \in Procs, OpenStore(p) \/ Abort(p) \/ Crash(p)
      PROVE  UNCHANGED <<manifests, newManifests>>
  BY <1>1 DEF OpenStore, Abort, Crash, disk
<1>2. ASSUME NEW p \in Procs, Work(p)
      PROVE  /\ manifests' = manifests
             /\ newManifests' = newManifests \/ newManifests' = {}
  BY <1>2 DEF Work, Scan, RemoveOrphan, FinishOpen, Consume, Finish, WriteTemp,
     Rename, InstallMetadata, InstallResult, SyncDirectory, SyncManifests,
     Installed, disk
<1>3. CASE RotManifest \/ RotResult \/ UNCHANGED vars
  BY <1>3 DEF RotManifest, RotResult, vars, disk
<1> QED
  BY <1>1, <1>2, <1>3 DEF Quiet

\* Recovery resumes only a run that has no terminal manifest.
LEMMA ScanUnfinished ==
  ASSUME NEW p \in Procs, RecoveryInv, NothingRots, rots = 0, EndInv, Scan(p),
         Going(p)'
  PROVE  \A m \in manifests : m.status = "running"
<1>1. /\ pc \in [Procs -> Pcs] /\ stage \in [Procs -> Stages]
      /\ mem \in [Procs -> Memory] /\ manifests \subseteq Manifest
  BY DEF RecoveryInv, FreshInv, CanonicalInv, TypeInv, TypeOK, ProcessTypes, DiskTypes
<1>2. \A m \in manifests : Valid(m)
  BY ValidIsIntact DEF NothingRots, Intact
<1>3. ~Exit(p)
  BY <1>1 DEF Exit, Goto, Going
<1>4. ASSUME NEW m \in manifests, LoadTerminal(p, m), m.status # "running" PROVE FALSE
  BY <1>1, <1>4 DEF LoadTerminal, Goto, Going
<1>5. ASSUME NEW m \in manifests, LatestValid(m), m.status = "running",
             NEW n \in manifests
      PROVE  n.status = "running"
  <2>1. n.seq <= m.seq /\ m.seq \in Nat /\ n.seq \in Nat
    BY <1>1, <1>2, <1>5 DEF LatestValid, Manifest, U64
  <2>2. n.status # "running" => n.seq = m.seq
    BY <2>1 DEF EndInv, TerminalLast
  <2> QED
    BY <1>5, <2>2 DEF EndInv, UniqueSequences
<1>6. CASE manifests = {}
  BY <1>6
<1>7. CASE manifests # {}
  <2>1. PICK m \in manifests, s \in U64 : LatestValid(m) /\ Recover(p, m, s)
    BY <1>2, <1>3, <1>7 DEF Scan, StartRun
  <2>2. m.status = "running"
    BY <1>4, <2>1 DEF Recover
  <2> QED
    BY <1>5, <2>1, <2>2
<1> QED
  BY <1>6, <1>7

\* Only a recovery sets a process going again.
LEMMA GoingBefore ==
  ASSUME NEW p \in Procs, FreshInv, OpenStore(p) \/ Work(p) \/ Abort(p) \/ Crash(p),
         ~Scan(p), NEW q \in Procs, Going(q)'
  PROVE  Going(q)
<1>1. /\ pc \in [Procs -> Pcs] /\ stage \in [Procs -> Stages]
      /\ mem \in [Procs -> Memory]
  BY DEF FreshInv, CanonicalInv, TypeInv, TypeOK, ProcessTypes
<1>2. CASE OpenStore(p)
  BY <1>1, <1>2 DEF OpenStore, Goto, AfterLock, Going
<1>3. CASE Abort(p) \/ Crash(p)
  BY <1>1, <1>3 DEF Abort, Crash, Exit, Goto, Going
<1>4. CASE RemoveOrphan(p) \/ FinishOpen(p)
  BY <1>1, <1>4 DEF RemoveOrphan, FinishOpen, Exit, Goto, Going
<1>5. CASE Finish(p) \/ \E b \in Blocks : Consume(p, b)
  BY <1>1, <1>5 DEF Finish, Consume, Goto, Going
<1>6. CASE WriteTemp(p)
  BY <1>1, <1>6 DEF WriteTemp, Exit, Goto, Going
<1>7. CASE Rename(p) \/ SyncDirectory(p)
  BY <1>1, <1>7 DEF Rename, SyncDirectory, Going
<1>8. CASE Installed(p)
  <2>1. CASE MetadataInstalled(p)
    BY <1>1, <2>1 DEF MetadataInstalled, Goto, Going
  <2>2. CASE ResultRecorded(p)
    BY <1>1, <2>2 DEF ResultRecorded, Goto, Going
  <2>3. CASE RunOpened(p)
    BY <1>1, <2>3 DEF RunOpened, Goto, Going
  <2>4. CASE CheckpointTaken(p)
    BY <1>1, <2>4 DEF CheckpointTaken, Goto, Going
  <2>5. CASE RunEnded(p)
    BY <1>1, <2>5 DEF RunEnded, Exit, Goto, Going
  <2> QED
    BY <1>8, <2>1, <2>2, <2>3, <2>4, <2>5 DEF Installed
<1> QED
  BY <1>2, <1>3, <1>4, <1>5, <1>6, <1>7, <1>8 DEF Work

\* Every step keeps a terminal manifest the last.
LEMMA EndStep ==
  ASSUME RecoveryInv, NothingRots, rots = 0, EndInv, [Next]_vars
  PROVE  EndInv'
<1>1. CASE \E p \in Procs : Rename(p) /\ InstallManifest(p)
  <2>1. PICK p \in Procs : Rename(p) /\ InstallManifest(p)
    BY <1>1
  <2> DEFINE d == Draft(p)
             s == DraftSequence(p)
  <2>2. /\ manifests' = manifests \cup {d} /\ d.seq = s /\ s \in Nat
        /\ \A m \in manifests : m.seq \in Nat /\ m.seq < s
    BY <2>1, Installs DEF RecoveryInv
  <2>3. /\ newManifests' = newManifests \cup {s} /\ UNCHANGED <<pc, mem>>
        /\ pc[p] \in ManifestPcs /\ stage[p] = "tmp"
        /\ stage' = [stage EXCEPT ![p] = "renamed"]
    BY <2>1 DEF Rename, InstallManifest
  <2>4. \A m \in manifests : m.status = "running"
    BY <2>3 DEF EndInv, Unfinished, Going, ManifestPcs
  <2>5. \A q \in Procs : q # p => pc[q] = "down"
    BY <2>3, OthersDown DEF RecoveryInv, FreshInv, ManifestPcs
  <2>6. ASSUME NEW q \in Procs, Going(q)' PROVE q = p /\ d.status = "running"
    <3>1. q = p
      BY <2>3, <2>5, <2>6 DEF Going
    <3>2. stage'[p] = "renamed"
      BY <2>3 DEF RecoveryInv, FreshInv, CanonicalInv, TypeInv, TypeOK, ProcessTypes
    <3>3. pc[p] \notin {"finish", "fail"}
      BY <2>3, <2>6, <3>1, <3>2 DEF Going
    <3> QED
      BY <3>1, <3>3 DEF Draft, DraftStatus
  <2> HIDE DEF d, s
  <2>7. UniqueSequences'
    BY <2>2 DEF EndInv, UniqueSequences
  <2>8. TerminalLast'
    BY <2>2, <2>4 DEF TerminalLast
  <2>9. NewOnTop'
    BY <2>2, <2>3 DEF EndInv, NewOnTop
  <2>10. Unfinished'
    BY <2>2, <2>4, <2>6 DEF Unfinished
  <2> QED
    BY <2>7, <2>8, <2>9, <2>10 DEF EndInv
<1>2. CASE Quiet /\ \A p \in Procs : ~(Rename(p) /\ InstallManifest(p))
  <2>1. /\ manifests' = manifests
        /\ newManifests' = newManifests \/ newManifests' = {}
    BY <1>2, ManifestsSame
  <2>2. UniqueSequences' /\ TerminalLast' /\ NewOnTop'
    BY <2>1 DEF EndInv, UniqueSequences, TerminalLast, NewOnTop
  <2>3. ASSUME NEW q \in Procs, Going(q)'
        PROVE  \A m \in manifests : m.status = "running"
    <3>1. CASE RotManifest \/ RotResult \/ UNCHANGED vars
      BY <2>3, <3>1 DEF RotManifest, RotResult, vars, volatile, Going, EndInv, Unfinished
    <3>2. ASSUME NEW p \in Procs, OpenStore(p) \/ Work(p) \/ Abort(p) \/ Crash(p), ~Scan(p)
          PROVE  \A m \in manifests : m.status = "running"
      BY <2>3, <3>2, GoingBefore DEF RecoveryInv, EndInv, Unfinished
    <3>3. ASSUME NEW p \in Procs, Scan(p)
          PROVE  \A m \in manifests : m.status = "running"
      <4>1. q = p
        <5>1. pc[p] # "down" /\ (q # p => pc'[q] = pc[q])
          BY <3>3 DEF Scan, StartRun, Recover, LoadTerminal, Resume, Exit, Goto,
             RecoveryInv, FreshInv, CanonicalInv, TypeInv, TypeOK, ProcessTypes
        <5> QED
          BY <2>3, <5>1, OthersDown DEF Going, RecoveryInv, FreshInv
      <4> QED
        BY <2>3, <3>3, <4>1, ScanUnfinished
    <3> QED
      BY <1>2, <3>1, <3>2, <3>3 DEF Quiet
  <2> QED
    BY <2>1, <2>2, <2>3 DEF EndInv, Unfinished
<1>3. CASE PowerFailure
  <2>1. /\ manifests' \subseteq manifests /\ newManifests' = {}
        /\ \A q \in Procs : pc'[q] = "down"
    BY <1>3 DEF PowerFailure
  <2> QED
    BY <2>1 DEF EndInv, UniqueSequences, TerminalLast, NewOnTop, Unfinished, Going
<1> QED
  BY <1>1, <1>2, <1>3 DEF Next, Quiet

\* The invariant holds until a file rots.
LEMMA EndAlways == Spec => [](rots = 0 => EndInv)
<1>1. Init => EndInv
  BY DEF Init, EndInv, UniqueSequences, TerminalLast, NewOnTop, Unfinished, Going
<1>2. RecoveryInv /\ NothingRots /\ (rots = 0 => EndInv) /\ [Next]_vars
        => (rots = 0 => EndInv)'
  BY EndStep, FaultsRemembered
<1> QED
  BY <1>1, <1>2, RecoveryAlways, RotsCounted, PTL DEF Spec

\* Until a file rots, a durable terminal manifest ends the run: whatever is
\* started on the directory, crashes in it or loses power, the manifests stay
\* the same.
THEOREM TerminalStays == Spec => DurableTerminalStays
<1> DEFINE Over == \E m \in manifests : m.status # "running" /\ m.seq \notin newManifests
<1>1. RecoveryInv /\ (rots = 0 => EndInv) /\ [Next]_vars
        => [rots = 0 /\ Over => manifests' = manifests]_vars
  <2> SUFFICES ASSUME RecoveryInv, EndInv, Next, Over
               PROVE  manifests' = manifests
    OBVIOUS
  <2>1. PICK m \in manifests : m.status # "running" /\ m.seq \notin newManifests
    OBVIOUS
  <2>2. ASSUME NEW p \in Procs, Rename(p), InstallManifest(p) PROVE FALSE
    <3>1. Going(p)
      BY <2>2 DEF Rename, InstallManifest, ManifestPcs, Going
    <3> QED
      BY <2>1, <3>1 DEF EndInv, Unfinished
  <2>3. CASE PowerFailure
    <3>1. PICK lost \in SUBSET newManifests :
            manifests' = {n \in manifests : n.seq \notin lost}
      BY <2>3 DEF PowerFailure
    <3>2. ASSUME NEW n \in manifests PROVE n.seq \notin newManifests
      <4>1. n.seq <= m.seq /\ n.seq \in Nat /\ m.seq \in Nat
        BY <2>1 DEF EndInv, TerminalLast, RecoveryInv, FreshInv, CanonicalInv, TypeInv,
           TypeOK, DiskTypes, Manifest, U64
      <4>2. n.seq \in newManifests => m.seq < n.seq
        BY <2>1 DEF EndInv, NewOnTop
      <4> QED
        BY <4>1, <4>2
    <3> QED
      BY <3>1, <3>2
  <2> QED
    BY <2>2, <2>3, ManifestsSame DEF Next, Quiet
<1> QED
  BY <1>1, RecoveryAlways, EndAlways, PTL DEF Spec, DurableTerminalStays

-----------------------------------------------------------------------------
(* The directory can be reopened *)

\* Some manifest has the highest sequence.
HasLast == manifests # {} => \E m \in manifests : \A n \in manifests : n.seq <= m.seq

\* The process is about to install the first manifest.
Starting(p) == pc[p] = "initial" /\ stage[p] \in {"begin", "tmp"}

\* Only the initial manifest is written into an empty directory, and it names
\* no block.
Started(p) ==
    /\ Starting(p) => manifests = {} /\ mem[p].durable = NoMemory.durable
    /\ pc[p] \in LoadedPcs /\ ~Starting(p) => manifests # {}

\* Whoever has come past run_spec.bin has found or installed it.
MetaKnown(p) ==
    /\ pc[p] \notin {"down", "meta"} => meta # "absent"
    /\ pc[p] = "meta" /\ stage[p] \in {"renamed", "synced"} => meta # "absent"

LogInv ==
    /\ HasLast
    /\ \A p \in Procs : Started(p) /\ MetaKnown(p)
    /\ Payload => meta # "absent"

\* A step that installs no manifest and wipes nothing.
LEMMA LogSame ==
  ASSUME RecoveryInv, LogInv, NEW p \in Procs,
         OpenStore(p) \/ Work(p) \/ Abort(p) \/ Crash(p), ~Rename(p),
         NEW q \in Procs
  PROVE  /\ Started(q)' /\ MetaKnown(q)'
         /\ UNCHANGED manifests /\ results' \subseteq results
         /\ meta # "absent" => meta' # "absent"
<1>1. /\ pc \in [Procs -> Pcs] /\ stage \in [Procs -> Stages]
      /\ mem \in [Procs -> Memory] /\ Started(q) /\ MetaKnown(q)
  BY DEF LogInv, RecoveryInv, FreshInv, CanonicalInv, TypeInv, TypeOK, ProcessTypes
<1>2. CASE OpenStore(p)
  BY <1>1, <1>2 DEF OpenStore, Goto, AfterLock, disk, Started, Starting, MetaKnown,
     LoadedPcs, ManifestPcs
<1>3. CASE Abort(p) \/ Crash(p)
  BY <1>1, <1>3 DEF Abort, Crash, Exit, Goto, disk, Started, Starting, MetaKnown,
     LoadedPcs, ManifestPcs
<1>4. CASE Scan(p)
  <2>1. pc[p] = "scan" /\ UNCHANGED <<meta, manifests, results>>
    BY <1>4 DEF Scan, disk
  <2>2. CASE Exit(p)
    BY <1>1, <2>1, <2>2 DEF Exit, Goto, Started, Starting, MetaKnown, LoadedPcs,
       ManifestPcs
  <2>3. CASE StartRun(p)
    <3>1. /\ mem' = [mem EXCEPT ![p] =
                [NoMemory EXCEPT !.inc = 1, !.leases = [b \in Blocks |-> 1]]]
          /\ manifests = {} /\ Goto(p, "initial")
      BY <2>3 DEF StartRun
    <3>2. mem'[p].durable = NoMemory.durable
      BY <1>1, <3>1 DEF NoMemory
    <3> QED
      BY <1>1, <2>1, <3>1, <3>2 DEF Goto, Started, Starting, MetaKnown, LoadedPcs,
         ManifestPcs
  <2>4. ASSUME NEW m \in manifests, NEW s \in U64, Recover(p, m, s), ~Exit(p)
        PROVE  Started(q)' /\ MetaKnown(q)'
    <3>1. Goto(p, "cleanup") \/ Goto(p, "recovery")
      BY <2>4 DEF Recover, LoadTerminal, Resume
    <3>2. q # p => mem'[q] = mem[q]
      BY <1>1, <2>4 DEF Recover, LoadTerminal, Resume
    <3> QED
      BY <1>1, <2>1, <2>4, <3>1, <3>2 DEF Goto, Started, Starting, MetaKnown, LoadedPcs,
         ManifestPcs
  <2> QED
    BY <1>4, <2>1, <2>2, <2>3, <2>4 DEF Scan
<1>5. CASE RemoveOrphan(p) \/ FinishOpen(p)
  BY <1>1, <1>5 DEF RemoveOrphan, FinishOpen, Exit, Goto, Started, Starting, MetaKnown,
     LoadedPcs, ManifestPcs
<1>6. CASE Finish(p) \/ \E b \in Blocks : Consume(p, b)
  BY <1>1, <1>6 DEF Finish, Consume, Goto, disk, Started, Starting, MetaKnown,
     LoadedPcs, ManifestPcs
<1>7. CASE WriteTemp(p)
  <2>1. UNCHANGED <<meta, manifests, results>>
    BY <1>7 DEF WriteTemp, disk
  <2>2. CASE Exit(p)
    BY <1>1, <2>1, <2>2 DEF Exit, Goto, Started, Starting, MetaKnown, LoadedPcs,
       ManifestPcs
  <2>3. CASE ~Exit(p)
    <3>1. ~TargetExists(p)
      BY <1>7, FreshInvNames DEF WriteTemp, RecoveryInv, FreshNames
    <3>2. stage[p] = "begin" /\ stage' = [stage EXCEPT ![p] = "tmp"] /\ UNCHANGED <<pc, mem>>
      BY <1>7, <2>3, <3>1 DEF WriteTemp
    <3> QED
      BY <1>1, <2>1, <3>2 DEF Started, Starting, MetaKnown
  <2> QED
    BY <2>2, <2>3
<1>8. CASE SyncDirectory(p)
  BY <1>1, <1>8 DEF SyncDirectory, Started, Starting, MetaKnown
<1>9. CASE Installed(p)
  <2>1. stage[p] = "synced" /\ UNCHANGED <<meta, manifests, results>>
    BY <1>9 DEF Installed, disk
  <2>2. /\ \A r \in Procs : r # p => pc'[r] = pc[r] /\ stage'[r] = stage[r] /\ mem'[r] = mem[r]
        /\ stage'[p] = "begin" /\ pc[p] \in InstallPcs
        /\ pc'[p] \in {"scan", "checkpoint", "running", "cleanup", "down"}
        /\ pc'[p] \in LoadedPcs => pc[p] \in LoadedPcs
    <3>1. CASE MetadataInstalled(p)
      BY <1>1, <3>1 DEF MetadataInstalled, Goto, InstallPcs, LoadedPcs, ManifestPcs
    <3>2. CASE ResultRecorded(p)
      BY <1>1, <3>2 DEF ResultRecorded, Goto, InstallPcs, LoadedPcs
    <3>3. CASE RunOpened(p)
      BY <1>1, <3>3 DEF RunOpened, Goto, InstallPcs, LoadedPcs, ManifestPcs
    <3>4. CASE CheckpointTaken(p)
      BY <1>1, <3>4 DEF CheckpointTaken, Goto, InstallPcs, LoadedPcs, ManifestPcs
    <3>5. CASE RunEnded(p)
      BY <1>1, <3>5 DEF RunEnded, Exit, Goto, InstallPcs, LoadedPcs, ManifestPcs
    <3> QED
      BY <1>9, <3>1, <3>2, <3>3, <3>4, <3>5 DEF Installed
  <2>3. CASE q # p
    BY <1>1, <2>1, <2>2, <2>3 DEF Started, Starting, MetaKnown
  <2>4. CASE q = p
    <3>1. meta # "absent"
      BY <1>1, <2>1, <2>2, <2>4 DEF MetaKnown, InstallPcs, ManifestPcs
    <3>2. ~Starting(p) /\ ~Starting(p)'
      BY <2>1, <2>2 DEF Starting
    <3> QED
      BY <1>1, <2>1, <2>2, <2>4, <3>1, <3>2 DEF Started, MetaKnown
  <2> QED
    BY <2>1, <2>3, <2>4
<1> QED
  BY <1>2, <1>3, <1>4, <1>5, <1>6, <1>7, <1>8, <1>9 DEF Work

\* A rename shows a file under its final name.
LEMMA LogRename ==
  ASSUME RecoveryInv, LogInv, NEW p \in Procs, Rename(p)
  PROVE  LogInv'
<1>1. /\ pc \in [Procs -> Pcs] /\ stage \in [Procs -> Stages]
      /\ pc[p] \in InstallPcs /\ stage[p] = "tmp"
      /\ stage' = [stage EXCEPT ![p] = "renamed"] /\ UNCHANGED <<pc, mem>>
  BY DEF Rename, RecoveryInv, FreshInv, CanonicalInv, TypeInv, TypeOK, ProcessTypes
<1>2. \A q \in Procs : q # p => pc[q] = "down"
  BY <1>1, OthersDown DEF RecoveryInv, FreshInv, InstallPcs, ManifestPcs
<1>3. \A q \in Procs : q # p => Started(q)' /\ MetaKnown(q)'
  BY <1>1, <1>2 DEF Started, Starting, MetaKnown, LoadedPcs, ManifestPcs
<1>4. ~Starting(p)' /\ Started(p) /\ MetaKnown(p)
  BY <1>1 DEF Starting, LogInv
<1>5. CASE InstallMetadata(p)
  <2>1. pc[p] = "meta" /\ meta' = "renamed" /\ UNCHANGED <<manifests, results>>
    BY <1>5 DEF InstallMetadata
  <2>2. Started(p)' /\ MetaKnown(p)'
    BY <1>1, <1>4, <2>1 DEF Started, MetaKnown, LoadedPcs, ManifestPcs
  <2> QED
    BY <1>3, <2>1, <2>2 DEF LogInv, HasLast
<1>6. CASE InstallResult(p)
  <2>1. pc[p] = "record" /\ UNCHANGED <<meta, manifests>>
    BY <1>6 DEF InstallResult
  <2>2. meta # "absent" /\ manifests # {}
    BY <1>4, <2>1 DEF MetaKnown, Started, Starting, LoadedPcs
  <2>3. Started(p)' /\ MetaKnown(p)'
    BY <1>4, <2>1, <2>2 DEF Started, MetaKnown
  <2> QED
    BY <1>3, <2>1, <2>2, <2>3 DEF LogInv, HasLast
<1>7. CASE InstallManifest(p)
  <2>1. pc[p] \in ManifestPcs /\ UNCHANGED meta
    BY <1>7 DEF InstallManifest
  <2>2. meta # "absent"
    BY <1>4, <2>1 DEF MetaKnown, ManifestPcs
  <2>3. /\ manifests' = manifests \cup {Draft(p)}
        /\ Draft(p).seq = DraftSequence(p)
        /\ DraftSequence(p) \in Nat
        /\ \A m \in manifests : m.seq \in Nat /\ m.seq < DraftSequence(p)
    BY <1>7, Installs DEF RecoveryInv
  <2>4. \A n \in manifests' : n.seq <= Draft(p).seq
    BY <2>3
  <2>5. HasLast' /\ manifests' # {}
    BY <2>3, <2>4 DEF HasLast
  <2>6. Started(p)' /\ MetaKnown(p)'
    BY <1>4, <2>1, <2>2, <2>5 DEF Started, MetaKnown
  <2> QED
    BY <1>3, <2>1, <2>2, <2>5, <2>6 DEF LogInv
<1> QED
  BY <1>5, <1>6, <1>7 DEF Rename

\* The invariant holds until power fails.
LEMMA LogAlways == Spec => [](powerFailures = 0 => LogInv)
<1>1. Init => LogInv
  BY DEF Init, LogInv, HasLast, Started, Starting, MetaKnown, Payload, LoadedPcs,
     ManifestPcs
<1>2. RecoveryInv /\ (powerFailures = 0 => LogInv) /\ [Next]_vars
        => (powerFailures = 0 => LogInv)'
  <2> SUFFICES ASSUME RecoveryInv, LogInv, [Next]_vars, ~PowerFailure PROVE LogInv'
    BY FaultsRemembered
  <2>1. CASE RotManifest \/ RotResult \/ UNCHANGED vars
    BY <2>1 DEF RotManifest, RotResult, vars, disk, volatile, LogInv, HasLast, Started,
       Starting, MetaKnown, Payload
  <2>2. ASSUME NEW p \in Procs, OpenStore(p) \/ Work(p) \/ Abort(p) \/ Crash(p), ~Rename(p)
        PROVE  LogInv'
    <3>1. /\ \A q \in Procs : Started(q)' /\ MetaKnown(q)'
          /\ UNCHANGED manifests /\ results' \subseteq results
          /\ meta # "absent" => meta' # "absent"
      BY <2>2, LogSame
    <3> QED
      BY <3>1 DEF LogInv, HasLast, Payload
  <2>3. ASSUME NEW p \in Procs, Rename(p) PROVE LogInv'
    BY <2>3, LogRename
  <2> QED
    BY <2>1, <2>2, <2>3 DEF Next
<1> QED
  BY <1>1, <1>2, RecoveryAlways, PTL DEF Spec

\* Until a file rots or power fails, open() never refuses a directory nobody
\* owns: run_spec.bin is there when anything is, and so is a valid manifest.
THEOREM CanBeReopened == Spec => []Reopenable
<1>1. RecoveryInv /\ NothingRots /\ (powerFailures = 0 => LogInv) => Reopenable
  BY ValidIsIntact DEF LogInv, Reopenable, NothingRots, Intact
<1> QED
  BY <1>1, RecoveryAlways, RotsCounted, LogAlways, PTL

-----------------------------------------------------------------------------
(* The refinement *)

\* The manifest with the highest sequence is what recovery would load.
LEMMA LoadedIsLast ==
  ASSUME RecoveryInv, \A m \in manifests : Valid(m), UniqueSequences,
         NEW l \in manifests, \A n \in manifests : n.seq <= l.seq
  PROVE  Loaded = {l}
<1>1. \A m \in manifests : m.seq \in Nat
  BY DEF RecoveryInv, FreshInv, CanonicalInv, TypeInv, TypeOK, DiskTypes, Manifest, U64
<1>2. LatestValid(l)
  BY DEF LatestValid
<1>3. ASSUME NEW m \in manifests, LatestValid(m) PROVE m = l
  <2>1. m.seq = l.seq
    BY <1>1, <1>3 DEF LatestValid
  <2> QED
    BY <2>1 DEF UniqueSequences
<1> QED
  BY <1>2, <1>3 DEF Loaded

\* Without rot and power failures the store is a commit log: every step maps
\* to a step of CommitLog or to a stutter, and the rename of a manifest is the
\* commit.
THEOREM StoreIsCommitLog ==
  ASSUME MaxRots = 0, MaxPowerFailures = 0
  PROVE  Spec => ImplementsCommitLog
<1> DEFINE StoreInv ==
        /\ RecoveryInv /\ NothingRots
        /\ rots = 0 => EndInv
        /\ powerFailures = 0 => LogInv
<1>0. RecoveryInv => rots = 0 /\ powerFailures = 0
  BY DEF RecoveryInv, FreshInv, CanonicalInv, TypeInv, TypeOK, CounterTypes
<1>1. Init => Log!Init
  BY DEF Init, Log!Init, loggedEntries, loggedStatus, Loaded
<1>2. StoreInv => \A m \in manifests : Valid(m)
  BY <1>0, ValidIsIntact DEF NothingRots, Intact
<1>3. StoreInv /\ StoreInv' /\ [Next]_vars => [Log!Next]_(Log!logVars)
  <2> SUFFICES ASSUME StoreInv, StoreInv', [Next]_vars
               PROVE  [Log!Next]_(Log!logVars)
    OBVIOUS
  <2>0. /\ rots = 0 /\ rots' = 0 /\ powerFailures = 0 /\ powerFailures' = 0
        /\ EndInv /\ LogInv
    <3>1. rots = 0 /\ powerFailures = 0
      BY <1>0
    <3>2. rots' = 0 /\ powerFailures' = 0
      BY DEF RecoveryInv, FreshInv, CanonicalInv, TypeInv, TypeOK, CounterTypes
    <3> QED
      BY <3>1, <3>2
  <2>1. (\A m \in manifests : Valid(m)) /\ (\A m \in manifests : Valid(m))'
    <3>1. \A m \in manifests : Valid(m)
      BY <1>2
    <3>2. (\A m \in manifests : Valid(m))'
      BY <2>0 DEF NothingRots, RecoveryInv, FreshInv, CanonicalInv, ManifestsCanonical,
         EvidenceKept, Valid, Evidence, Intact
    <3> QED
      BY <3>1, <3>2
  <2>2. ~PowerFailure
    BY DEF PowerFailure, RecoveryInv, FreshInv, CanonicalInv, TypeInv, TypeOK,
       CounterTypes
  <2>3. CASE \A p \in Procs : ~(Rename(p) /\ InstallManifest(p))
    <3>1. manifests' = manifests
      BY <2>2, <2>3, ManifestsSame DEF Next, Quiet
    <3>2. Loaded' = Loaded
      BY <2>1, <3>1 DEF Loaded, LatestValid
    <3> QED
      BY <3>2 DEF Log!logVars, loggedEntries, loggedStatus
  <2>4. ASSUME NEW p \in Procs, Rename(p), InstallManifest(p)
        PROVE  Log!Next
    <3>0. PICK d : d = Draft(p)
      OBVIOUS
    <3>1. /\ manifests' = manifests \cup {d} /\ d.seq \in Nat
          /\ \A m \in manifests : m.seq \in Nat /\ m.seq < d.seq
      BY <2>4, <3>0, Installs DEF RecoveryInv
    <3>2. /\ d \in Manifest /\ Canonical(d)
          /\ d.entries = mem[p].durable /\ d.status = DraftStatus(p)
      <4>1. d \in manifests'
        BY <3>1
      <4>2. d \in Manifest /\ Canonical(d)
        BY <4>1 DEF RecoveryInv, FreshInv, CanonicalInv, ManifestsCanonical, TypeInv,
           TypeOK, DiskTypes
      <4> QED
        BY <3>0, <4>2 DEF Draft
    <3>3. pc[p] \in ManifestPcs /\ pc[p] \in LoadedPcs /\ stage[p] = "tmp"
      BY <2>4 DEF Rename, InstallManifest, LoadedPcs
    <3>4. Started(p) /\ Knows(p) /\ Going(p)
      BY <2>0, <3>3 DEF LogInv, RecoveryInv, Going, ManifestPcs
    <3>5. Loaded' = {d}
      <4>1. \A n \in manifests' : n.seq <= d.seq
        BY <3>1
      <4>2. ASSUME NEW m \in manifests', LatestValid(m)' PROVE m = d
        BY <2>1, <3>1, <4>2 DEF LatestValid
      <4>3. LatestValid(d)'
        BY <2>1, <3>1, <4>1 DEF LatestValid
      <4> QED
        BY <3>1, <4>2, <4>3 DEF Loaded
    <3>6. loggedEntries' = mem[p].durable /\ loggedStatus' = d.status
      BY <3>2, <3>5 DEF loggedEntries, loggedStatus
    <3>7. CASE manifests = {}
      <4>1. Starting(p)
        BY <3>3, <3>4, <3>7 DEF Started
      <4>2. d.status = "running" /\ mem[p].durable = [b \in Blocks |-> Absent]
        BY <3>2, <3>4, <4>1 DEF Started, Starting, DraftStatus, NoMemory
      <4>3. loggedEntries = [b \in Blocks |-> Absent] /\ loggedStatus = "none"
        BY <3>7 DEF loggedEntries, loggedStatus, Loaded
      <4> QED
        BY <3>6, <4>2, <4>3 DEF Log!Next, Log!Create
    <3>8. CASE manifests # {}
      <4>1. PICK l \in manifests : \A n \in manifests : n.seq <= l.seq
        BY <2>0, <3>8 DEF LogInv, HasLast
      <4>2. Loaded = {l}
        BY <2>0, <2>1, <4>1, LoadedIsLast DEF EndInv
      <4>3. loggedEntries = l.entries /\ loggedStatus = l.status
        BY <4>2 DEF loggedEntries, loggedStatus
      <4>4. l.status = "running"
        BY <2>0, <3>4, <4>1 DEF EndInv, Unfinished
      <4>5. Intact(l)
        BY <2>1, <4>1, ValidIsIntact
      <4>6. \A b \in Blocks : l.entries[b] # Absent => mem[p].durable[b] = l.entries[b]
        BY <3>3, <3>4, <4>1, <4>5 DEF Knows, KnowsManifest, Present
      <4>7. /\ mem[p].durable \in [Blocks -> Stamp]
            /\ d.status \in {"running", "complete", "failed"}
            /\ d.status = "complete" => \A b \in Blocks : mem[p].durable[b] # Absent
        BY <3>2 DEF Manifest, Status, Canonical, Present
      <4>8. Log!Extends(mem[p].durable)
        BY <4>3, <4>6 DEF Log!Extends
      <4>9. Log!Commit(d.status)
        BY <3>6, <4>3, <4>4, <4>7, <4>8 DEF Log!Commit, Log!Extends
      <4> QED
        BY <4>7, <4>9 DEF Log!Next
    <3> QED
      BY <3>7, <3>8
  <2> QED
    BY <2>3, <2>4
<1> QED
  BY <1>1, <1>3, RecoveryAlways, RotsCounted, EndAlways, LogAlways, PTL
     DEF Spec, ImplementsCommitLog, Log!Spec
=============================================================================
