------------------------- MODULE CoordinatorProofs -------------------------
(***************************************************************************)
(* Proofs about Coordinator, for any blocks and payloads and any number of *)
(* restarts and of damaged results.                                        *)
(***************************************************************************)
EXTENDS Coordinator, TLAPS

\* Results of this incarnation carry this incarnation's leases: the lease test
\* of validate_result never rejects one.
LeasesCurrent ==
    \A r \in pool :
        r.inc <= incarnation /\ (r.inc = incarnation => r.epoch = leases[r.block])

\* The coordinator's table contains the manifest's.
SnapshotKept == \A b \in Blocks : snapshot[b] # None => committed[b] = snapshot[b]

\* What the coordinator was given and did not refuse is what it committed.
HeardCommitted ==
    status # "failed" => \A z \in heard : committed[z[1]] = z[2]

\* CommitsSupported, one table at a time.
Supported(table) ==
    \A b \in Blocks : table[b] # None =>
        \E r \in pool : r.block = b /\ r.payload = table[b] /\ r.fault = "none"

Inv ==
    /\ TypeOK
    /\ LeasesCurrent
    /\ SnapshotKept
    /\ HeardCommitted
    /\ Supported(committed) /\ Supported(snapshot)
    /\ FailsOnlyForCause

\* An empty run satisfies the invariant.
LEMMA InvInit == Init => Inv
BY AnswerAssumption, NonePayload, BoundsAssumption
   DEF Init, Inv, TypeOK, LeasesCurrent, SnapshotKept, HeardCommitted, Supported,
       FailsOnlyForCause, FirstLease, Result

\* A worker adds a well-formed result that carries the current lease.
LEMMA PoolGrows ==
  ASSUME Inv, status = "running",
         NEW b \in Blocks, NEW p \in Payloads,
         NEW f \in {"none"} \cup Foreign \cup Broken,
         pool' = pool \cup {Current(b, p, f)},
         damaged' \in 0 .. MaxDamaged,
         UNCHANGED <<incarnation, leases, committed, snapshot, status, heard>>
  PROVE  Inv'
<1> DEFINE new == Current(b, p, f)
<1>1. new \in Result
  BY DEF Inv, TypeOK, Current, Result
<1>2. new.inc = incarnation /\ new.epoch = leases[new.block]
  BY DEF Current
<1> HIDE DEF new
<1>3. TypeOK'
  BY <1>1 DEF Inv, TypeOK, new
<1>4. LeasesCurrent'
  BY <1>2 DEF Inv, TypeOK, LeasesCurrent, new
<1>5. Supported(committed)' /\ Supported(snapshot)'
  BY DEF Inv, Supported
<1>6. SnapshotKept' /\ HeardCommitted' /\ FailsOnlyForCause'
  BY DEF Inv, SnapshotKept, HeardCommitted, FailsOnlyForCause
<1> QED
  BY <1>3, <1>4, <1>5, <1>6 DEF Inv

\* What validate_result says decides what the callback knows of the result.
LEMMA Verdict ==
  ASSUME Inv, NEW r \in pool
  PROVE  /\ validate_result(r) = "Accepted" =>
              r.fault = "none" /\ r.inc = incarnation /\ committed[r.block] = None
         /\ is_benign_rejection(validate_result(r)) =>
              \/ r.inc # incarnation
              \/ r.fault = "none" /\ committed[r.block] = r.payload
         /\ ~is_benign_rejection(validate_result(r))
              /\ validate_result(r) # "Accepted" => Cause(r)
<1>1. r \in Result
  BY DEF Inv, TypeOK
<1>2. r.inc = incarnation => r.epoch = leases[r.block]
  BY DEF Inv, LeasesCurrent
<1>3. CASE r.fault \in Foreign
  BY <1>1, <1>3 DEF validate_result, is_benign_rejection, Foreign, Cause
<1>4. CASE r.fault \notin Foreign /\ r.inc # incarnation
  BY <1>4 DEF validate_result, is_benign_rejection
<1>5. CASE r.fault \notin Foreign /\ r.inc = incarnation /\ r.fault # "none"
  BY <1>1, <1>5 DEF validate_result, ContentCheck, is_benign_rejection, Result,
     Broken, Cause
<1>6. CASE r.fault = "none" /\ r.inc = incarnation
  <2>1. validate_result(r) = CommitCheck(r)
    BY <1>6 DEF validate_result, ContentCheck, Foreign
  <2>2. CASE committed[r.block] = r.payload
    BY <1>6, <2>1, <2>2 DEF CommitCheck, is_benign_rejection
  <2>3. CASE committed[r.block] # r.payload /\ committed[r.block] # None
    <3>1. PICK q \in pool : q.block = r.block /\ q.fault = "none"
                              /\ q.payload = committed[r.block]
      BY <1>1, <2>3 DEF Inv, Supported, Result
    <3>2. Cause(r)
      BY <1>6, <2>3, <3>1 DEF Cause
    <3> QED
      BY <2>1, <2>3, <3>2 DEF CommitCheck, is_benign_rejection
  <2>4. CASE committed[r.block] # r.payload /\ committed[r.block] = None
    BY <1>2, <1>6, <2>1, <2>4 DEF CommitCheck, is_benign_rejection
  <2> QED
    BY <2>2, <2>3, <2>4
<1> QED
  BY <1>3, <1>4, <1>5, <1>6 DEF Foreign

\* Delivery of any result, at any time.
LEMMA DeliverStep ==
  ASSUME Inv, NEW r \in pool, Deliver(r)
  PROVE  Inv'
<1>1. r \in Result /\ r.block \in Blocks /\ r.payload \in Payloads
  BY DEF Inv, TypeOK, Result
<1>2. UNCHANGED <<incarnation, leases, pool, damaged>> /\ status = "running"
  BY DEF Deliver
<1>3. heard' \subseteq Blocks \X Payloads
  BY <1>1 DEF Inv, TypeOK, Deliver
<1>4. LeasesCurrent'
  BY <1>2 DEF Inv, LeasesCurrent
<1>5. CASE is_benign_rejection(validate_result(r))
           /\ UNCHANGED <<committed, snapshot, status>>
  <2>1. HeardCommitted'
    BY <1>1, <1>2, <1>5, Verdict DEF Inv, HeardCommitted, Deliver
  <2>2. TypeOK'
    BY <1>2, <1>3, <1>5 DEF Inv, TypeOK
  <2> QED
    BY <1>2, <1>4, <1>5, <2>1, <2>2
       DEF Inv, SnapshotKept, Supported, FailsOnlyForCause
<1>6. CASE validate_result(r) = "Accepted" /\ Commit(r)
  <2>1. r.fault = "none" /\ r.inc = incarnation /\ committed[r.block] = None
    BY <1>6, Verdict
  <2>2. /\ committed' = [committed EXCEPT ![r.block] = r.payload]
        /\ UNCHANGED <<snapshot, status>>
    BY <1>6 DEF Commit
  <2>3. committed \in [Blocks -> Payloads \cup {None}]
    BY DEF Inv, TypeOK
  <2>4. TypeOK'
    BY <1>1, <1>2, <1>3, <2>2, <2>3 DEF Inv, TypeOK
  <2>5. SnapshotKept'
    BY <1>1, <2>1, <2>2, <2>3 DEF Inv, SnapshotKept
  <2>6. HeardCommitted'
    <3> SUFFICES ASSUME NEW z \in heard'
                 PROVE  committed'[z[1]] = z[2]
      BY DEF HeardCommitted
    <3>1. CASE z \in heard
      <4>1. z \in Blocks \X Payloads /\ committed[z[1]] = z[2]
        BY <1>2, <3>1 DEF Inv, TypeOK, HeardCommitted
      <4>2. z[1] # r.block
        BY <2>1, <4>1, NonePayload
      <4> QED
        BY <2>2, <2>3, <4>1, <4>2
    <3>2. CASE z = <<r.block, r.payload>>
      BY <1>1, <2>2, <2>3, <3>2
    <3> QED
      BY <3>1, <3>2 DEF Deliver
  <2>7. Supported(committed)' /\ Supported(snapshot)'
    BY <1>1, <1>2, <2>1, <2>2, <2>3 DEF Inv, Supported
  <2>8. FailsOnlyForCause'
    BY <1>2, <2>2 DEF FailsOnlyForCause
  <2> QED
    BY <1>4, <2>4, <2>5, <2>6, <2>7, <2>8 DEF Inv
<1>7. CASE ~is_benign_rejection(validate_result(r))
           /\ validate_result(r) # "Accepted" /\ Fail
  <2>1. Cause(r)
    BY <1>7, Verdict
  <2>2. status' = "failed" /\ snapshot' = committed /\ committed' = committed
    BY <1>7 DEF Fail
  <2>3. Cause(r)'
    BY <1>2, <2>1 DEF Cause
  <2>4. FailsOnlyForCause'
    BY <1>2, <2>3 DEF FailsOnlyForCause
  <2>5. TypeOK'
    BY <1>2, <1>3, <2>2 DEF Inv, TypeOK
  <2>6. SnapshotKept' /\ HeardCommitted'
    BY <2>2 DEF SnapshotKept, HeardCommitted
  <2>7. Supported(committed)' /\ Supported(snapshot)'
    BY <1>2, <2>2 DEF Inv, Supported
  <2> QED
    BY <1>4, <2>4, <2>5, <2>6, <2>7 DEF Inv
<1> QED
  BY <1>5, <1>6, <1>7 DEF Deliver

\* A checkpoint copies the coordinator's table into the manifest.
LEMMA CheckpointStep == Inv /\ Checkpoint => Inv'
<1> SUFFICES ASSUME Inv, Checkpoint PROVE Inv'
  OBVIOUS
<1>1. /\ snapshot' = committed /\ status = "running" /\ status' # "failed"
      /\ status' \in {"running", "complete"}
      /\ UNCHANGED <<incarnation, leases, committed, pool, damaged, heard>>
  BY DEF Checkpoint
<1>2. TypeOK' /\ LeasesCurrent'
  BY <1>1 DEF Inv, TypeOK, LeasesCurrent
<1>3. SnapshotKept' /\ HeardCommitted' /\ FailsOnlyForCause'
  BY <1>1 DEF Inv, SnapshotKept, HeardCommitted, FailsOnlyForCause
<1>4. Supported(committed)' /\ Supported(snapshot)'
  BY <1>1 DEF Inv, Supported
<1> QED
  BY <1>2, <1>3, <1>4 DEF Inv

\* A restart falls back to the manifest and makes every result in flight stale.
LEMMA RestartStep == Inv /\ Restart => Inv'
<1> SUFFICES ASSUME Inv, Restart PROVE Inv'
  OBVIOUS
<1>1. /\ incarnation' = incarnation + 1 /\ heard' = {} /\ status = "running"
      /\ leases' = [b \in Blocks |-> leases[b] + 1] /\ committed' = snapshot
      /\ UNCHANGED <<snapshot, status, pool, damaged>>
  BY DEF Restart, RestoredCommits
<1>2. TypeOK'
  BY <1>1 DEF Inv, TypeOK
<1>3. LeasesCurrent'
  BY <1>1 DEF Inv, TypeOK, LeasesCurrent, Result
<1>4. SnapshotKept' /\ HeardCommitted' /\ FailsOnlyForCause'
  BY <1>1 DEF Inv, SnapshotKept, HeardCommitted, FailsOnlyForCause
<1>5. Supported(committed)' /\ Supported(snapshot)'
  BY <1>1 DEF Inv, Supported
<1> QED
  BY <1>2, <1>3, <1>4, <1>5 DEF Inv

\* One step per action of Next.
LEMMA InvStep == Inv /\ [Next]_vars => Inv'
<1> SUFFICES ASSUME Inv, [Next]_vars PROVE Inv'
  OBVIOUS
<1>1. ASSUME NEW b \in Blocks, Compute(b) PROVE Inv'
  <2>1. damaged' \in 0 .. MaxDamaged
    BY <1>1 DEF Compute, Inv, TypeOK
  <2> QED
    BY <1>1, <2>1, PoolGrows, AnswerAssumption DEF Compute
<1>2. ASSUME NEW b \in Blocks, Misbehave(b) PROVE Inv'
  <2>1. damaged' \in 0 .. MaxDamaged
    BY <1>2, BoundsAssumption DEF Misbehave, Inv, TypeOK
  <2>2. PICK p \in Payloads, f \in {"none"} \cup Foreign \cup Broken :
          pool' = pool \cup {Current(b, p, f)}
    BY <1>2 DEF Misbehave
  <2> QED
    BY <1>2, <2>1, <2>2, PoolGrows DEF Misbehave
<1>3. ASSUME NEW r \in pool, Deliver(r) PROVE Inv'
  BY <1>3, DeliverStep
<1>4. CASE Checkpoint
  BY <1>4, CheckpointStep
<1>5. CASE Restart
  BY <1>5, RestartStep
<1>6. CASE UNCHANGED vars
  BY <1>6 DEF vars, Inv, TypeOK, LeasesCurrent, SnapshotKept, HeardCommitted,
     Supported, FailsOnlyForCause, Cause
<1> QED
  BY <1>1, <1>2, <1>3, <1>4, <1>5, <1>6 DEF Next

\* The invariant holds in every behaviour.
LEMMA InvAlways == Spec => []Inv
BY InvInit, InvStep, PTL DEF Spec

\* Deliveries, checkpoints and restarts keep every table and counter typed.
THEOREM TypeCorrect == Spec => []TypeOK
<1>1. Inv => TypeOK
  BY DEF Inv
<1> QED
  BY <1>1, InvAlways, PTL

\* However results are duplicated, delayed or damaged, a coordinator that has
\* been given two different intact payloads for a block has failed the run.
THEOREM NondeterminismStopsTheRun == Spec => []OneAnswer
<1>1. Inv => OneAnswer
  BY DEF Inv, HeardCommitted, OneAnswer
<1> QED
  BY <1>1, InvAlways, PTL

\* A run fails only for a foreign result, for a broken one of the current
\* incarnation, or for two results of one block that disagree.
THEOREM FailureHasCause == Spec => []FailsOnlyForCause
<1>1. Inv => FailsOnlyForCause
  BY DEF Inv
<1> QED
  BY <1>1, InvAlways, PTL

\* What is committed, in memory or in a manifest, some worker delivered intact.
THEOREM CommitsAreSupported == Spec => []CommitsSupported
<1>1. Inv => CommitsSupported
  BY DEF Inv, Supported, CommitsSupported
<1> QED
  BY <1>1, InvAlways, PTL

\* A payload that a manifest names is never replaced or forgotten.
THEOREM SnapshotsAreStable == Spec => SnapshotStable
<1>1. Inv /\ [Next]_vars =>
        [\A b \in Blocks : snapshot[b] # None => snapshot'[b] = snapshot[b]]_vars
  <2> SUFFICES ASSUME Inv, Next, NEW b \in Blocks, snapshot[b] # None
               PROVE  snapshot'[b] = snapshot[b]
    OBVIOUS
  <2>1. snapshot' = snapshot \/ snapshot' = committed
    BY DEF Next, Compute, Misbehave, Deliver, Commit, Fail, Checkpoint, Restart
  <2> QED
    BY <2>1 DEF Inv, SnapshotKept
<1> QED
  BY <1>1, InvAlways, PTL DEF Spec, SnapshotStable
=============================================================================
