---------------------------- MODULE Coordinator ----------------------------
(***************************************************************************)
(* validate_result and commit_result (src/runtime/coordinator.cpp) as the  *)
(* callback of run_parallel_durable uses them, under at-least-once         *)
(* delivery: a result, once computed, may reach the coordinator at any     *)
(* time, any number of times, also after a restart under a new             *)
(* incarnation.  Some results are damaged or do not agree with others.     *)
(*                                                                         *)
(* A payload is a model value; the checksum of an intact result is its     *)
(* payload.  Of a result's identity fields only the first that the checks  *)
(* would reject is kept, in "fault".  The store is reduced to the payloads *)
(* of its latest manifest: module RunStore has the rest.                   *)
(***************************************************************************)
EXTENDS Naturals, FiniteSets

CONSTANTS
    Blocks,
    Payloads,         \* what a block's aggregate may hash to
    Answer,           \* the payload a correct worker computes
    None,             \* no payload
    MaxIncarnations,  \* bound on restarts
    MaxDamaged        \* bound on damaged or deviating results

ASSUME AnswerAssumption == Answer \in Payloads
ASSUME NonePayload == None \notin Payloads
ASSUME BoundsAssumption == MaxIncarnations \in Nat /\ MaxDamaged \in Nat

VARIABLES
    incarnation,  \* CoordinatorState::run_incarnation
    leases,       \* lease_epoch of each block
    committed,    \* committed_payloads, and received
    snapshot,     \* payloads named by the latest manifest
    status,       \* "running", "failed" or "complete"
    pool,         \* results computed so far; delivery removes nothing
    damaged,      \* number of damaged or deviating results
    heard         \* history: intact payloads this coordinator was given

vars == <<incarnation, leases, committed, snapshot, status, pool, damaged, heard>>

-----------------------------------------------------------------------------

\* Rejections decided before and after the incarnation is looked at.
Foreign == {"InvalidRun", "ExecutionLayoutMismatch", "BuildMismatch"}
Broken == {"RngVersionMismatch", "StatsSchemaMismatch", "InvalidBlock",
           "InvalidAggregate", "CorruptPayload"}

Result == [block : Blocks, inc : Nat, epoch : Nat, payload : Payloads,
           fault : {"none"} \cup Foreign \cup Broken]

ValidationStatus == Foreign \cup Broken \cup
    {"Accepted", "Duplicate", "StaleIncarnation", "StaleLease",
     "DeterminismError"}

\* Fault: whatever is already committed is taken for a duplicate.
AnyDuplicate(r) ==
    IF committed[r.block] # None THEN "Duplicate"
    ELSE IF r.epoch # leases[r.block] THEN "StaleLease"
    ELSE "Accepted"

\* An intact result against what is committed, then against its lease.  Within
\* one incarnation leases do not change, so the last test is a safeguard.
CommitCheck(r) ==
    IF committed[r.block] = r.payload THEN "Duplicate"
    ELSE IF committed[r.block] # None THEN "DeterminismError"
    ELSE IF r.epoch # leases[r.block] THEN "StaleLease"
    ELSE "Accepted"

\* Versions, block range, aggregate invariants and payload checksum.
ContentCheck(r) == IF r.fault # "none" THEN r.fault ELSE CommitCheck(r)

\* Fault: the content is examined before the incarnation.
ContentFirst(r) ==
    IF r.fault # "none" THEN r.fault
    ELSE IF r.inc # incarnation THEN "StaleIncarnation"
    ELSE CommitCheck(r)

\* The checks in the order of the code; the first that fails decides.
validate_result(r) ==
    IF r.fault \in Foreign THEN r.fault
    ELSE IF r.inc # incarnation THEN "StaleIncarnation"
    ELSE ContentCheck(r)

is_benign_rejection(v) == v \in {"Duplicate", "StaleIncarnation", "StaleLease"}

-----------------------------------------------------------------------------

\* The lease epoch that open() gives the blocks of a new run.
FirstLease == 1

\* make_coordinator_state over the blocks of a new run.
Init ==
    /\ incarnation = 1
    /\ leases = [b \in Blocks |-> FirstLease]
    /\ committed = [b \in Blocks |-> None]
    /\ snapshot = committed
    /\ status = "running"
    /\ pool = {} /\ damaged = 0 /\ heard = {}

Current(b, payload, fault) ==
    [block |-> b, inc |-> incarnation, epoch |-> leases[b], payload |-> payload,
     fault |-> fault]

\* A worker computes a block that is missing from the snapshot.
Compute(b) ==
    /\ status = "running"
    /\ snapshot[b] = None
    /\ pool' = pool \cup {Current(b, Answer, "none")}
    /\ UNCHANGED <<incarnation, leases, committed, snapshot, status, damaged, heard>>

\* A worker computes it wrongly, or its result is damaged on the way.
Misbehave(b) ==
    /\ status = "running"
    /\ snapshot[b] = None
    /\ damaged < MaxDamaged
    /\ damaged' = damaged + 1
    /\ \E p \in Payloads, f \in {"none"} \cup Foreign \cup Broken :
        pool' = pool \cup {Current(b, p, f)}
    /\ UNCHANGED <<incarnation, leases, committed, snapshot, status, heard>>

\* commit_result, after record_result has made the evidence durable.
Commit(r) ==
    /\ committed' = [committed EXCEPT ![r.block] = r.payload]
    /\ UNCHANGED <<snapshot, status>>

\* A terminal rejection: the failed checkpoint names what was received.
Fail ==
    /\ status' = "failed"
    /\ snapshot' = committed
    /\ UNCHANGED committed

\* The consume callback.
Deliver(r) ==
    /\ status = "running"
    /\ LET v == validate_result(r) IN
         \/ is_benign_rejection(v) /\ UNCHANGED <<committed, snapshot, status>>
         \/ v = "Accepted" /\ Commit(r)
         \/ ~is_benign_rejection(v) /\ v # "Accepted" /\ Fail
    /\ heard' = IF r.inc = incarnation /\ r.fault = "none"
                  THEN heard \cup {<<r.block, r.payload>>}
                  ELSE heard
    /\ UNCHANGED <<incarnation, leases, pool, damaged>>

\* A checkpoint names every block received; with all of them it is final.
Checkpoint ==
    /\ status = "running"
    /\ snapshot # committed \/ \A b \in Blocks : committed[b] # None
    /\ snapshot' = committed
    /\ status' = IF \A b \in Blocks : committed[b] # None
                   THEN "complete" ELSE "running"
    /\ UNCHANGED <<incarnation, leases, committed, pool, damaged, heard>>

\* Fault: the committed payloads are not restored.
ForgetCommits == [b \in Blocks |-> None]

\* run_parallel_durable fills committed_payloads from the loaded snapshot.
RestoredCommits == snapshot

\* The process dies and another recovers from the latest manifest.
Restart ==
    /\ status = "running"
    /\ incarnation < MaxIncarnations
    /\ incarnation' = incarnation + 1
    /\ leases' = [b \in Blocks |-> leases[b] + 1]
    /\ committed' = RestoredCommits
    /\ heard' = {}
    /\ UNCHANGED <<snapshot, status, pool, damaged>>

Next ==
    \/ \E b \in Blocks : Compute(b) \/ Misbehave(b)
    \/ \E r \in pool : Deliver(r)
    \/ Checkpoint \/ Restart

Spec == Init /\ [][Next]_vars

-----------------------------------------------------------------------------
(* Correctness *)

\* Every variable keeps its type.
TypeOK ==
    /\ incarnation \in Nat \ {0}
    /\ leases \in [Blocks -> Nat \ {0}]
    /\ committed \in [Blocks -> Payloads \cup {None}]
    /\ snapshot \in [Blocks -> Payloads \cup {None}]
    /\ status \in {"running", "failed", "complete"}
    /\ pool \subseteq Result
    /\ damaged \in 0 .. MaxDamaged
    /\ heard \subseteq Blocks \X Payloads

\* What a terminal rejection may be about: a result that is not of this run, a
\* broken one of this incarnation, or two of this block that disagree.
Cause(r) ==
    \/ r.fault \in Foreign
    \/ r.inc = incarnation /\ r.fault # "none"
    \/ /\ r.inc = incarnation
       /\ \E q \in pool :
            q.block = r.block /\ q.fault = "none" /\ q.payload # r.payload

\* A run fails only for cause.  Duplicates and results of earlier incarnations,
\* even broken ones, never end it: is_benign_rejection's contract.
FailsOnlyForCause == status = "failed" => \E r \in pool : Cause(r)

\* Every payload in the coordinator's table or in the manifest is that of an
\* intact result a worker really delivered for that block.
CommitsSupported ==
    \A b \in Blocks, table \in {committed, snapshot} :
        table[b] # None =>
            \E r \in pool :
                r.block = b /\ r.payload = table[b] /\ r.fault = "none"

\* A coordinator that has been given two different intact payloads for one
\* block has failed the run: nondeterminism is never silently resolved.
OneAnswer ==
    status # "failed" =>
        \A x, y \in heard : x[1] = y[1] => x[2] = y[2]

\* A payload that some manifest names is never replaced, over all restarts and
\* whatever is delivered late.
SnapshotStable ==
    [][\A b \in Blocks : snapshot[b] # None => snapshot'[b] = snapshot[b]]_vars
=============================================================================
