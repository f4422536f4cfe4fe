---------------------------- MODULE CrashMatrix ----------------------------
(***************************************************************************)
(* run_crash_matrix (tools/run_crash_matrix.cpp): for every seed a case is *)
(* made, a child is run into its failure point, the evidence is read, a    *)
(* second child recovers the run directory, and the case is removed.  The  *)
(* first failure stops the matrix and keeps the case.                      *)
(*                                                                         *)
(* A seed stands for any case that make_case can build.  The model, the    *)
(* payoff, queue capacities and block sizes do not influence the hooks,    *)
(* and the topology statistics of long matrices are left out.              *)
(***************************************************************************)
EXTENDS Watchdog

CONSTANTS
    matrix,      \* the one tool
    Iterations,  \* cases to run
    PointSets    \* kFailurePoints, or small parts of it to stand for it

ASSUME MatrixAssumption == Tools = {matrix} /\ Iterations \in Nat \ {0}
ASSUME CasesAssumption == Dirs = 1 .. Iterations /\ Paths = Dirs
ASSUME PointsAssumption == \A ps \in PointSets : ps \subseteq kFailurePoints
ASSUME ApartAssumption == None \notin kFailurePoints \cup Nat

VARIABLES
    points,     \* the failure points that seeds can select
    phase,      \* what the matrix does next
    index,      \* the current case
    case_,      \* its configuration
    present,    \* case directories in the workspace
    covered,    \* failure points seen in evidence
    code,       \* exit code of the matrix, None while it runs
    crashed     \* history: the cases whose child died in its hook, and where

matrixVars == <<points, phase, index, case_, present, covered, code, crashed>>
vars == <<childVars, watchdogVars, matrixVars>>

-----------------------------------------------------------------------------

Smallest(a, b) == IF a <= b THEN a ELSE b

\* Fault: the interval may be as large as the run.
LooseIntervals(n) == 1 .. Smallest(4, n)

\* checkpoint_interval_blocks of make_case.
Intervals(n) == 1 .. Smallest(4, n - 1)

\* make_case and failure_injection_from_seed, over all seeds.
Cases ==
    {c \in [n : 3 .. MaxBlocks, interval : 1 .. MaxBlocks, workers : {1},
            point : points, occurrence : 1 .. 2] : c.interval \in Intervals(c.n)}

Init ==
    /\ ChildInit /\ WatchdogInit
    /\ points \in PointSets
    /\ phase = "next" /\ index = 1 /\ case_ = None
    /\ present = {} /\ covered = {} /\ code = None /\ crashed = {}

Stop(c) == code' = c /\ phase' = "stopped"

MoreCases == index <= Iterations

\* The next seed: its case directory and its injected child.
Inject(c) ==
    /\ phase = "next" /\ MoreCases
    /\ present' = present \cup {index}
    /\ case_' = c
    /\ Fork(matrix, Spawned("inject", c, index, index))
    /\ phase' = "injected"
    /\ UNCHANGED <<store, lock, evidence, synced, litter, errors,
                   points, index, covered, code, crashed>>

\* Fault: the exit code of the injected child is ignored.
AnyExit == wait[matrix] = "exited"

\* The injected child must have died in its hook.
DiedInHook == wait[matrix] = "exited" /\ child[matrix].code = Injected

\* read_replay_descriptor and descriptor_matches_case.
EvidenceMatches ==
    LET d == evidence[index] IN
    /\ d # NoEvidence
    /\ d.workers = 1 /\ d.interval # 0 /\ d.occurrence # 0
    /\ d.n = case_.n /\ d.workers = case_.workers
    /\ d.interval = case_.interval
    /\ d.point = case_.point /\ d.occurrence = case_.occurrence

\* The recovery child opens the same directory without injection.
JudgeInjection ==
    /\ phase = "injected" /\ wait[matrix] \in {"exited", "failed"}
    /\ IF DiedInHook /\ EvidenceMatches
         THEN /\ covered' = covered \cup {evidence[index].point}
              /\ Fork(matrix, Spawned("recover", [case_ EXCEPT !.point = None],
                                      index, index))
              /\ phase' = "recovering"
              /\ crashed' = IF child[matrix].code = Injected
                                THEN crashed \cup {<<index, case_.point>>}
                                ELSE crashed
              /\ UNCHANGED code
         ELSE /\ Stop(1)
              /\ UNCHANGED <<covered, child, wait, late, crashed>>
    /\ UNCHANGED <<store, lock, evidence, synced, litter, errors,
                   points, index, case_, present>>

RemoveCase ==
    /\ present' = present \ {index}
    /\ store' = [store EXCEPT ![index] = EmptyStore]
    /\ evidence' = [evidence EXCEPT ![index] = NoEvidence]

\* A successful case is removed; a failed one is kept.
JudgeRecovery ==
    /\ phase = "recovering" /\ wait[matrix] \in {"exited", "failed"}
    /\ IF wait[matrix] = "exited" /\ child[matrix].code = 0
         THEN /\ RemoveCase
              /\ index' = index + 1 /\ phase' = "next" /\ UNCHANGED code
         ELSE /\ Stop(1)
              /\ UNCHANGED <<present, store, evidence, index>>
    /\ UNCHANGED <<lock, synced, litter, child, errors, watchdogVars,
                   points, case_, covered, crashed>>

\* The coverage gate.
Conclude ==
    /\ phase = "next" /\ ~MoreCases
    /\ Stop(IF covered = points THEN 0 ELSE 3)
    /\ UNCHANGED <<childVars, watchdogVars, points, index, case_, present,
                   covered, crashed>>

MatrixStep ==
    \/ \E c \in Cases : Inject(c)
    \/ JudgeInjection \/ JudgeRecovery \/ Conclude

Supervise == WatchdogStep(matrix) /\ UNCHANGED matrixVars
TimePasses == Expire(matrix) /\ UNCHANGED matrixVars
RunChild == ChildStep(matrix) /\ UNCHANGED <<watchdogVars, matrixVars>>

Next == MatrixStep \/ Supervise \/ TimePasses \/ RunChild

\* The matrix and its clock always move on; a child may hang anywhere.
Fairness ==
    /\ WF_vars(MatrixStep)
    /\ WF_vars(Supervise)
    /\ WF_vars(TimePasses)

Spec == Init /\ [][Next]_vars /\ Fairness

-----------------------------------------------------------------------------

\* make_case builds no schedule that its run would finish without meeting: the
\* selected hook is always reached, the second occurrence included.
InjectionReached == child[matrix].code # Returned

\* A child that exited with code 86 left a descriptor that is complete, fsynced
\* and its own, with no temporary beside it.
EvidenceBeforeDeath ==
    LET r == child[matrix] IN
    (r.code = Injected /\ phase = "injected") =>
        /\ evidence[r.path] = Descriptor(r)
        /\ r.path \in synced
        /\ <<r.path, matrix>> \notin litter

\* Whatever boundary the child died at, recovery completes the run with every
\* block recovered or computed once, and finds it complete afterwards.
RecoveryExact == child[matrix].code # RecoveryFailed

\* Nothing outlives the matrix: its child has been reaped when it returns.
NoChildLeft == code # None => child[matrix].state = "reaped"

\* A matrix that passes has seen a child die at every point.
PassMeansCovered ==
    code = 0 =>
        /\ {v[2] : v \in crashed} = points
        /\ {v[1] : v \in crashed} = Dirs

\* However a child hangs, the matrix returns.
MatrixReturns == <>(code # None)
=============================================================================
