------------------------------- MODULE Engine -------------------------------
(***************************************************************************)
(* execute_missing_blocks (src/runtime/engine.cpp): a scheduler thread     *)
(* feeds block assignments to worker threads through one bounded queue,    *)
(* the workers feed results to the calling thread through another, and the *)
(* calling thread (the coordinator) consumes them one by one.              *)
(*                                                                         *)
(* Any thread may throw: a kernel constructor or a block computation, the  *)
(* consumer callback, or the creation of a thread.  record_error keeps the *)
(* first exception and closes both queues, in three separate steps.        *)
(*                                                                         *)
(* A queue operation is one step, enabled when its wait predicate holds:   *)
(* this is what the monitor of bounded_queue.hpp provides.  A result is    *)
(* its block.  Timing metrics are left out, except the slots of            *)
(* block_commit_ns, which double as publication markers.                   *)
(***************************************************************************)
EXTENDS Naturals, Sequences, FiniteSets

CONSTANTS
    Pending,             \* missing blocks, in scheduling order
    WorkerCount,         \* EngineConfig::worker_count
    AssignmentCapacity,  \* EngineConfig queue capacities; 0 asks for the
    CompletionCapacity,  \*   default of twice the number of workers
    CanThrow,            \* whether threads may throw
    None                 \* no block

MissingBlocks == {Pending[i] : i \in 1 .. Len(Pending)}

ASSUME PendingAssumption ==
    /\ Pending \in Seq(MissingBlocks)
    /\ \A i, j \in 1 .. Len(Pending) : Pending[i] = Pending[j] => i = j
ASSUME WorkerAssumption == WorkerCount \in Nat \ {0}
ASSUME CapacityAssumption == {AssignmentCapacity, CompletionCapacity} \subseteq Nat
ASSUME ThrowAssumption == CanThrow \in BOOLEAN
ASSUME NoBlockAssumption == None \notin MissingBlocks

\* actual_worker_count: no more workers than there are missing blocks.
ActualWorkers ==
    IF WorkerCount <= Len(Pending) THEN WorkerCount ELSE Len(Pending)

Workers == 1 .. ActualWorkers

Capacity(configured) == IF configured = 0 THEN 2 * ActualWorkers ELSE configured

VARIABLES
    assignments,   \* BoundedQueue<ScenarioBlock>: [items, closed]
    completions,   \* BoundedQueue<BlockResult>: [items, closed]
    coordinator,   \* program counter of the calling thread
    scheduler,     \* program counter of the scheduler thread
    worker,        \* program counter of each worker thread
    next,          \* position in Pending of the scheduler's next push
    task,          \* block each worker has in hand
    received,      \* result the coordinator has in hand
    consumed,      \* blocks consume_result has accepted
    remaining,     \* workers_remaining
    firstError,    \* whether first_error holds an exception
    threw,         \* history: whether some thread has thrown
    slot           \* block_commit_ns: "empty", "marker" or "sample"

vars == <<assignments, completions, coordinator, scheduler, worker, next, task,
          received, consumed, remaining, firstError, threw, slot>>

-----------------------------------------------------------------------------
(* BoundedQueue, as its callers see it *)

CanPush(q, configured) == q.closed \/ Len(q.items) < Capacity(configured)
CanPop(q) == q.closed \/ q.items # <<>>

Pushed(q, x) == [q EXCEPT !.items = Append(@, x)]
\* Fault: the front is copied out but not removed.
FrontKept(q) == q

Popped(q) == [q EXCEPT !.items = Tail(@)]
Closed(q) == [q EXCEPT !.closed = TRUE]

EmptyQueue == [items |-> <<>>, closed |-> FALSE]

-----------------------------------------------------------------------------

Init ==
    /\ assignments = EmptyQueue /\ completions = EmptyQueue
    /\ coordinator = "enter"
    /\ scheduler = "unborn"
    /\ worker = [w \in Workers |-> "unborn"]
    /\ next = 1
    /\ task = [w \in Workers |-> None]
    /\ received = None
    /\ consumed = {}
    /\ remaining = ActualWorkers
    /\ firstError = FALSE /\ threw = FALSE
    /\ slot = [b \in MissingBlocks |-> "empty"]

-----------------------------------------------------------------------------
(* The scheduler thread *)

SchedulerPush ==
    /\ scheduler = "push"
    /\ next <= Len(Pending)
    /\ CanPush(assignments, AssignmentCapacity)
    /\ IF assignments.closed
         THEN scheduler' = "close" /\ UNCHANGED <<assignments, next>>
         ELSE /\ assignments' = Pushed(assignments, Pending[next])
              /\ next' = next + 1
              /\ UNCHANGED scheduler
    /\ UNCHANGED <<completions, coordinator, worker, task, received, consumed,
                   remaining, firstError, threw, slot>>

\* push() throws; record_error begins.
SchedulerThrow ==
    /\ CanThrow
    /\ scheduler = "push"
    /\ next <= Len(Pending)
    /\ firstError' = TRUE /\ threw' = TRUE
    /\ scheduler' = "closeAssignments"
    /\ UNCHANGED <<assignments, completions, coordinator, worker, next, task,
                   received, consumed, remaining, slot>>

SchedulerClose ==
    /\ \/ scheduler \in {"close", "closeAssignments"}
       \/ scheduler = "push" /\ next > Len(Pending)
    /\ assignments' = Closed(assignments)
    /\ scheduler' =
         IF scheduler = "closeAssignments" THEN "closeCompletions" ELSE "done"
    /\ UNCHANGED <<completions, coordinator, worker, next, task, received,
                   consumed, remaining, firstError, threw, slot>>

SchedulerCloseCompletions ==
    /\ scheduler = "closeCompletions"
    /\ completions' = Closed(completions)
    /\ scheduler' = "done"
    /\ UNCHANGED <<assignments, coordinator, worker, next, task, received,
                   consumed, remaining, firstError, threw, slot>>

-----------------------------------------------------------------------------
(* A worker thread *)

WorkerPop(w) ==
    /\ worker[w] = "pop"
    /\ CanPop(assignments)
    /\ IF assignments.items = <<>>
         THEN /\ worker' = [worker EXCEPT ![w] = "leave"]
              /\ UNCHANGED <<assignments, task>>
         ELSE /\ task' = [task EXCEPT ![w] = Head(assignments.items)]
              /\ assignments' = Popped(assignments)
              /\ worker' = [worker EXCEPT ![w] = "compute"]
    /\ UNCHANGED <<completions, coordinator, scheduler, next, received, consumed,
                   remaining, firstError, threw, slot>>

\* The block is computed and its slot marked with the publication time.
WorkerCompute(w) ==
    /\ worker[w] = "compute"
    /\ slot' = [slot EXCEPT ![task[w]] = "marker"]
    /\ worker' = [worker EXCEPT ![w] = "push"]
    /\ UNCHANGED <<assignments, completions, coordinator, scheduler, next, task,
                   received, consumed, remaining, firstError, threw>>

WorkerPush(w) ==
    /\ worker[w] = "push"
    /\ CanPush(completions, CompletionCapacity)
    /\ IF completions.closed
         THEN worker' = [worker EXCEPT ![w] = "leave"] /\ UNCHANGED completions
         ELSE /\ completions' = Pushed(completions, task[w])
              /\ worker' = [worker EXCEPT ![w] = "pop"]
    /\ task' = [task EXCEPT ![w] = None]
    /\ UNCHANGED <<assignments, coordinator, scheduler, next, received, consumed,
                   remaining, firstError, threw, slot>>

\* The kernel constructor, compute_block or push() throws; record_error begins.
WorkerThrow(w) ==
    /\ CanThrow
    /\ worker[w] \in {"start", "compute", "push"}
    /\ firstError' = TRUE /\ threw' = TRUE
    /\ worker' = [worker EXCEPT ![w] = "closeAssignments"]
    /\ task' = [task EXCEPT ![w] = None]
    /\ UNCHANGED <<assignments, completions, coordinator, scheduler, next,
                   received, consumed, remaining, slot>>

WorkerStart(w) ==
    /\ worker[w] = "start"
    /\ worker' = [worker EXCEPT ![w] = "pop"]
    /\ UNCHANGED <<assignments, completions, coordinator, scheduler, next, task,
                   received, consumed, remaining, firstError, threw, slot>>

WorkerCloseAssignments(w) ==
    /\ worker[w] = "closeAssignments"
    /\ assignments' = Closed(assignments)
    /\ worker' = [worker EXCEPT ![w] = "closeCompletions"]
    /\ UNCHANGED <<completions, coordinator, scheduler, next, task, received,
                   consumed, remaining, firstError, threw, slot>>

WorkerCloseCompletions(w) ==
    /\ worker[w] = "closeCompletions"
    /\ completions' = Closed(completions)
    /\ worker' = [worker EXCEPT ![w] = "leave"]
    /\ UNCHANGED <<assignments, coordinator, scheduler, next, task, received,
                   consumed, remaining, firstError, threw, slot>>

\* Fault: the first worker to leave, not the last, ends the completions.
FirstLeaves == TRUE

\* workers_remaining.fetch_sub(1) == 1
LastLeaves == remaining = 1

WorkerLeave(w) ==
    /\ worker[w] = "leave"
    /\ remaining' = remaining - 1
    /\ worker' = [worker EXCEPT ![w] = IF LastLeaves THEN "closeLast" ELSE "done"]
    /\ UNCHANGED <<assignments, completions, coordinator, scheduler, next, task,
                   received, consumed, firstError, threw, slot>>

\* The close() after the decrement is a step of its own.
WorkerCloseLast(w) ==
    /\ worker[w] = "closeLast"
    /\ completions' = Closed(completions)
    /\ worker' = [worker EXCEPT ![w] = "done"]
    /\ UNCHANGED <<assignments, coordinator, scheduler, next, task, received,
                   consumed, remaining, firstError, threw, slot>>

-----------------------------------------------------------------------------
(* The calling thread *)

Unborn == {w \in Workers : worker[w] = "unborn"}

\* clear_commit_samples zeroes every slot.
ClearedSlots == [b \in MissingBlocks |-> "empty"]

Enter ==
    /\ coordinator = "enter"
    /\ coordinator' = IF Pending = <<>> THEN "returned" ELSE "spawn"
    /\ UNCHANGED <<assignments, completions, scheduler, worker, next, task,
                   received, consumed, remaining, firstError, threw, slot>>

SpawnWorker ==
    /\ coordinator = "spawn"
    /\ \E w \in Unborn :
        /\ \A v \in Unborn : w <= v
        /\ worker' = [worker EXCEPT ![w] = "start"]
    /\ UNCHANGED <<assignments, completions, coordinator, scheduler, next, task,
                   received, consumed, remaining, firstError, threw, slot>>

SpawnScheduler ==
    /\ coordinator = "spawn"
    /\ Unborn = {}
    /\ scheduler' = "push"
    /\ coordinator' = "pop"
    /\ UNCHANGED <<assignments, completions, worker, next, task, received,
                   consumed, remaining, firstError, threw, slot>>

\* std::thread throws, for a worker or for the scheduler: the calling thread
\* closes the queues, joins the workers it has and rethrows.
SpawnFails ==
    /\ CanThrow
    /\ coordinator = "spawn"
    /\ threw' = TRUE
    /\ coordinator' = IF Unborn = {} THEN "abandonRun" ELSE "abandonSpawn"
    /\ assignments' = Closed(assignments)
    /\ UNCHANGED <<completions, scheduler, worker, next, task, received, consumed,
                   remaining, firstError, slot>>

AbandonClose ==
    /\ coordinator \in {"abandonRun", "abandonSpawn"}
    /\ completions' = Closed(completions)
    /\ coordinator' = IF coordinator = "abandonRun" THEN "joinRun" ELSE "joinSpawn"
    /\ UNCHANGED <<assignments, scheduler, worker, next, task, received, consumed,
                   remaining, firstError, threw, slot>>

\* Only the failure to start a worker clears the samples before it rethrows.
AbandonJoin ==
    /\ coordinator \in {"joinRun", "joinSpawn"}
    /\ \A w \in Workers : worker[w] \in {"unborn", "done"}
    /\ slot' = IF coordinator = "joinSpawn" THEN ClearedSlots ELSE slot
    /\ coordinator' = "thrown"
    /\ UNCHANGED <<assignments, completions, scheduler, worker, next, task,
                   received, consumed, remaining, firstError, threw>>

\* pop() fails only on a queue that is closed and drained.
Drained(q) == q.items = <<>>

CoordinatorPop ==
    /\ coordinator = "pop"
    /\ CanPop(completions)
    /\ IF Drained(completions)
         THEN coordinator' = "joinAll" /\ UNCHANGED <<completions, received>>
         ELSE /\ received' = Head(completions.items)
              /\ completions' = Popped(completions)
              /\ coordinator' = "consume"
    /\ UNCHANGED <<assignments, scheduler, worker, next, task, consumed,
                   remaining, firstError, threw, slot>>

CoordinatorConsume ==
    /\ coordinator = "consume"
    /\ consumed' = consumed \cup {received}
    /\ slot' = [slot EXCEPT ![received] = "sample"]
    /\ received' = None
    /\ coordinator' = "pop"
    /\ UNCHANGED <<assignments, completions, scheduler, worker, next, task,
                   remaining, firstError, threw>>

\* consume_result throws: record_error, then out of the loop.
CoordinatorThrow ==
    /\ CanThrow
    /\ coordinator = "consume"
    /\ firstError' = TRUE /\ threw' = TRUE
    /\ received' = None
    /\ coordinator' = "closeAssignments"
    /\ UNCHANGED <<assignments, completions, scheduler, worker, next, task,
                   consumed, remaining, slot>>

\* Fault: only the assignments are closed after an error.
CompletionsLeftOpen == UNCHANGED completions

CloseCompletions == completions' = Closed(completions)

CoordinatorCloseAssignments ==
    /\ coordinator = "closeAssignments"
    /\ assignments' = Closed(assignments)
    /\ coordinator' = "closeCompletions"
    /\ UNCHANGED <<completions, scheduler, worker, next, task, received, consumed,
                   remaining, firstError, threw, slot>>

CoordinatorCloseCompletions ==
    /\ coordinator = "closeCompletions"
    /\ CloseCompletions
    /\ coordinator' = "joinAll"
    /\ UNCHANGED <<assignments, scheduler, worker, next, task, received, consumed,
                   remaining, firstError, threw, slot>>

ThreadsJoined ==
    /\ scheduler = "done"
    /\ \A w \in Workers : worker[w] = "done"

\* After the joins first_error decides; on error the markers are cleared.
CoordinatorJoin ==
    /\ coordinator = "joinAll"
    /\ ThreadsJoined
    /\ coordinator' = IF firstError THEN "thrown" ELSE "returned"
    /\ slot' = IF firstError THEN ClearedSlots ELSE slot
    /\ UNCHANGED <<assignments, completions, scheduler, worker, next, task,
                   received, consumed, remaining, firstError, threw>>

-----------------------------------------------------------------------------

\* What each thread's own code does ...
SchedulerStep == SchedulerPush \/ SchedulerClose \/ SchedulerCloseCompletions

WorkerStep(w) ==
    \/ WorkerStart(w) \/ WorkerPop(w) \/ WorkerCompute(w) \/ WorkerPush(w)
    \/ WorkerCloseAssignments(w) \/ WorkerCloseCompletions(w)
    \/ WorkerLeave(w) \/ WorkerCloseLast(w)

CoordinatorStep ==
    \/ Enter \/ SpawnWorker \/ SpawnScheduler \/ AbandonClose \/ AbandonJoin
    \/ CoordinatorPop \/ CoordinatorConsume
    \/ CoordinatorCloseAssignments \/ CoordinatorCloseCompletions
    \/ CoordinatorJoin

\* ... and what may happen to it instead.
Throw ==
    \/ SchedulerThrow \/ SpawnFails \/ CoordinatorThrow
    \/ \E w \in Workers : WorkerThrow(w)

Next ==
    \/ CoordinatorStep \/ SchedulerStep \/ (\E w \in Workers : WorkerStep(w))
    \/ Throw

Spec == Init /\ [][Next]_vars

\* Every thread keeps being scheduled; nothing is owed an exception, so a
\* thread stuck in push() cannot count on one to free it.
Fairness ==
    /\ WF_vars(CoordinatorStep)
    /\ WF_vars(SchedulerStep)
    /\ \A w \in Workers : WF_vars(WorkerStep(w))

FairSpec == Spec /\ Fairness

-----------------------------------------------------------------------------
(* Correctness *)

Outcome == {"returned", "thrown"}

Queue == [items : Seq(MissingBlocks), closed : BOOLEAN]

\* Every variable keeps its type, and neither queue outgrows its capacity.
TypeOK ==
    /\ assignments \in Queue /\ completions \in Queue
    /\ Len(assignments.items) <= Capacity(AssignmentCapacity)
    /\ Len(completions.items) <= Capacity(CompletionCapacity)
    /\ coordinator \in Outcome \cup
         {"enter", "spawn", "abandonRun", "abandonSpawn", "joinRun", "joinSpawn",
          "pop", "consume", "closeAssignments", "closeCompletions", "joinAll"}
    /\ scheduler \in {"unborn", "push", "close", "closeAssignments",
                     "closeCompletions", "done"}
    /\ worker \in [Workers ->
         {"unborn", "start", "pop", "compute", "push", "closeAssignments",
          "closeCompletions", "leave", "closeLast", "done"}]
    /\ next \in 1 .. Len(Pending) + 1
    /\ task \in [Workers -> MissingBlocks \cup {None}]
    /\ received \in MissingBlocks \cup {None}
    /\ consumed \subseteq MissingBlocks
    /\ remaining \in 0 .. ActualWorkers
    /\ firstError \in BOOLEAN /\ threw \in BOOLEAN
    /\ slot \in [MissingBlocks -> {"empty", "marker", "sample"}]

Items(q) == {q.items[i] : i \in 1 .. Len(q.items)}

\* A run that returns normally has consumed every missing block, and no thread
\* has thrown: closing the queues never drops a result silently, and no
\* exception is swallowed.
CleanReturn ==
    coordinator = "returned" => consumed = MissingBlocks /\ ~threw

\* No block is in two places at once: assigned twice, computed by two workers,
\* or offered to consume_result again after it was accepted.
ExactlyOnce ==
    /\ \A i, j \in 1 .. Len(completions.items) :
         completions.items[i] = completions.items[j] => i = j
    /\ \A v, w \in Workers : task[v] = task[w] /\ task[v] # None => v = w
    /\ \A w \in Workers : task[w] \notin Items(completions) \cup consumed
    /\ Items(completions) \cap consumed = {}
    /\ received \notin Items(completions) \cup consumed

\* When the call ends, by return or by exception, no publication marker is left
\* in a slot of block_commit_ns to be read as a latency.
NoMarkerExposed ==
    coordinator \in Outcome => \A b \in MissingBlocks : slot[b] # "marker"

\* The call ends, whoever throws and however small the queues are.
Terminates == <>(coordinator \in Outcome)
=============================================================================
