---------------------------- MODULE EngineProofs ----------------------------
(***************************************************************************)
(* Proofs about Engine, for any missing blocks, number of workers and      *)
(* queue capacities, whoever throws.  The inductive invariant is built in  *)
(* three layers: types and what each thread has in hand; where every block *)
(* is; and how a run ends.                                                 *)
(***************************************************************************)
EXTENDS Engine, FiniteSetTheorems, SequenceTheorems, TLAPS

-----------------------------------------------------------------------------
(* The queues *)

\* The constants have the types the code gives them.
LEMMA ConstantTypes ==
  /\ Len(Pending) \in Nat /\ ActualWorkers \in 0 .. Len(Pending)
  /\ Capacity(AssignmentCapacity) \in Nat /\ Capacity(CompletionCapacity) \in Nat
  /\ \A i \in 1 .. Len(Pending) : Pending[i] \in MissingBlocks
<1>1. Len(Pending) \in Nat /\ \A i \in 1 .. Len(Pending) : Pending[i] \in MissingBlocks
  BY PendingAssumption, LenProperties, ElementOfSeq
<1>2. ActualWorkers \in 0 .. Len(Pending)
  BY <1>1, WorkerAssumption DEF ActualWorkers
<1>3. AssignmentCapacity \in Nat /\ CompletionCapacity \in Nat
  BY CapacityAssumption
<1> QED
  BY <1>1, <1>2, <1>3 DEF Capacity

\* push() adds one item at the back.
LEMMA PushedQueue ==
  ASSUME NEW q \in Queue, NEW x \in MissingBlocks
  PROVE  /\ Pushed(q, x) \in Queue
         /\ Pushed(q, x).closed = q.closed
         /\ Len(Pushed(q, x).items) = Len(q.items) + 1
         /\ \A i \in 1 .. Len(q.items) : Pushed(q, x).items[i] = q.items[i]
         /\ Pushed(q, x).items[Len(q.items) + 1] = x
         /\ Items(Pushed(q, x)) = Items(q) \cup {x}
<1>1. q.items \in Seq(MissingBlocks) /\ q.closed \in BOOLEAN /\ Len(q.items) \in Nat
  BY LenProperties DEF Queue
<1>a. Pushed(q, x) = [items |-> Append(q.items, x), closed |-> q.closed]
  BY DEF Pushed, Queue
<1>2. /\ Pushed(q, x).closed = q.closed /\ Pushed(q, x).items = Append(q.items, x)
      /\ Pushed(q, x) = [items |-> Append(q.items, x), closed |-> q.closed]
  BY <1>a
<1>3. /\ Append(q.items, x) \in Seq(MissingBlocks)
      /\ Len(Append(q.items, x)) = Len(q.items) + 1
      /\ \A i \in 1 .. Len(q.items) : Append(q.items, x)[i] = q.items[i]
      /\ Append(q.items, x)[Len(q.items) + 1] = x
  BY <1>1, AppendProperties
<1>4. Pushed(q, x) \in Queue
  BY <1>1, <1>2, <1>3 DEF Queue
<1> HIDE DEF Pushed
<1>5. Items(Pushed(q, x)) = Items(q) \cup {x}
  <2> DEFINE n == Len(q.items)
             new == Pushed(q, x).items
  <2>1. /\ n \in Nat /\ Len(new) = n + 1 /\ new[n + 1] = x
        /\ \A i \in 1 .. n : new[i] = q.items[i]
    BY <1>1, <1>2, <1>3
  <2> HIDE DEF new
  <2>2. {new[i] : i \in 1 .. Len(new)} = {q.items[i] : i \in 1 .. n} \cup {x}
    BY <2>1
  <2> QED
    BY <2>2 DEF Items, new
<1> QED
  BY <1>1, <1>2, <1>3, <1>4, <1>5

\* pop() takes the front item away.
LEMMA PoppedQueue ==
  ASSUME NEW q \in Queue, q.items # << >>
  PROVE  /\ Popped(q) \in Queue
         /\ Popped(q).closed = q.closed
         /\ Len(q.items) \in Nat \ {0}
         /\ Len(Popped(q).items) = Len(q.items) - 1
         /\ \A i \in 1 .. Len(q.items) - 1 : Popped(q).items[i] = q.items[i + 1]
         /\ Head(q.items) = q.items[1] /\ Head(q.items) \in MissingBlocks
         /\ Items(q) = Items(Popped(q)) \cup {Head(q.items)}
<1>1. q.items \in Seq(MissingBlocks) /\ q.closed \in BOOLEAN
      /\ Len(q.items) \in Nat \ {0}
  BY EmptySeq DEF Queue
<1>2. /\ Popped(q).closed = q.closed /\ Popped(q).items = Tail(q.items)
      /\ Popped(q) = [items |-> Tail(q.items), closed |-> q.closed]
  BY DEF Popped, Queue
<1>3. /\ Tail(q.items) \in Seq(MissingBlocks)
      /\ Len(Tail(q.items)) = Len(q.items) - 1
      /\ \A i \in 1 .. Len(q.items) - 1 : Tail(q.items)[i] = q.items[i + 1]
      /\ Head(q.items) \in MissingBlocks
  BY <1>1, HeadTailProperties
<1>4. Popped(q) \in Queue
  BY <1>1, <1>2, <1>3 DEF Queue
<1>5. Head(q.items) = q.items[1]
  BY <1>1
<1>6. Items(q) = Items(Popped(q)) \cup {Head(q.items)}
  <2> DEFINE n == Len(q.items)
             new == Popped(q).items
  <2>1. /\ n \in Nat \ {0} /\ Len(new) = n - 1
        /\ \A i \in 1 .. n - 1 : new[i] = q.items[i + 1]
    BY <1>1, <1>2, <1>3
  <2> HIDE DEF new
  <2>2. \A j \in 1 .. n : j # 1 => new[j - 1] = q.items[j] /\ j - 1 \in 1 .. Len(new)
    BY <2>1
  <2>3. {q.items[i] : i \in 1 .. n} = {new[i] : i \in 1 .. Len(new)} \cup {q.items[1]}
    <3>1. \A i \in 1 .. Len(new) : new[i] = q.items[i + 1] /\ i + 1 \in 1 .. n
      BY <2>1
    <3>2. {new[i] : i \in 1 .. Len(new)} \subseteq {q.items[i] : i \in 1 .. n}
      BY <3>1
    <3>3. {q.items[i] : i \in 1 .. n}
            \subseteq {new[i] : i \in 1 .. Len(new)} \cup {q.items[1]}
      BY <2>2
    <3>4. 1 \in 1 .. n
      BY <2>1
    <3>5. q.items[1] \in {q.items[i] : i \in 1 .. n}
      BY <3>4
    <3> QED
      BY <3>2, <3>3, <3>5
  <2> QED
    BY <1>5, <2>3 DEF Items, new
<1> QED
  BY <1>1, <1>2, <1>3, <1>4, <1>5, <1>6

\* close() keeps the items.
LEMMA ClosedQueue ==
  ASSUME NEW q \in Queue
  PROVE  /\ Closed(q) \in Queue /\ Closed(q).items = q.items /\ Closed(q).closed
         /\ Items(Closed(q)) = Items(q)
BY DEF Closed, Queue, Items

-----------------------------------------------------------------------------
(* First layer: types, and what each thread has in hand *)

\* A worker holds a block exactly while it computes or publishes it, and the
\* calling thread holds a result exactly while it consumes it.
InHand ==
    /\ \A w \in Workers : task[w] # None <=> worker[w] \in {"compute", "push"}
    /\ received # None <=> coordinator = "consume"

\* Workers that have not yet decremented workers_remaining.
Present == {w \in Workers : worker[w] \notin {"closeLast", "done"}}

\* workers_remaining counts them, and one worker only sees it reach zero.
Counted ==
    /\ Cardinality(Present) = remaining
    /\ \A v, w \in Workers : worker[w] = "closeLast" =>
         remaining = 0 /\ (worker[v] = "closeLast" => v = w)

Base == TypeOK /\ InHand /\ Counted

\* There are finitely many workers, all of them present at first.
LEMMA PresentFinite ==
  /\ IsFiniteSet(Workers) /\ Cardinality(Workers) = ActualWorkers
  /\ IsFiniteSet(Present) /\ Cardinality(Present) \in 0 .. ActualWorkers
<1>1. IsFiniteSet(Workers) /\ Cardinality(Workers) = ActualWorkers
  BY ConstantTypes, FS_Interval DEF Workers
<1>2. Present \in SUBSET Workers
  BY DEF Present
<1> QED
  BY <1>1, <1>2, FS_Subset, FS_CardinalityType, ConstantTypes

\* The state before the call satisfies the first layer.
LEMMA BaseInit == Init => Base
<1> SUFFICES ASSUME Init PROVE Base
  OBVIOUS
<1>1. EmptyQueue \in Queue /\ Len(EmptyQueue.items) = 0
  <2>1. << >> \in Seq(MissingBlocks) /\ Len(<< >>) = 0
    BY EmptySeq
  <2> QED
    BY <2>1 DEF EmptyQueue, Queue
<1>2. /\ assignments \in Queue /\ completions \in Queue
      /\ Len(assignments.items) <= Capacity(AssignmentCapacity)
      /\ Len(completions.items) <= Capacity(CompletionCapacity)
  BY <1>1, ConstantTypes DEF Init
<1>3. firstError \in BOOLEAN /\ threw \in BOOLEAN
  BY DEF Init
<1>4. TypeOK
  BY <1>2, <1>3, ConstantTypes DEF Init, TypeOK, Outcome
<1>5. InHand
  BY DEF Init, InHand
<1>6. Counted
  <2>1. Present = Workers
    BY DEF Init, Present
  <2> QED
    BY <2>1, PresentFinite DEF Init, Counted
<1> QED
  BY <1>4, <1>5, <1>6 DEF Base

\* A worker that moves between steps before its decrement changes no count.
LEMMA CountKept ==
  ASSUME Base, remaining' = remaining,
         Present' = Present,
         \A w \in Workers : worker'[w] = "closeLast" => worker[w] = "closeLast"
  PROVE  Counted'
BY DEF Base, Counted

\* Steps of the scheduler.
LEMMA SchedulerBase ==
  ASSUME Base, SchedulerStep \/ SchedulerThrow
  PROVE  Base'
<1>1. UNCHANGED <<worker, task, received, consumed, remaining, slot, coordinator>>
  BY DEF SchedulerStep, SchedulerPush, SchedulerClose, SchedulerCloseCompletions,
         SchedulerThrow
<1>2. InHand' /\ Counted'
  BY <1>1 DEF Base, InHand, Counted, Present
<1>3. TypeOK'
  <2>1. CASE SchedulerPush
    <3>1. CASE assignments.closed
      BY <2>1, <3>1 DEF SchedulerPush, Base, TypeOK
    <3>2. CASE ~assignments.closed
      <4>1. Pending[next] \in MissingBlocks /\ next' \in 1 .. Len(Pending) + 1
        BY <2>1, <3>2, ConstantTypes DEF SchedulerPush, Base, TypeOK
      <4>2. Len(assignments.items) \in Nat
        BY LenProperties DEF Base, TypeOK, Queue
      <4>3. /\ assignments' \in Queue
            /\ Len(assignments'.items) <= Capacity(AssignmentCapacity)
        BY <2>1, <3>2, <4>1, <4>2, PushedQueue, ConstantTypes
           DEF SchedulerPush, CanPush, Base, TypeOK
      <4> QED
        BY <2>1, <3>2, <4>1, <4>3 DEF SchedulerPush, Base, TypeOK
    <3> QED
      BY <3>1, <3>2
  <2>2. CASE SchedulerClose
    BY <2>2, ClosedQueue DEF SchedulerClose, Base, TypeOK
  <2>3. CASE SchedulerCloseCompletions
    BY <2>3, ClosedQueue DEF SchedulerCloseCompletions, Base, TypeOK
  <2>4. CASE SchedulerThrow
    BY <2>4 DEF SchedulerThrow, Base, TypeOK
  <2> QED
    BY <2>1, <2>2, <2>3, <2>4 DEF SchedulerStep
<1> QED
  BY <1>2, <1>3 DEF Base

\* Steps of a worker.
LEMMA WorkerBase ==
  ASSUME Base, NEW w \in Workers, WorkerStep(w) \/ WorkerThrow(w)
  PROVE  Base'
<1> USE DEF Base
<1>1. CASE WorkerStart(w)
  <2>1. TypeOK' /\ InHand'
    BY <1>1 DEF WorkerStart, TypeOK, InHand
  <2>2. Present' = Present
    BY <1>1 DEF WorkerStart, TypeOK, Present
  <2> QED
    BY <1>1, <2>1, <2>2, CountKept DEF WorkerStart, TypeOK
<1>2. CASE WorkerPop(w)
  <2>1. CASE assignments.items = << >>
    <3>1. TypeOK' /\ InHand'
      BY <1>2, <2>1 DEF WorkerPop, TypeOK, InHand
    <3>2. Present' = Present
      BY <1>2, <2>1 DEF WorkerPop, TypeOK, Present
    <3> QED
      BY <1>2, <2>1, <3>1, <3>2, CountKept DEF WorkerPop, TypeOK
  <2>2. CASE assignments.items # << >>
    <3>1. /\ assignments' \in Queue /\ Head(assignments.items) \in MissingBlocks
          /\ Len(assignments'.items) <= Capacity(AssignmentCapacity)
      BY <1>2, <2>2, PoppedQueue, ConstantTypes DEF WorkerPop, TypeOK
    <3>2. TypeOK'
      BY <1>2, <2>2, <3>1 DEF WorkerPop, TypeOK
    <3>3. InHand'
      BY <1>2, <2>2, <3>1, NoBlockAssumption DEF WorkerPop, TypeOK, InHand
    <3>4. Present' = Present
      BY <1>2, <2>2 DEF WorkerPop, TypeOK, Present
    <3> QED
      BY <1>2, <2>2, <3>2, <3>3, <3>4, CountKept DEF WorkerPop, TypeOK
  <2> QED
    BY <2>1, <2>2
<1>3. CASE WorkerCompute(w)
  <2>1. TypeOK' /\ InHand'
    BY <1>3 DEF WorkerCompute, TypeOK, InHand
  <2>2. Present' = Present
    BY <1>3 DEF WorkerCompute, TypeOK, Present
  <2> QED
    BY <1>3, <2>1, <2>2, CountKept DEF WorkerCompute, TypeOK
<1>4. CASE WorkerPush(w)
  <2>1. task[w] \in MissingBlocks
    BY <1>4 DEF WorkerPush, TypeOK, InHand
  <2>2. /\ completions' \in Queue
        /\ Len(completions'.items) <= Capacity(CompletionCapacity)
    <3>1. Len(completions.items) \in Nat
      BY LenProperties DEF TypeOK, Queue
    <3> QED
      BY <1>4, <2>1, <3>1, PushedQueue, ConstantTypes DEF WorkerPush, CanPush, TypeOK
  <2>3. TypeOK' /\ InHand'
    BY <1>4, <2>2 DEF WorkerPush, TypeOK, InHand
  <2>4. Present' = Present
    BY <1>4 DEF WorkerPush, TypeOK, Present
  <2> QED
    BY <1>4, <2>3, <2>4, CountKept DEF WorkerPush, TypeOK
<1>5. CASE WorkerCloseAssignments(w)
  <2>1. TypeOK' /\ InHand'
    BY <1>5, ClosedQueue DEF WorkerCloseAssignments, TypeOK, InHand
  <2>2. Present' = Present
    BY <1>5 DEF WorkerCloseAssignments, TypeOK, Present
  <2> QED
    BY <1>5, <2>1, <2>2, CountKept DEF WorkerCloseAssignments, TypeOK
<1>6. CASE WorkerCloseCompletions(w)
  <2>1. TypeOK' /\ InHand'
    BY <1>6, ClosedQueue DEF WorkerCloseCompletions, TypeOK, InHand
  <2>2. Present' = Present
    BY <1>6 DEF WorkerCloseCompletions, TypeOK, Present
  <2> QED
    BY <1>6, <2>1, <2>2, CountKept DEF WorkerCloseCompletions, TypeOK
<1>7. CASE WorkerLeave(w)
  <2>1. Present' = Present \ {w} /\ w \in Present
    BY <1>7 DEF WorkerLeave, TypeOK, Present
  <2>2. /\ Cardinality(Present) \in 0 .. ActualWorkers
        /\ Cardinality(Present') = Cardinality(Present) - 1
        /\ Cardinality(Present) # 0
    BY <2>1, PresentFinite, FS_RemoveElement, FS_EmptySet
  <2>3. remaining \in 1 .. ActualWorkers /\ remaining' = remaining - 1
    BY <1>7, <2>2, ConstantTypes DEF WorkerLeave, Counted
  <2>4. TypeOK' /\ InHand'
    BY <1>7, <2>3, ConstantTypes DEF WorkerLeave, TypeOK, InHand
  <2>5. Counted'
    <3>1. Cardinality(Present') = remaining'
      BY <2>2, <2>3 DEF Counted
    <3>2. \A v \in Workers : worker[v] # "closeLast"
      BY <2>3, ConstantTypes DEF Counted
    <3> QED
      BY <1>7, <2>3, <3>1, <3>2, ConstantTypes DEF WorkerLeave, LastLeaves, Counted, TypeOK
  <2> QED
    BY <2>4, <2>5
<1>8. CASE WorkerCloseLast(w)
  <2>1. TypeOK' /\ InHand'
    BY <1>8, ClosedQueue DEF WorkerCloseLast, TypeOK, InHand
  <2>2. Present' = Present
    BY <1>8 DEF WorkerCloseLast, TypeOK, Present
  <2> QED
    BY <1>8, <2>1, <2>2, CountKept DEF WorkerCloseLast, TypeOK
<1>9. CASE WorkerThrow(w)
  <2>1. TypeOK' /\ InHand'
    BY <1>9 DEF WorkerThrow, TypeOK, InHand
  <2>2. Present' = Present
    BY <1>9 DEF WorkerThrow, TypeOK, Present
  <2> QED
    BY <1>9, <2>1, <2>2, CountKept DEF WorkerThrow, TypeOK
<1> QED
  BY <1>1, <1>2, <1>3, <1>4, <1>5, <1>6, <1>7, <1>8, <1>9 DEF WorkerStep

\* Steps of the calling thread.
LEMMA CoordinatorBase ==
  ASSUME Base, CoordinatorStep \/ SpawnFails \/ CoordinatorThrow
  PROVE  Base'
<1> USE DEF Base
<1>1. CASE Enter \/ SpawnScheduler \/ SpawnFails \/ AbandonClose \/ AbandonJoin
        \/ CoordinatorThrow \/ CoordinatorCloseAssignments
        \/ CoordinatorCloseCompletions \/ CoordinatorJoin
  <2>1. UNCHANGED <<worker, task, remaining>>
    BY <1>1 DEF Enter, SpawnScheduler, SpawnFails, AbandonClose, AbandonJoin,
       CoordinatorThrow, CoordinatorCloseAssignments, CoordinatorCloseCompletions,
       CoordinatorJoin
  <2>2. Counted'
    BY <2>1 DEF Counted, Present
  <2>3. TypeOK' /\ InHand'
    <3>1. CASE Enter
      BY <3>1 DEF Enter, TypeOK, InHand, Outcome
    <3>2. CASE SpawnScheduler
      BY <3>2 DEF SpawnScheduler, TypeOK, InHand, Outcome
    <3>3. CASE SpawnFails
      BY <3>3, ClosedQueue DEF SpawnFails, TypeOK, InHand, Outcome
    <3>4. CASE AbandonClose
      BY <3>4, ClosedQueue DEF AbandonClose, TypeOK, InHand, Outcome
    <3>5. CASE AbandonJoin
      BY <3>5 DEF AbandonJoin, TypeOK, InHand, Outcome, ClearedSlots
    <3>6. CASE CoordinatorThrow
      BY <3>6 DEF CoordinatorThrow, TypeOK, InHand, Outcome
    <3>7. CASE CoordinatorCloseAssignments
      BY <3>7, ClosedQueue DEF CoordinatorCloseAssignments, TypeOK, InHand, Outcome
    <3>8. CASE CoordinatorCloseCompletions
      BY <3>8, ClosedQueue
         DEF CoordinatorCloseCompletions, CloseCompletions, TypeOK, InHand, Outcome
    <3>9. CASE CoordinatorJoin
      BY <3>9 DEF CoordinatorJoin, TypeOK, InHand, Outcome, ClearedSlots
    <3> QED
      BY <1>1, <3>1, <3>2, <3>3, <3>4, <3>5, <3>6, <3>7, <3>8, <3>9
  <2> QED
    BY <2>2, <2>3
<1>2. CASE SpawnWorker
  <2>1. PICK w \in Unborn : worker' = [worker EXCEPT ![w] = "start"]
    BY <1>2 DEF SpawnWorker
  <2>2. TypeOK' /\ InHand'
    BY <1>2, <2>1 DEF SpawnWorker, Unborn, TypeOK, InHand
  <2>3. Present' = Present
    BY <2>1 DEF Unborn, TypeOK, Present
  <2> QED
    BY <1>2, <2>1, <2>2, <2>3, CountKept DEF SpawnWorker, TypeOK
<1>3. CASE CoordinatorPop
  <2>1. UNCHANGED <<worker, task, remaining>>
    BY <1>3 DEF CoordinatorPop
  <2>2. Counted'
    BY <2>1 DEF Counted, Present
  <2>3. CASE completions.items = << >>
    BY <1>3, <2>2, <2>3 DEF CoordinatorPop, Drained, TypeOK, InHand
  <2>4. CASE completions.items # << >>
    <3>1. /\ completions' \in Queue /\ Head(completions.items) \in MissingBlocks
          /\ Len(completions'.items) <= Capacity(CompletionCapacity)
      BY <1>3, <2>4, PoppedQueue, ConstantTypes DEF CoordinatorPop, Drained, TypeOK
    <3>2. TypeOK'
      BY <1>3, <2>4, <3>1 DEF CoordinatorPop, Drained, TypeOK
    <3>3. InHand'
      BY <1>3, <2>4, <3>1, NoBlockAssumption DEF CoordinatorPop, Drained, InHand
    <3> QED
      BY <2>2, <3>2, <3>3
  <2> QED
    BY <2>3, <2>4
<1>4. CASE CoordinatorConsume
  <2>1. received \in MissingBlocks
    BY <1>4 DEF CoordinatorConsume, TypeOK, InHand
  <2>2. Counted'
    BY <1>4 DEF CoordinatorConsume, Counted, Present
  <2> QED
    BY <1>4, <2>1, <2>2 DEF CoordinatorConsume, TypeOK, InHand
<1> QED
  BY <1>1, <1>2, <1>3, <1>4 DEF CoordinatorStep

\* The first layer is inductive.
LEMMA BaseStep == Base /\ [Next]_vars => Base'
<1> SUFFICES ASSUME Base, [Next]_vars PROVE Base'
  OBVIOUS
<1>1. CASE UNCHANGED vars
  BY <1>1 DEF vars, Base, TypeOK, InHand, Counted, Present
<1> QED
  BY <1>1, SchedulerBase, WorkerBase, CoordinatorBase DEF Next, Throw

\* Neither queue outgrows its capacity, workers_remaining never wraps below
\* zero, and every variable keeps its type.
THEOREM TypeCorrect == Spec => []TypeOK
<1>1. Base => TypeOK
  BY DEF Base
<1> QED
  BY <1>1, BaseInit, BaseStep, PTL DEF Spec

-----------------------------------------------------------------------------
(* Second layer: where every block is *)

\* How many blocks the workers have popped, and which: the assignments hold
\* what lies between them and the scheduler's position.
Given == next - 1 - Len(assignments.items)

Handed == {Pending[i] : i \in 1 .. Given}

Segment ==
    /\ Given >= 0
    /\ \A j \in 1 .. Len(assignments.items) :
         assignments.items[j] = Pending[Given + j]

\* Only a block that was popped is in hand, published, accepted or measured.
HandedOnly ==
    /\ \A w \in Workers : task[w] # None => task[w] \in Handed
    /\ Items(completions) \subseteq Handed
    /\ received # None => received \in Handed
    /\ consumed \subseteq Handed
    /\ \A b \in MissingBlocks : slot[b] # "empty" => b \in Handed

NotReceived == \A w \in Workers : task[w] # None => task[w] # received

Placed == Base /\ Segment /\ HandedOnly /\ ExactlyOnce /\ NotReceived

\* The position of the workers in Pending is a position in Pending.
LEMMA GivenRange ==
  ASSUME Base, Segment
  PROVE  /\ Len(assignments.items) \in Nat /\ Len(completions.items) \in Nat
         /\ Given \in 0 .. Len(Pending) /\ Handed \subseteq MissingBlocks
         /\ Given + Len(assignments.items) = next - 1 /\ next \in Nat
         /\ None \notin Handed
<1>1. /\ Len(assignments.items) \in Nat /\ Len(completions.items) \in Nat
      /\ next \in 1 .. Len(Pending) + 1 /\ Len(Pending) \in Nat
  BY LenProperties, ConstantTypes DEF Base, TypeOK, Queue
<1>2. Given \in 0 .. Len(Pending) /\ Given + Len(assignments.items) = next - 1
  BY <1>1 DEF Given, Segment
<1>3. Handed \subseteq MissingBlocks
  BY <1>1, <1>2, ConstantTypes DEF Handed
<1> QED
  BY <1>1, <1>2, <1>3, NoBlockAssumption

\* Before the call nothing has been handed out.
LEMMA PlacedInit == Init => Placed
<1> SUFFICES ASSUME Init PROVE Placed
  OBVIOUS
<1>1. /\ Len(assignments.items) = 0 /\ Len(completions.items) = 0
      /\ Items(completions) = {} /\ next = 1
  <2>1. assignments.items = << >> /\ completions.items = << >>
    BY DEF Init, EmptyQueue
  <2> QED
    BY <2>1, EmptySeq DEF Init, Items
<1>2. Segment /\ Given = 0
  BY <1>1 DEF Segment, Given
<1>3. HandedOnly /\ NotReceived
  BY <1>1 DEF Init, HandedOnly, NotReceived
<1>4. ExactlyOnce
  BY <1>1 DEF Init, ExactlyOnce
<1> QED
  BY <1>2, <1>3, <1>4, BaseInit DEF Placed

\* A step that only drops what a thread had in hand, or clears a slot.
LEMMA PlacedFrame ==
  ASSUME Placed, Base', next' = next, consumed' = consumed,
         assignments'.items = assignments.items,
         completions'.items = completions.items,
         \A w \in Workers : task'[w] \in {task[w], None},
         received' \in {received, None},
         \A b \in MissingBlocks : slot'[b] \in {slot[b], "empty"}
  PROVE  Placed'
<1>1. Given' = Given /\ Items(completions)' = Items(completions)
  BY DEF Given, Items
<1>2. Handed' = Handed
  BY <1>1 DEF Handed
<1>3. Segment' /\ HandedOnly' /\ NotReceived'
  BY <1>1, <1>2 DEF Placed, Segment, HandedOnly, NotReceived
<1>4. None \notin Items(completions) \cup consumed
  BY GivenRange DEF Placed, HandedOnly
<1>5. ExactlyOnce'
  BY <1>1, <1>4 DEF Placed, ExactlyOnce
<1> QED
  BY <1>3, <1>5 DEF Placed

\* The scheduler's push extends the segment.
LEMMA PushPlaced ==
  ASSUME Placed, SchedulerPush, Base'
  PROVE  Placed'
<1>1. CASE assignments.closed
  BY <1>1, PlacedFrame DEF SchedulerPush
<1>2. CASE ~assignments.closed
  <2> DEFINE n == Len(assignments.items)
  <2>1. /\ n \in Nat /\ Given \in Nat /\ Given + n = next - 1 /\ next \in Nat
        /\ Pending[next] \in MissingBlocks
    BY GivenRange, ConstantTypes DEF Placed, SchedulerPush, Base, TypeOK
  <2>2. /\ Len(assignments'.items) = n + 1 /\ assignments'.items[n + 1] = Pending[next]
        /\ \A j \in 1 .. n : assignments'.items[j] = assignments.items[j]
    BY <1>2, <2>1, PushedQueue DEF SchedulerPush, Placed, Base, TypeOK
  <2>3. next' = next + 1
    BY <1>2 DEF SchedulerPush
  <2>4. Given' = Given
    BY <2>1, <2>2, <2>3 DEF Given
  <2>5. Handed' = Handed
    BY <2>4 DEF Handed
  <2>6. Segment'
    <3> SUFFICES ASSUME NEW j \in 1 .. n + 1
                 PROVE  assignments'.items[j] = Pending[Given + j]
      BY <2>1, <2>2, <2>4 DEF Segment
    <3>1. CASE j = n + 1
      <4>1. Given + j = next
        BY <2>1, <3>1
      <4> QED
        BY <2>2, <3>1, <4>1
    <3>2. CASE j \in 1 .. n
      BY <2>2, <3>2 DEF Placed, Segment
    <3> QED
      BY <2>1, <3>1, <3>2
  <2>7. UNCHANGED <<task, completions, received, consumed, slot>>
    BY DEF SchedulerPush
  <2> QED
    BY <2>5, <2>6, <2>7 DEF Placed, HandedOnly, ExactlyOnce, NotReceived, Items
<1> QED
  BY <1>1, <1>2

\* A pop hands out a block that was nowhere before.
LEMMA PopPlaced ==
  ASSUME Placed, NEW w \in Workers, WorkerPop(w), Base'
  PROVE  Placed'
<1>1. CASE assignments.items = << >>
  BY <1>1, PlacedFrame DEF WorkerPop
<1>2. CASE assignments.items # << >>
  <2> DEFINE n == Len(assignments.items)
             b == Pending[Given + 1]
  <2>1. /\ n \in Nat \ {0} /\ Given \in Nat /\ Given + n = next - 1 /\ next \in Nat
        /\ Given + 1 \in 1 .. Len(Pending) /\ Len(Pending) \in Nat
    BY <1>2, GivenRange, PoppedQueue, ConstantTypes DEF Placed, Base, TypeOK
  <2>2. /\ Len(assignments'.items) = n - 1
        /\ \A j \in 1 .. n - 1 : assignments'.items[j] = assignments.items[j + 1]
        /\ Head(assignments.items) = assignments.items[1]
    BY <1>2, PoppedQueue DEF WorkerPop, Placed, Base, TypeOK
  <2>3. next' = next
    BY DEF WorkerPop
  <2>4. Given' = Given + 1
    BY <2>1, <2>2, <2>3 DEF Given
  <2>5. Head(assignments.items) = b /\ b \in MissingBlocks
    BY <2>1, <2>2, ConstantTypes DEF Placed, Segment
  <2>6. Segment'
    <3> SUFFICES ASSUME NEW j \in 1 .. n - 1
                 PROVE  assignments'.items[j] = Pending[Given + 1 + j]
      BY <2>1, <2>2, <2>4 DEF Segment
    <3>1. j + 1 \in 1 .. n /\ Given + (j + 1) = Given + 1 + j
      BY <2>1
    <3> QED
      BY <2>2, <3>1 DEF Placed, Segment
  <2>7. b \notin Handed /\ Handed' = Handed \cup {b}
    <3>1. \A i \in 1 .. Given : i \in 1 .. Len(Pending) /\ i # Given + 1
      BY <2>1
    <3>2. b \notin Handed
      BY <2>1, <3>1, PendingAssumption DEF Handed
    <3>3. 1 .. Given + 1 = (1 .. Given) \cup {Given + 1}
      BY <2>1
    <3>4. Handed' = Handed \cup {b}
      BY <2>4, <3>3 DEF Handed
    <3> QED
      BY <3>2, <3>4
  <2> HIDE DEF b
  <2>8. /\ task' = [task EXCEPT ![w] = b] /\ task' \in [Workers -> MissingBlocks \cup {None}]
        /\ UNCHANGED <<completions, received, consumed, slot>>
    BY <1>2, <2>5 DEF WorkerPop, Base, TypeOK
  <2>9. HandedOnly'
    BY <2>7, <2>8 DEF Placed, HandedOnly, Items
  <2>10. ExactlyOnce' /\ NotReceived'
    <3>1. task \in [Workers -> MissingBlocks \cup {None}]
      BY DEF Placed, Base, TypeOK
    <3>2. /\ \A v \in Workers : task[v] # b
          /\ b \notin Items(completions) \cup consumed /\ received # b
      BY <2>5, <2>7, NoBlockAssumption DEF Placed, HandedOnly
    <3> QED
      BY <2>8, <3>1, <3>2 DEF Placed, ExactlyOnce, NotReceived, Items
  <2> QED
    BY <2>6, <2>9, <2>10 DEF Placed
<1> QED
  BY <1>1, <1>2

\* Computing a block marks its slot.
LEMMA ComputePlaced ==
  ASSUME Placed, NEW w \in Workers, WorkerCompute(w), Base'
  PROVE  Placed'
<1>1. /\ UNCHANGED <<assignments, completions, next, task, received, consumed>>
      /\ slot' = [slot EXCEPT ![task[w]] = "marker"] /\ worker[w] = "compute"
  BY DEF WorkerCompute
<1>2. task[w] \in Handed
  BY <1>1 DEF Placed, Base, InHand, HandedOnly
<1>3. Given' = Given /\ Handed' = Handed
  BY <1>1 DEF Given, Handed
<1>4. HandedOnly'
  BY <1>1, <1>2, <1>3 DEF Placed, Base, TypeOK, HandedOnly, Items
<1> QED
  BY <1>1, <1>3, <1>4 DEF Placed, Segment, ExactlyOnce, NotReceived, Items

\* Publishing moves a block from a worker's hand to the completions.
LEMMA PublishPlaced ==
  ASSUME Placed, NEW w \in Workers, WorkerPush(w), Base'
  PROVE  Placed'
<1>1. /\ UNCHANGED <<assignments, next, received, consumed, slot>>
      /\ task' = [task EXCEPT ![w] = None] /\ worker[w] = "push"
      /\ task \in [Workers -> MissingBlocks \cup {None}]
  BY DEF WorkerPush, Placed, Base, TypeOK
<1>2. CASE completions.closed
  BY <1>1, <1>2, PlacedFrame DEF WorkerPush
<1>3. CASE ~completions.closed
  <2> DEFINE n == Len(completions.items)
             b == task[w]
  <2>1. b # None /\ b \in MissingBlocks /\ b \in Handed
    BY <1>1 DEF Placed, Base, InHand, HandedOnly
  <2>2. /\ Items(completions)' = Items(completions) \cup {b}
        /\ Len(completions'.items) = n + 1 /\ completions'.items[n + 1] = b
        /\ \A j \in 1 .. n : completions'.items[j] = completions.items[j]
    BY <1>3, <2>1, PushedQueue DEF WorkerPush, Placed, Base, TypeOK
  <2>3. Given' = Given /\ Handed' = Handed
    BY <1>1 DEF Given, Handed
  <2>4. Segment' /\ HandedOnly' /\ NotReceived'
    BY <1>1, <2>1, <2>2, <2>3 DEF Placed, Segment, HandedOnly, NotReceived
  <2>5. n \in Nat /\ None \notin Handed
    BY GivenRange DEF Placed
  <2>6. b \notin Items(completions) \cup consumed /\ received # b
    BY <2>1 DEF Placed, ExactlyOnce, NotReceived
  <2>7. ASSUME NEW i \in 1 .. n + 1, NEW j \in 1 .. n + 1,
               completions'.items[i] = completions'.items[j]
        PROVE  i = j
    <3>1. \A k \in 1 .. n : completions.items[k] \in Items(completions)
      BY DEF Items
    <3>2. \A k \in 1 .. n + 1 : k \in 1 .. n \/ k = n + 1
      BY <2>5
    <3> QED
      BY <2>2, <2>6, <2>7, <3>1, <3>2 DEF Placed, ExactlyOnce
  <2>8. \A u \in Workers : u # w => task[u] # b
    BY <2>1 DEF Placed, ExactlyOnce
  <2>9. None \notin Items(completions)' \cup consumed
    BY <2>1, <2>2, <2>5 DEF Placed, HandedOnly
  <2> HIDE DEF b
  <2>10. \A v, u \in Workers : task'[v] = task'[u] /\ task'[v] # None => v = u
    BY <1>1 DEF Placed, ExactlyOnce
  <2>11. \A u \in Workers : task'[u] \notin Items(completions)' \cup consumed'
    BY <1>1, <2>2, <2>8, <2>9 DEF Placed, ExactlyOnce
  <2>12. /\ Items(completions)' \cap consumed' = {}
         /\ received' \notin Items(completions)' \cup consumed'
    BY <1>1, <2>2, <2>6 DEF Placed, ExactlyOnce
  <2>13. ExactlyOnce'
    BY <2>2, <2>7, <2>10, <2>11, <2>12 DEF ExactlyOnce
  <2> QED
    BY <2>4, <2>13 DEF Placed
<1> QED
  BY <1>2, <1>3

\* The calling thread takes one result.
LEMMA TakePlaced ==
  ASSUME Placed, CoordinatorPop, Base'
  PROVE  Placed'
<1>1. UNCHANGED <<assignments, next, task, consumed, slot>>
  BY DEF CoordinatorPop
<1>2. CASE completions.items = << >>
  BY <1>1, <1>2, PlacedFrame DEF CoordinatorPop, Drained
<1>3. CASE completions.items # << >>
  <2> DEFINE n == Len(completions.items)
             b == Head(completions.items)
  <2>1. /\ Items(completions) = Items(completions)' \cup {b} /\ n \in Nat \ {0}
        /\ b = completions.items[1] /\ b \in MissingBlocks
        /\ Len(completions'.items) = n - 1
        /\ \A j \in 1 .. n - 1 : completions'.items[j] = completions.items[j + 1]
        /\ received' = b
    BY <1>3, PoppedQueue DEF CoordinatorPop, Drained, Placed, Base, TypeOK
  <2>2. Given' = Given /\ Handed' = Handed
    BY <1>1 DEF Given, Handed
  <2> HIDE DEF b
  <2>3. HandedOnly'
    BY <1>1, <2>1, <2>2 DEF Placed, HandedOnly
  <2>4. \A i, j \in 1 .. n - 1 : completions'.items[i] = completions'.items[j] => i = j
    <3>1. \A i \in 1 .. n - 1 : i + 1 \in 1 .. n /\ i \in Int
      BY <2>1
    <3>2. \A i, j \in 1 .. n - 1 :
            completions.items[i + 1] = completions.items[j + 1] => i + 1 = j + 1
      BY <3>1 DEF Placed, ExactlyOnce
    <3> QED
      BY <2>1, <3>1, <3>2
  <2>5. b \notin Items(completions)'
    <3> SUFFICES ASSUME NEW i \in 1 .. n - 1, completions'.items[i] = b
                 PROVE  FALSE
      BY <2>1 DEF Items
    <3>1. i + 1 \in 1 .. n /\ 1 \in 1 .. n /\ i + 1 # 1
      BY <2>1
    <3>2. completions.items[i + 1] = completions.items[1]
      BY <2>1
    <3> QED
      BY <3>1, <3>2 DEF Placed, ExactlyOnce
  <2>6. b \in Items(completions)
    BY <2>1
  <2>7. ExactlyOnce'
    BY <1>1, <2>1, <2>4, <2>5, <2>6 DEF Placed, ExactlyOnce
  <2>8. NotReceived'
    BY <1>1, <2>1, <2>6 DEF Placed, ExactlyOnce, NotReceived
  <2> QED
    BY <1>1, <2>2, <2>3, <2>7, <2>8 DEF Placed, Segment
<1> QED
  BY <1>2, <1>3

\* Consuming moves the result in hand to the accepted ones.
LEMMA ConsumePlaced ==
  ASSUME Placed, CoordinatorConsume, Base'
  PROVE  Placed'
<1>1. /\ UNCHANGED <<assignments, completions, next, task>>
      /\ consumed' = consumed \cup {received} /\ received' = None
      /\ slot' = [slot EXCEPT ![received] = "sample"]
  BY DEF CoordinatorConsume
<1>2. received \in Handed /\ received # None
  BY DEF CoordinatorConsume, Placed, Base, InHand, HandedOnly
<1>3. Given' = Given /\ Handed' = Handed /\ Items(completions)' = Items(completions)
  BY <1>1 DEF Given, Handed, Items
<1>4. HandedOnly'
  BY <1>1, <1>2, <1>3 DEF Placed, Base, TypeOK, HandedOnly
<1>5. None \notin Handed
  BY GivenRange DEF Placed
<1>6. \A w \in Workers : task[w] # received
  BY <1>2 DEF Placed, NotReceived
<1>7. ExactlyOnce'
  BY <1>1, <1>2, <1>3, <1>4, <1>5, <1>6 DEF Placed, ExactlyOnce, HandedOnly
<1> QED
  BY <1>1, <1>3, <1>4, <1>7 DEF Placed, Segment, NotReceived

\* The second layer is inductive.
LEMMA PlacedStep == Placed /\ [Next]_vars => Placed'
<1> SUFFICES ASSUME Placed, [Next]_vars PROVE Placed'
  OBVIOUS
<1>1. Base'
  BY BaseStep DEF Placed
<1>2. /\ assignments \in Queue /\ completions \in Queue
      /\ task \in [Workers -> MissingBlocks \cup {None}]
  BY DEF Placed, Base, TypeOK
<1>3. CASE UNCHANGED vars
  BY <1>1, <1>3, PlacedFrame DEF vars
<1>4. CASE SchedulerStep \/ SchedulerThrow
  BY <1>1, <1>2, <1>4, PushPlaced, PlacedFrame, ClosedQueue
     DEF SchedulerStep, SchedulerClose, SchedulerCloseCompletions, SchedulerThrow
<1>5. ASSUME NEW w \in Workers, WorkerStep(w) \/ WorkerThrow(w) PROVE Placed'
  <2>1. CASE WorkerStart(w) \/ WorkerCloseAssignments(w) \/ WorkerCloseCompletions(w)
          \/ WorkerLeave(w) \/ WorkerCloseLast(w)
    BY <1>1, <1>2, <2>1, PlacedFrame, ClosedQueue
       DEF WorkerStart, WorkerCloseAssignments, WorkerCloseCompletions, WorkerLeave,
           WorkerCloseLast
  <2>2. CASE WorkerThrow(w)
    BY <1>1, <1>2, <2>2, PlacedFrame DEF WorkerThrow
  <2> QED
    BY <1>1, <1>5, <2>1, <2>2, PopPlaced, ComputePlaced, PublishPlaced DEF WorkerStep
<1>6. CASE Enter \/ SpawnWorker \/ SpawnScheduler \/ SpawnFails \/ AbandonClose
        \/ CoordinatorThrow \/ CoordinatorCloseAssignments
        \/ CoordinatorCloseCompletions
  BY <1>1, <1>2, <1>6, PlacedFrame, ClosedQueue
     DEF Enter, SpawnWorker, SpawnScheduler, SpawnFails, AbandonClose,
         CoordinatorThrow, CoordinatorCloseAssignments, CoordinatorCloseCompletions,
         CloseCompletions
<1>7. CASE AbandonJoin \/ CoordinatorJoin
  BY <1>1, <1>2, <1>7, PlacedFrame DEF AbandonJoin, CoordinatorJoin, ClearedSlots
<1> QED
  BY <1>1, <1>3, <1>4, <1>5, <1>6, <1>7, TakePlaced, ConsumePlaced
     DEF Next, Throw, CoordinatorStep

\* No block is assigned twice, held by two workers, or offered to the consumer
\* again after it was accepted.
THEOREM BlocksExactlyOnce == Spec => []ExactlyOnce
<1>1. Placed => ExactlyOnce
  BY DEF Placed
<1> QED
  BY <1>1, PlacedInit, PlacedStep, PTL DEF Spec

-----------------------------------------------------------------------------
(* Third layer: how a run ends *)

BeforeScheduler ==
    {"enter", "spawn", "abandonRun", "abandonSpawn", "joinRun", "joinSpawn"}

Abandoned == {"abandonRun", "abandonSpawn", "joinRun", "joinSpawn", "thrown"}

\* The scheduler exists once the calling thread pops, and pushes nothing before.
Born ==
    /\ coordinator \in BeforeScheduler => scheduler = "unborn"
    /\ scheduler = "unborn" => next = 1

\* At the call and when it has ended, no thread it starts is running.
Ended == coordinator \in Outcome \cup {"enter"} =>
    /\ scheduler \in {"unborn", "done"}
    /\ \A w \in Workers : worker[w] \in {"unborn", "done"}

\* An exception is in first_error, or the calling thread is rethrowing it; and
\* a thread that is in record_error has thrown.
Errors ==
    /\ threw => firstError \/ coordinator \in Abandoned
    /\ coordinator \in {"enter", "returned"} => ~threw
    /\ firstError => threw
    /\ scheduler \in {"closeAssignments", "closeCompletions"} => threw
    /\ coordinator \in {"closeAssignments", "closeCompletions"} \cup Abandoned => threw
    /\ \A w \in Workers :
         worker[w] \in {"closeAssignments", "closeCompletions"} => threw

\* What was accepted has its latency, until an exception clears the slots.
Sampled == coordinator # "thrown" => \A b \in consumed : slot[b] = "sample"

NoMarkerThrown ==
    coordinator = "thrown" => \A b \in MissingBlocks : slot[b] # "marker"

Ending == Placed /\ Born /\ Ended /\ Errors /\ Sampled /\ NoMarkerThrown

\* Before the call no thread exists and nothing is accepted.
LEMMA EndingInit == Init => Ending
BY PlacedInit DEF Init, Ending, Born, Ended, Errors, Sampled, NoMarkerThrown,
   Outcome, BeforeScheduler, Abandoned

\* Steps of the scheduler.
LEMMA SchedulerEnding ==
  ASSUME Ending, SchedulerStep \/ SchedulerThrow, Placed'
  PROVE  Ending'
<1>1. UNCHANGED <<coordinator, worker, consumed, slot>>
  BY DEF SchedulerStep, SchedulerPush, SchedulerClose, SchedulerCloseCompletions,
         SchedulerThrow
<1>2. scheduler \notin {"unborn", "done"} /\ scheduler' # "unborn"
  BY DEF SchedulerStep, SchedulerPush, SchedulerClose, SchedulerCloseCompletions,
         SchedulerThrow
<1>3. coordinator \notin Outcome \cup BeforeScheduler /\ coordinator # "enter"
  BY <1>2 DEF Ending, Ended, Born
<1>4. Errors'
  BY <1>1, <1>3 DEF Ending, Errors, Outcome, SchedulerStep, SchedulerPush,
     SchedulerClose, SchedulerCloseCompletions, SchedulerThrow
<1> QED
  BY <1>1, <1>2, <1>3, <1>4
     DEF Ending, Born, Ended, Sampled, NoMarkerThrown, Outcome

\* Steps of a worker.
LEMMA WorkerEnding ==
  ASSUME Ending, NEW w \in Workers, WorkerStep(w) \/ WorkerThrow(w), Placed'
  PROVE  Ending'
<1> USE DEF WorkerStep, WorkerStart, WorkerPop, WorkerCompute, WorkerPush,
            WorkerCloseAssignments, WorkerCloseCompletions, WorkerLeave,
            WorkerCloseLast, WorkerThrow
<1>1. UNCHANGED <<coordinator, scheduler, next, consumed>>
  OBVIOUS
<1>2. worker[w] \notin {"unborn", "done"}
  OBVIOUS
<1>3. coordinator \notin Outcome \cup {"enter"}
  BY <1>2 DEF Ending, Ended
<1>4. worker \in [Workers -> {"unborn", "start", "pop", "compute", "push",
         "closeAssignments", "closeCompletions", "leave", "closeLast", "done"}]
  BY DEF Ending, Placed, Base, TypeOK
<1>5. Errors'
  <2>1. CASE WorkerThrow(w)
    BY <1>1, <1>3, <1>4, <2>1 DEF Ending, Errors, Outcome
  <2>2. CASE WorkerStep(w)
    <3>1. UNCHANGED <<threw, firstError>>
      BY <2>2
    <3>2. \A v \in Workers :
            worker'[v] \in {"closeAssignments", "closeCompletions"} =>
              worker[v] \in {"closeAssignments", "closeCompletions"}
      BY <1>4, <2>2
    <3> QED
      BY <1>1, <3>1, <3>2 DEF Ending, Errors
  <2> QED
    BY <2>1, <2>2
<1>6. Sampled'
  <2>1. CASE WorkerCompute(w)
    <3>1. task[w] \notin consumed
      BY DEF Ending, Placed, ExactlyOnce
    <3>2. slot \in [MissingBlocks -> {"empty", "marker", "sample"}]
          /\ consumed \subseteq MissingBlocks
      BY DEF Ending, Placed, Base, TypeOK
    <3> QED
      BY <1>1, <2>1, <3>1, <3>2 DEF Ending, Sampled
  <2>2. CASE ~WorkerCompute(w)
    <3>1. slot' = slot
      BY <2>2
    <3> QED
      BY <1>1, <3>1 DEF Ending, Sampled
  <2> QED
    BY <2>1, <2>2
<1>7. Born' /\ Ended' /\ NoMarkerThrown'
  BY <1>1, <1>3 DEF Ending, Born, Ended, NoMarkerThrown, Outcome
<1> QED
  BY <1>5, <1>6, <1>7 DEF Ending

\* If the scheduler was never started, no worker ever marked a slot.
LEMMA NothingMarked ==
  ASSUME Placed, Born, scheduler = "unborn"
  PROVE  \A b \in MissingBlocks : slot[b] = "empty"
<1>1. Given = 0
  BY GivenRange DEF Born, Placed
<1>2. Handed = {}
  BY <1>1 DEF Handed
<1> QED
  BY <1>2 DEF Placed, HandedOnly

\* Steps of the calling thread.
LEMMA CoordinatorEnding ==
  ASSUME Ending, CoordinatorStep \/ SpawnFails \/ CoordinatorThrow, Placed'
  PROVE  Ending'
<1> USE DEF Outcome, BeforeScheduler, Abandoned
<1>1. CASE Enter
  <2>1. Pending = << >> => Workers = {}
    <3> SUFFICES ASSUME Pending = << >> PROVE Workers = {}
      OBVIOUS
    <3>1. Len(Pending) = 0
      BY EmptySeq
    <3> QED
      BY <3>1, ConstantTypes DEF Workers
  <2>2. ~threw
    BY <1>1 DEF Enter, Ending, Errors
  <2> QED
    BY <1>1, <2>1, <2>2
       DEF Enter, Ending, Born, Ended, Errors, Sampled, NoMarkerThrown
<1>2. CASE SpawnWorker
  <2>1. PICK w \in Unborn : worker' = [worker EXCEPT ![w] = "start"]
    BY <1>2 DEF SpawnWorker
  <2> QED
    BY <1>2, <2>1
       DEF SpawnWorker, Ending, Born, Ended, Errors, Sampled, NoMarkerThrown,
           Placed, Base, TypeOK
<1>3. CASE SpawnScheduler
  BY <1>3 DEF SpawnScheduler, Ending, Born, Ended, Errors, Sampled, NoMarkerThrown
<1>4. CASE SpawnFails
  BY <1>4 DEF SpawnFails, Ending, Born, Ended, Errors, Sampled, NoMarkerThrown
<1>5. CASE AbandonClose
  BY <1>5 DEF AbandonClose, Ending, Born, Ended, Errors, Sampled, NoMarkerThrown
<1>6. CASE AbandonJoin
  <2>1. \A b \in MissingBlocks : slot[b] = "empty"
    BY <1>6, NothingMarked DEF AbandonJoin, Ending, Born
  <2>2. NoMarkerThrown'
    BY <1>6, <2>1 DEF AbandonJoin, ClearedSlots, NoMarkerThrown
  <2> QED
    BY <1>6, <2>2 DEF AbandonJoin, Ending, Born, Ended, Errors, Sampled
<1>7. CASE CoordinatorPop
  BY <1>7 DEF CoordinatorPop, Ending, Born, Ended, Errors, Sampled, NoMarkerThrown
<1>8. CASE CoordinatorConsume
  BY <1>8 DEF CoordinatorConsume, Ending, Born, Ended, Errors, Sampled,
     NoMarkerThrown, Placed, Base, TypeOK, InHand
<1>9. CASE CoordinatorThrow
  BY <1>9 DEF CoordinatorThrow, Ending, Born, Ended, Errors, Sampled, NoMarkerThrown
<1>10. CASE CoordinatorCloseAssignments
  BY <1>10 DEF CoordinatorCloseAssignments, Ending, Born, Ended, Errors, Sampled,
     NoMarkerThrown
<1>11. CASE CoordinatorCloseCompletions
  BY <1>11 DEF CoordinatorCloseCompletions, Ending, Born, Ended, Errors, Sampled,
     NoMarkerThrown
<1>12. CASE CoordinatorJoin
  BY <1>12 DEF CoordinatorJoin, ThreadsJoined, ClearedSlots, Ending, Born, Ended,
     Errors, Sampled, NoMarkerThrown
<1> QED
  BY <1>1, <1>2, <1>3, <1>4, <1>5, <1>6, <1>7, <1>8, <1>9, <1>10, <1>11, <1>12
     DEF CoordinatorStep

\* The control part of the third layer is inductive.
LEMMA EndingStep == Ending /\ [Next]_vars => Ending'
<1> SUFFICES ASSUME Ending, [Next]_vars PROVE Ending'
  OBVIOUS
<1>1. Placed'
  BY PlacedStep DEF Ending
<1>2. CASE UNCHANGED vars
  BY <1>1, <1>2 DEF vars, Ending, Born, Ended, Errors, Sampled, NoMarkerThrown
<1> QED
  BY <1>1, <1>2, SchedulerEnding, WorkerEnding, CoordinatorEnding DEF Next, Throw

\* While nobody has thrown: the assignments are closed only after the last
\* push ...
AllPushed ==
    /\ scheduler = "close" => assignments.closed
    /\ assignments.closed => next = Len(Pending) + 1

\* ... a worker leaves only when they are closed and drained ...
Leaving == \A w \in Workers : worker[w] \in {"leave", "closeLast", "done"} =>
    assignments.closed /\ assignments.items = << >>

\* ... the completions are closed only when every worker is gone ...
LastCloses == completions.closed => \A w \in Workers : worker[w] = "done"

\* ... nothing that was handed out is lost ...
Conserved ==
    Handed \subseteq {task[w] : w \in Workers} \cup Items(completions)
                        \cup {received} \cup consumed

\* ... and the calling thread joins or returns only when all of it has arrived.
Arrived ==
    /\ coordinator = "joinAll" => completions.closed /\ completions.items = << >>
    /\ coordinator \notin {"enter", "returned"} => Pending # << >>
    /\ coordinator = "returned" => consumed = MissingBlocks

Clean == AllPushed /\ Leaving /\ LastCloses /\ Conserved /\ Arrived

Inv == Ending /\ (~threw => Clean)

\* Before the call the layer holds: both queues are open.
LEMMA InvInit == Init => Inv
<1> SUFFICES ASSUME Init PROVE Clean
  BY EndingInit DEF Inv
<1>1. Given = 0
  <2>1. assignments.items = << >>
    BY DEF Init, EmptyQueue
  <2>2. Len(assignments.items) = 0
    BY <2>1, EmptySeq
  <2>3. next = 1
    BY DEF Init
  <2> QED
    BY <2>2, <2>3 DEF Given
<1>2. Handed = {}
  BY <1>1 DEF Handed
<1> QED
  BY <1>2 DEF Init, EmptyQueue, Clean, AllPushed, Leaving, LastCloses, Conserved, Arrived

\* Steps of the scheduler while nobody has thrown.
LEMMA SchedulerClean ==
  ASSUME Ending, Clean, ~threw, SchedulerStep
  PROVE  Clean'
<1>1. UNCHANGED <<coordinator, worker, task, received, consumed>>
  BY DEF SchedulerStep, SchedulerPush, SchedulerClose, SchedulerCloseCompletions
<1>2. assignments \in Queue /\ next \in 1 .. Len(Pending) + 1
  BY DEF Ending, Placed, Base, TypeOK
<1>3. CASE SchedulerPush
  <2>1. CASE assignments.closed
    <3>1. UNCHANGED <<assignments, completions, next>>
      BY <1>3, <2>1 DEF SchedulerPush
    <3> QED
      BY <1>1, <2>1, <3>1 DEF Clean, AllPushed, Leaving, LastCloses, Conserved,
         Arrived, Handed, Given, Items
  <2>2. CASE ~assignments.closed
    <3>1. Pending[next] \in MissingBlocks /\ next \in Nat
      BY <1>2, <1>3, ConstantTypes DEF SchedulerPush
    <3>2. /\ Len(assignments'.items) = Len(assignments.items) + 1
          /\ assignments'.closed = assignments.closed /\ next' = next + 1
          /\ completions' = completions /\ scheduler' = scheduler
      BY <1>2, <1>3, <2>2, <3>1, PushedQueue DEF SchedulerPush
    <3>3. Given' = Given
      BY <3>1, <3>2, GivenRange DEF Given, Ending, Placed
    <3>4. Handed' = Handed
      BY <3>3 DEF Handed
    <3> QED
      BY <1>1, <2>2, <3>2, <3>4 DEF Clean, AllPushed, Leaving, LastCloses,
         Conserved, Arrived, Items
  <2> QED
    BY <2>1, <2>2
<1>4. CASE SchedulerClose
  <2>1. scheduler # "closeAssignments"
    BY DEF Ending, Errors
  <2>2. next = Len(Pending) + 1
    BY <1>2, <1>4, <2>1, ConstantTypes DEF SchedulerClose, Clean, AllPushed
  <2>3. /\ assignments'.items = assignments.items /\ assignments'.closed
        /\ completions' = completions /\ next' = next
    BY <1>2, <1>4, ClosedQueue DEF SchedulerClose
  <2>4. Handed' = Handed
    BY <2>3 DEF Handed, Given
  <2> QED
    BY <1>1, <2>2, <2>3, <2>4 DEF Clean, AllPushed, Leaving, LastCloses, Conserved,
       Arrived, Items
<1>5. CASE SchedulerCloseCompletions
  BY <1>5 DEF SchedulerCloseCompletions, Ending, Errors
<1> QED
  BY <1>3, <1>4, <1>5 DEF SchedulerStep

\* Steps of a worker while nobody has thrown.
LEMMA WorkerClean ==
  ASSUME Ending, Clean, ~threw, NEW w \in Workers, WorkerStep(w)
  PROVE  Clean'
<1>1. UNCHANGED <<coordinator, scheduler, next, received, consumed>>
  BY DEF WorkerStep, WorkerStart, WorkerPop, WorkerCompute, WorkerPush,
         WorkerCloseAssignments, WorkerCloseCompletions, WorkerLeave, WorkerCloseLast
<1>2. /\ assignments \in Queue /\ completions \in Queue
      /\ task \in [Workers -> MissingBlocks \cup {None}]
      /\ worker \in [Workers -> {"unborn", "start", "pop", "compute", "push",
           "closeAssignments", "closeCompletions", "leave", "closeLast", "done"}]
  BY DEF Ending, Placed, Base, TypeOK
<1>3. worker[w] \notin {"done", "closeAssignments", "closeCompletions"}
  BY DEF Ending, Errors, WorkerStep, WorkerStart, WorkerPop, WorkerCompute,
     WorkerPush, WorkerCloseAssignments, WorkerCloseCompletions, WorkerLeave,
     WorkerCloseLast
<1>4. ~completions.closed
  BY <1>3 DEF Clean, LastCloses
<1>5. coordinator # "joinAll"
  BY <1>4 DEF Clean, Arrived
<1>6. Arrived'
  BY <1>1, <1>5 DEF Clean, Arrived
<1>7. CASE WorkerStart(w) \/ WorkerCompute(w) \/ WorkerLeave(w)
  <2>1. UNCHANGED <<assignments, completions, task>>
    BY <1>7 DEF WorkerStart, WorkerCompute, WorkerLeave
  <2>2. \A v \in Workers : worker'[v] \in {"leave", "closeLast", "done"} =>
          worker[v] \in {"leave", "closeLast", "done"}
    BY <1>2, <1>7 DEF WorkerStart, WorkerCompute, WorkerLeave
  <2> QED
    BY <1>1, <1>4, <1>6, <2>1, <2>2 DEF Clean, AllPushed, Leaving, LastCloses,
       Conserved, Handed, Given, Items
<1>8. CASE WorkerPop(w)
  <2>1. completions' = completions
    BY <1>8 DEF WorkerPop
  <2>2. CASE assignments.items = << >>
    <3>1. UNCHANGED <<assignments, task>> /\ assignments.closed
      BY <1>8, <2>2 DEF WorkerPop, CanPop
    <3>2. Leaving'
      BY <2>2, <3>1 DEF Leaving
    <3> QED
      BY <1>1, <1>4, <1>6, <2>1, <3>1, <3>2 DEF Clean, AllPushed, LastCloses,
         Conserved, Handed, Given, Items
  <2>3. CASE assignments.items # << >>
    <3> DEFINE b == Head(assignments.items)
    <3>1. /\ Len(assignments'.items) = Len(assignments.items) - 1
          /\ assignments'.closed = assignments.closed
          /\ b = assignments.items[1] /\ Len(assignments.items) \in Nat \ {0}
          /\ task' = [task EXCEPT ![w] = b]
      BY <1>2, <1>8, <2>3, PoppedQueue DEF WorkerPop
    <3>2. Given' = Given + 1 /\ Given \in Nat
      BY <1>1, <3>1, GivenRange DEF Given, Ending, Placed
    <3>3. b = Pending[Given + 1]
      BY <3>1 DEF Ending, Placed, Segment
    <3>4. Handed' \subseteq Handed \cup {b}
      <4>1. 1 .. Given + 1 = (1 .. Given) \cup {Given + 1}
        BY <3>2
      <4> QED
        BY <3>2, <3>3, <4>1 DEF Handed
    <3> HIDE DEF b
    <3>5. task[w] = None /\ None \notin Handed
      BY <1>8, GivenRange DEF WorkerPop, Ending, Placed, Base, InHand
    <3>6. {task[v] : v \in Workers} \cup {b}
            \subseteq {task'[v] : v \in Workers} \cup {None}
      BY <1>2, <3>1, <3>5
    <3>7. Conserved'
      <4>1. Items(completions)' = Items(completions)
        BY <2>1 DEF Items
      <4>2. b # None
        <5>1. Given + 1 \in 1 .. Len(Pending)
          BY <3>1, <3>2, GivenRange, ConstantTypes DEF Ending, Placed, Base, TypeOK
        <5> QED
          BY <3>3, <5>1, ConstantTypes, NoBlockAssumption
      <4> QED
        BY <1>1, <3>4, <3>5, <3>6, <4>1, <4>2 DEF Clean, Conserved
    <3>8. Leaving'
      BY <1>2, <1>8, <2>3, <3>1 DEF WorkerPop, Clean, Leaving
    <3> QED
      BY <1>1, <1>4, <1>6, <2>1, <3>1, <3>7, <3>8 DEF Clean, AllPushed, LastCloses
  <2> QED
    BY <2>2, <2>3
<1>9. CASE WorkerPush(w)
  <2>1. /\ assignments' = assignments /\ task' = [task EXCEPT ![w] = None]
        /\ worker' = [worker EXCEPT ![w] = "pop"]
        /\ completions' = Pushed(completions, task[w]) /\ task[w] \in MissingBlocks
    BY <1>2, <1>4, <1>9 DEF WorkerPush, Ending, Placed, Base, InHand
  <2>2. completions'.closed = completions.closed
        /\ Items(completions)' = Items(completions) \cup {task[w]}
    BY <1>2, <2>1, PushedQueue
  <2>3. {task[v] : v \in Workers} \subseteq {task'[v] : v \in Workers} \cup {task[w]}
    BY <1>2, <2>1
  <2>4. Handed' = Handed
    BY <1>1, <2>1 DEF Handed, Given
  <2>5. Conserved'
    BY <1>1, <2>2, <2>3, <2>4 DEF Clean, Conserved
  <2>6. Leaving'
    BY <1>2, <2>1 DEF Clean, Leaving
  <2> QED
    BY <1>1, <1>4, <1>6, <2>1, <2>2, <2>5, <2>6 DEF Clean, AllPushed, LastCloses
<1>10. CASE WorkerCloseLast(w)
  <2>1. \A v \in Workers : v # w => worker[v] = "done"
    <3>1. Cardinality(Present) = 0
      BY <1>10 DEF WorkerCloseLast, Ending, Placed, Base, Counted
    <3>2. Present = {}
      BY <3>1, PresentFinite, FS_EmptySet
    <3> QED
      BY <1>10, <3>2 DEF WorkerCloseLast, Present, Ending, Placed, Base, Counted
  <2>2. /\ UNCHANGED <<assignments, task>>
        /\ worker' = [worker EXCEPT ![w] = "done"] /\ worker[w] = "closeLast"
    BY <1>10 DEF WorkerCloseLast
  <2>3. LastCloses'
    BY <1>2, <2>1, <2>2 DEF LastCloses
  <2>4. Items(completions)' = Items(completions)
    BY <1>2, <1>10, ClosedQueue DEF WorkerCloseLast
  <2>5. Leaving'
    BY <1>2, <2>2 DEF Clean, Leaving
  <2> QED
    BY <1>1, <1>6, <2>2, <2>3, <2>4, <2>5 DEF Clean, AllPushed, Conserved, Handed, Given
<1> QED
  BY <1>3, <1>7, <1>8, <1>9, <1>10
     DEF WorkerStep, WorkerCloseAssignments, WorkerCloseCompletions

\* After the joins of a run in which nobody threw, every block was accepted.
LEMMA JoinComplete ==
  ASSUME Ending, Clean, ~threw, CoordinatorJoin
  PROVE  consumed = MissingBlocks
<1>1. /\ \A w \in Workers : worker[w] = "done"
      /\ completions.items = << >> /\ Pending # << >> /\ received = None
  BY DEF CoordinatorJoin, ThreadsJoined, Clean, Arrived, Ending, Placed, Base, InHand
<1>2. Items(completions) = {}
  BY <1>1, EmptySeq DEF Items
<1>3. \A w \in Workers : task[w] = None
  BY <1>1 DEF Ending, Placed, Base, InHand
<1>4. Len(Pending) \in Nat \ {0}
  BY <1>1, PendingAssumption, EmptySeq
<1>5. 1 \in Workers
  BY <1>4, WorkerAssumption DEF Workers, ActualWorkers
<1>6. assignments.closed /\ assignments.items = << >> /\ next = Len(Pending) + 1
  BY <1>1, <1>5 DEF Clean, Leaving, AllPushed
<1>7. Given = Len(Pending)
  BY <1>4, <1>6, EmptySeq DEF Given
<1>8. Handed = MissingBlocks
  BY <1>7 DEF Handed, MissingBlocks
<1>9. consumed \subseteq MissingBlocks
  BY DEF Ending, Placed, Base, TypeOK
<1> QED
  BY <1>1, <1>2, <1>3, <1>8, <1>9, NoBlockAssumption DEF Clean, Conserved

\* Steps of the calling thread while nobody has thrown.
LEMMA CoordinatorClean ==
  ASSUME Ending, Clean, ~threw, CoordinatorStep
  PROVE  Clean'
<1>1. UNCHANGED <<assignments, next, task>>
  BY DEF CoordinatorStep, Enter, SpawnWorker, SpawnScheduler, AbandonClose, AbandonJoin,
     CoordinatorPop, CoordinatorConsume, CoordinatorCloseAssignments,
     CoordinatorCloseCompletions, CoordinatorJoin, Ending, Errors
<1>2. Handed' = Handed
  BY <1>1 DEF Handed, Given
<1>3. completions \in Queue
  BY DEF Ending, Placed, Base, TypeOK
<1>4. CASE Enter
  <2>1. Pending = << >> => MissingBlocks = {}
    BY EmptySeq DEF MissingBlocks
  <2>2. consumed \subseteq MissingBlocks
    BY DEF Ending, Placed, Base, TypeOK
  <2>3. Arrived'
    BY <1>4, <2>1, <2>2 DEF Enter, Clean, Arrived
  <2> QED
    BY <1>2, <1>4, <2>3 DEF Enter, Clean, AllPushed, Leaving, LastCloses, Conserved,
       Items
<1>5. CASE SpawnWorker
  <2>1. PICK w \in Unborn : worker' = [worker EXCEPT ![w] = "start"]
    BY <1>5 DEF SpawnWorker
  <2>2. Leaving' /\ LastCloses'
    BY <1>5, <2>1 DEF SpawnWorker, Unborn, Clean, Leaving, LastCloses, Ending, Placed,
       Base, TypeOK
  <2> QED
    BY <1>2, <1>5, <2>2 DEF SpawnWorker, Clean, AllPushed, Conserved, Arrived, Items
<1>6. CASE SpawnScheduler
  BY <1>2, <1>6 DEF SpawnScheduler, Clean, AllPushed, Leaving, LastCloses, Conserved,
     Arrived, Items
<1>7. CASE CoordinatorPop
  <2>1. UNCHANGED <<scheduler, worker, consumed>>
    BY <1>7 DEF CoordinatorPop
  <2>2. CASE completions.items = << >>
    BY <1>1, <1>2, <1>7, <2>1, <2>2 DEF CoordinatorPop, CanPop, Drained, Clean,
       AllPushed, Leaving, LastCloses, Conserved, Arrived, Items
  <2>3. CASE completions.items # << >>
    <3>1. /\ completions'.closed = completions.closed
          /\ Items(completions) = Items(completions)' \cup {received'}
          /\ coordinator' = "consume"
      BY <1>3, <1>7, <2>3, PoppedQueue DEF CoordinatorPop, Drained
    <3>2. received = None /\ None \notin Handed
      BY <1>7, GivenRange DEF CoordinatorPop, Ending, Placed, Base, InHand
    <3>3. Conserved'
      BY <1>1, <1>2, <2>1, <3>1, <3>2 DEF Clean, Conserved
    <3>4. Arrived'
      BY <1>7, <3>1 DEF CoordinatorPop, Clean, Arrived
    <3> QED
      BY <1>1, <2>1, <3>1, <3>3, <3>4 DEF Clean, AllPushed, Leaving, LastCloses
  <2> QED
    BY <2>2, <2>3
<1>8. CASE CoordinatorConsume
  BY <1>1, <1>2, <1>8 DEF CoordinatorConsume, Clean, AllPushed, Leaving, LastCloses,
     Conserved, Arrived, Items
<1>9. CASE CoordinatorJoin
  <2>1. Arrived'
    BY <1>9, JoinComplete DEF CoordinatorJoin, Clean, Arrived
  <2> QED
    BY <1>2, <1>9, <2>1 DEF CoordinatorJoin, Clean, AllPushed, Leaving, LastCloses,
       Conserved, Items
<1>10. CASE AbandonClose \/ AbandonJoin \/ CoordinatorCloseAssignments
         \/ CoordinatorCloseCompletions
  BY <1>10 DEF AbandonClose, AbandonJoin, CoordinatorCloseAssignments,
     CoordinatorCloseCompletions, Ending, Errors, Abandoned
<1> QED
  BY <1>4, <1>5, <1>6, <1>7, <1>8, <1>9, <1>10 DEF CoordinatorStep

\* The whole invariant is inductive: an exception ends the obligation to be
\* clean, and without one every step keeps it.
LEMMA InvStep == Inv /\ [Next]_vars => Inv'
<1> SUFFICES ASSUME Inv, [Next]_vars, ~threw' PROVE Clean'
  BY EndingStep DEF Inv
<1>1. CASE UNCHANGED vars
  BY <1>1 DEF vars, Inv, Clean, AllPushed, Leaving, LastCloses, Conserved, Arrived,
     Handed, Given, Items
<1>2. ~Throw
  BY DEF Throw, SchedulerThrow, SpawnFails, CoordinatorThrow, WorkerThrow
<1>3. Next => ~threw
  BY <1>2 DEF Next, CoordinatorStep, Enter, SpawnWorker, SpawnScheduler, AbandonClose,
     AbandonJoin, CoordinatorPop, CoordinatorConsume, CoordinatorCloseAssignments,
     CoordinatorCloseCompletions, CoordinatorJoin, SchedulerStep, SchedulerPush,
     SchedulerClose, SchedulerCloseCompletions, WorkerStep, WorkerStart, WorkerPop,
     WorkerCompute, WorkerPush, WorkerCloseAssignments, WorkerCloseCompletions,
     WorkerLeave, WorkerCloseLast
<1> QED
  BY <1>1, <1>2, <1>3, SchedulerClean, WorkerClean, CoordinatorClean DEF Next, Inv

\* The invariant holds in every behaviour.
LEMMA InvAlways == Spec => []Inv
BY InvInit, InvStep, PTL DEF Spec

\* execute_missing_blocks returns normally only if every missing block was
\* accepted and no thread threw.
THEOREM ReturnsComplete == Spec => []CleanReturn
<1>1. Inv => CleanReturn
  BY DEF Inv, Ending, Errors, Clean, Arrived, CleanReturn
<1> QED
  BY <1>1, InvAlways, PTL

\* However the call ends, no publication marker remains to be taken for a
\* latency.
THEOREM MarkersCleared == Spec => []NoMarkerExposed
<1>1. Inv => NoMarkerExposed
  BY DEF Inv, Ending, Errors, Sampled, NoMarkerThrown, Clean, Arrived, Outcome,
     NoMarkerExposed
<1> QED
  BY <1>1, InvAlways, PTL
=============================================================================
