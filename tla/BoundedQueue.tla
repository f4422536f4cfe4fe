---------------------------- MODULE BoundedQueue ----------------------------
(***************************************************************************)
(* The monitor of include/mc/bounded_queue.hpp: one mutex, two condition   *)
(* variables, notify_one after a push or a pop, notify_all on close.       *)
(*                                                                         *)
(* A step is one critical section: a thread that finds its wait predicate  *)
(* false releases the mutex and sleeps on the condition variable, and when *)
(* woken (also spuriously) it competes for the mutex again and re-checks.  *)
(* Between a notification and the re-check other threads may barge in.     *)
(* Module Engine uses this queue as if push and pop were single steps.     *)
(***************************************************************************)
EXTENDS Naturals, Sequences, FiniteSets

CONSTANTS
    Producers, Consumers,
    QueueCapacity,  \* capacity_
    PerProducer     \* bound: calls to push() that each producer makes

ASSUME ThreadsAssumption ==
    /\ IsFiniteSet(Producers) /\ IsFiniteSet(Consumers)
    /\ Producers \cap Consumers = {}
ASSUME CapacityPositive == QueueCapacity \in Nat \ {0}
ASSUME CallsAssumption == PerProducer \in Nat \ {0}

Threads == Producers \cup Consumers

VARIABLES
    queue,    \* queue_
    closed,   \* closed_
    thread,   \* "out" of the monitor, "in" a call, "waiting", or "done"
    calls,    \* pushes each producer has completed
    pushed,   \* history: everything push() accepted, in order
    popped    \* history: everything pop() returned, in order

vars == <<queue, closed, thread, calls, pushed, popped>>

Waiting(group) == {t \in group : thread[t] = "waiting"}

Init ==
    /\ queue = <<>> /\ closed = FALSE
    /\ thread = [t \in Threads |-> "out"]
    /\ calls = [p \in Producers |-> 0]
    /\ pushed = <<>> /\ popped = <<>>

\* The wait predicates of not_full_ and not_empty_.
MayPush == closed \/ Len(queue) < QueueCapacity
MayPop == closed \/ queue # <<>>

\* Fault: nobody is told.
NotifyNobody(group, t, next) == thread' = [thread EXCEPT ![t] = next]

\* t leaves the monitor for "next" and one thread of the group, if any sleeps,
\* is sent back to compete for the mutex.
NotifyOne(group, t, next) ==
    \/ /\ Waiting(group) = {}
       /\ thread' = [thread EXCEPT ![t] = next]
    \/ \E w \in Waiting(group) :
        thread' = [thread EXCEPT ![t] = next, ![w] = "in"]

Call(t) ==
    /\ thread[t] = "out"
    /\ thread' = [thread EXCEPT ![t] = "in"]
    /\ UNCHANGED <<queue, closed, calls, pushed, popped>>

\* wait(): the predicate is false, so release the mutex and sleep.
Wait(t) ==
    /\ thread[t] = "in"
    /\ IF t \in Producers THEN ~MayPush ELSE ~MayPop
    /\ thread' = [thread EXCEPT ![t] = "waiting"]
    /\ UNCHANGED <<queue, closed, calls, pushed, popped>>

\* An item is the producer's name and the number of its call.
Push(p) ==
    /\ thread[p] = "in"
    /\ ~closed /\ MayPush
    /\ queue' = Append(queue, <<p, calls[p]>>)
    /\ pushed' = Append(pushed, <<p, calls[p]>>)
    /\ calls' = [calls EXCEPT ![p] = @ + 1]
    /\ NotifyOne(Consumers, p,
                 IF calls[p] + 1 = PerProducer THEN "done" ELSE "out")
    /\ UNCHANGED <<closed, popped>>

\* Fault: an item is taken from the wrong end of the deque.
TakeBack(s) == [item |-> s[Len(s)], rest |-> SubSeq(s, 1, Len(s) - 1)]

TakeFront(s) == [item |-> Head(s), rest |-> Tail(s)]

Pop(c) ==
    /\ thread[c] = "in"
    /\ queue # <<>>
    /\ queue' = TakeFront(queue).rest
    /\ popped' = Append(popped, TakeFront(queue).item)
    /\ NotifyOne(Producers, c, "out")
    /\ UNCHANGED <<closed, calls, pushed>>

\* push() on a closed queue, and pop() on a closed and drained one, return
\* false, and the callers of this queue make no further call.
Refused(t) ==
    /\ thread[t] = "in"
    /\ closed
    /\ t \in Consumers => queue = <<>>
    /\ thread' = [thread EXCEPT ![t] = "done"]
    /\ UNCHANGED <<queue, closed, calls, pushed, popped>>

\* Fault: close() wakes the consumers only.
WakeConsumers == [t \in Threads |->
    IF t \in Waiting(Consumers) THEN "in" ELSE thread[t]]

WakeAll == [t \in Threads |->
    IF t \in Waiting(Threads) THEN "in" ELSE thread[t]]

Close ==
    /\ ~closed
    /\ closed' = TRUE
    /\ thread' = WakeAll
    /\ UNCHANGED <<queue, calls, pushed, popped>>

SpuriousWake(t) ==
    /\ thread[t] = "waiting"
    /\ thread' = [thread EXCEPT ![t] = "in"]
    /\ UNCHANGED <<queue, closed, calls, pushed, popped>>

Step(t) ==
    \/ Call(t) \/ Wait(t) \/ Refused(t)
    \/ t \in Producers /\ Push(t)
    \/ t \in Consumers /\ Pop(t)

Next == Close \/ \E t \in Threads : Step(t) \/ SpuriousWake(t)

Spec == Init /\ [][Next]_vars

\* Threads that can take the mutex keep running; a sleeping thread is owed
\* nothing but its notification, and nobody need ever close the queue.
Fairness == \A t \in Threads : WF_vars(Step(t))

FairSpec == Spec /\ Fairness

-----------------------------------------------------------------------------

\* Variables keep their types and the deque never exceeds capacity_.
TypeOK ==
    /\ queue \in Seq(Producers \X Nat) /\ Len(queue) <= QueueCapacity
    /\ closed \in BOOLEAN
    /\ thread \in [Threads -> {"out", "in", "waiting", "done"}]
    /\ calls \in [Producers -> 0 .. PerProducer]
    /\ pushed \in Seq(Producers \X Nat) /\ popped \in Seq(Producers \X Nat)

\* Nothing is lost, duplicated or reordered, before or after close(): what
\* went in is what came out followed by what is still queued.
FirstInFirstOut == pushed = popped \o queue

\* No wakeup is lost: while producers sleep, each free slot is matched by a
\* producer that is awake inside push(); while consumers sleep, each queued
\* item is matched by a consumer that is awake inside pop().
WakeupsSuffice ==
    ~closed =>
        /\ Waiting(Producers) # {} =>
             QueueCapacity - Len(queue) <=
                Cardinality({p \in Producers : thread[p] = "in"})
        /\ Waiting(Consumers) # {} =>
             Len(queue) <= Cardinality({c \in Consumers : thread[c] = "in"})

\* Once closed, every call returns, and what was queued is drained first.
CloseReleasesAll ==
    closed ~> [](queue = <<>> /\ \A t \in Threads : thread[t] = "done")

=============================================================================
