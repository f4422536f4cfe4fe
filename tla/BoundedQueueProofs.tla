------------------------- MODULE BoundedQueueProofs -------------------------
(***************************************************************************)
(* Proofs about BoundedQueue, for any finite sets of producers and         *)
(* consumers, any capacity and any number of calls: the queue keeps its    *)
(* bound and its order, and notify_one never leaves a thread asleep that   *)
(* could proceed.                                                          *)
(***************************************************************************)
EXTENDS BoundedQueue, FiniteSetTheorems, SequenceTheorems, TLAPS

\* A producer that may still call push() has calls left: the number of its
\* next item is within the bound.
CallsLeft == \A p \in Producers : thread[p] # "done" => calls[p] < PerProducer

Inv == TypeOK /\ CallsLeft /\ FirstInFirstOut

Item == Producers \X Nat

\* The threads of a group that are inside a call and awake.
Awake(group) == {t \in group : thread[t] = "in"}

\* What notify_one does to the table of threads: t leaves, and if somebody of
\* the group sleeps, one of them wakes.
LEMMA NotifyOneTypes ==
  ASSUME TypeOK, NEW group \in {Producers, Consumers}, NEW t \in Threads,
         NEW next \in {"out", "done"}, NotifyOne(group, t, next)
  PROVE  /\ thread' \in [Threads -> {"out", "in", "waiting", "done"}]
         /\ \A u \in Threads : u # t /\ thread[u] # "done" => thread'[u] # "done"
         /\ thread[t] # "waiting" => thread'[t] = next
<1>1. group \subseteq Threads
  BY DEF Threads
<1> QED
  BY <1>1 DEF TypeOK, NotifyOne, Waiting

\* An item that goes in at the back stays behind what is already there.
LEMMA AppendKeepsOrder ==
  \A s, t \in Seq(Item) : \A x \in Item : Append(s \o t, x) = s \o Append(t, x)
<1> SUFFICES ASSUME NEW s \in Seq(Item), NEW t \in Seq(Item), NEW x \in Item
             PROVE  Append(s \o t, x) = s \o Append(t, x)
  OBVIOUS
<1>1. s \o t \in Seq(Item) /\ <<x>> \in Seq(Item)
  BY ConcatProperties
<1>2. Append(s \o t, x) = (s \o t) \o <<x>> /\ Append(t, x) = t \o <<x>>
  BY <1>1, AppendIsConcat
<1> QED
  BY <1>1, <1>2, ConcatAssociative

\* What leaves at the front goes to the back of what has left before.
LEMMA HeadKeepsOrder ==
  ASSUME NEW S, NEW s \in Seq(S), NEW t \in Seq(S), t # <<>>
  PROVE  s \o t = Append(s, Head(t)) \o Tail(t)
<1>1. Head(t) \in S /\ Tail(t) \in Seq(S) /\ <<Head(t)>> \in Seq(S)
  BY HeadTailProperties
<1>2. Append(s, Head(t)) = s \o <<Head(t)>>
  BY <1>1, AppendIsConcat
<1>3. t = <<Head(t)>> \o Tail(t)
  <2>1. Len(t) \in Nat \ {0}
    BY EmptySeq
  <2>2. <<Head(t)>> \o Tail(t) \in Seq(S)
    BY <1>1, ConcatProperties
  <2>3. Len(<<Head(t)>> \o Tail(t)) = Len(t)
    BY <1>1, <2>1, ConcatProperties, HeadTailProperties
  <2>4. ASSUME NEW i \in 1 .. Len(t)
        PROVE  t[i] = (<<Head(t)>> \o Tail(t))[i]
    BY <1>1, <2>1, ConcatProperties, HeadTailProperties
  <2> QED
    BY <2>2, <2>3, <2>4, SeqEqual
<1> QED
  BY <1>1, <1>2, <1>3, ConcatAssociative

\* An empty queue satisfies the invariant.
LEMMA InvInit == Init => Inv
<1> SUFFICES ASSUME Init PROVE Inv
  OBVIOUS
<1>1. TypeOK
  <2>1. << >> \in Seq(Producers \X Nat) /\ Len(<< >>) = 0
    BY EmptySeq
  <2>2. queue \in Seq(Producers \X Nat) /\ Len(queue) <= QueueCapacity
    BY <2>1, CapacityPositive DEF Init
  <2>3. pushed \in Seq(Producers \X Nat) /\ popped \in Seq(Producers \X Nat)
    BY <2>1 DEF Init
  <2>4. closed \in BOOLEAN /\ thread \in [Threads -> {"out", "in", "waiting", "done"}]
    BY DEF Init
  <2>5. calls \in [Producers -> 0 .. PerProducer]
    BY CallsAssumption DEF Init
  <2> QED
    BY <2>2, <2>3, <2>4, <2>5 DEF TypeOK
<1>2. CallsLeft
  BY CallsAssumption DEF Init, CallsLeft
<1>3. FirstInFirstOut
  <2>1. << >> \in Seq(Item)
    BY EmptySeq
  <2>2. << >> \o << >> = << >>
    BY <2>1, ConcatEmptySeq
  <2> QED
    BY <2>2 DEF Init, FirstInFirstOut
<1> QED
  BY <1>1, <1>2, <1>3 DEF Inv

\* push() on a queue with room adds at the back.
LEMMA PushStep ==
  ASSUME Inv, NEW p \in Producers, Push(p)
  PROVE  Inv'
<1> DEFINE next == IF calls[p] + 1 = PerProducer THEN "done" ELSE "out"
<1>1. p \in Threads /\ thread[p] = "in"
  BY DEF Threads, Push
<1>2. calls[p] \in Nat /\ calls[p] < PerProducer /\ <<p, calls[p]>> \in Item
  BY <1>1, CallsAssumption DEF Inv, TypeOK, CallsLeft, Item
<1>3. queue \in Seq(Item) /\ pushed \in Seq(Item) /\ popped \in Seq(Item)
  BY DEF Inv, TypeOK, Item
<1>4. /\ queue' \in Seq(Item) /\ pushed' \in Seq(Item)
      /\ Len(queue') = Len(queue) + 1
  BY <1>2, <1>3, AppendProperties DEF Push
<1>5. Len(queue') <= QueueCapacity
  BY <1>3, <1>4, CapacityPositive, LenProperties DEF Push, MayPush
<1>6. /\ thread' \in [Threads -> {"out", "in", "waiting", "done"}]
      /\ \A u \in Threads : u # p /\ thread[u] # "done" => thread'[u] # "done"
      /\ thread'[p] = next
  BY <1>1, NotifyOneTypes DEF Push, Inv
<1>7. calls' \in [Producers -> 0 .. PerProducer]
  BY <1>2, CallsAssumption DEF Push, Inv, TypeOK
<1>8. TypeOK'
  BY <1>3, <1>4, <1>5, <1>6, <1>7 DEF Push, Inv, TypeOK, Item
<1>9. CallsLeft'
  <2> SUFFICES ASSUME NEW q \in Producers, thread'[q] # "done"
               PROVE  calls'[q] < PerProducer
    BY DEF CallsLeft
  <2>1. CASE q = p
    BY <1>2, <1>6, <2>1, CallsAssumption DEF Push, Inv, TypeOK
  <2>2. CASE q # p
    <3>1. thread[q] # "done"
      <4> SUFFICES ASSUME thread[q] = "done" PROVE FALSE
        OBVIOUS
      <4>1. thread'[q] = "done"
        BY <2>2 DEF Push, NotifyOne, Waiting, Inv, TypeOK, Threads
      <4> QED
        BY <4>1
    <3> QED
      BY <2>2, <3>1 DEF Push, Inv, TypeOK, CallsLeft
  <2> QED
    BY <2>1, <2>2
<1>10. FirstInFirstOut'
  <2> DEFINE x == <<p, calls[p]>>
  <2>1. /\ pushed' = Append(pushed, x) /\ queue' = Append(queue, x)
        /\ popped' = popped /\ pushed = popped \o queue
    BY DEF Push, Inv, FirstInFirstOut
  <2>2. x \in Item
    BY <1>2
  <2> HIDE DEF x
  <2>3. \A y \in Item : Append(popped \o queue, y) = popped \o Append(queue, y)
    BY <1>3, AppendKeepsOrder
  <2>4. Append(popped \o queue, x) = popped \o Append(queue, x)
    BY <2>2, <2>3
  <2> QED
    BY <2>1, <2>4 DEF FirstInFirstOut
<1> QED
  BY <1>8, <1>9, <1>10 DEF Inv

\* pop() takes from the front.
LEMMA PopStep ==
  ASSUME Inv, NEW c \in Consumers, Pop(c)
  PROVE  Inv'
<1>1. c \in Threads /\ thread[c] = "in" /\ c \notin Producers
  BY ThreadsAssumption DEF Threads, Pop
<1>2. queue \in Seq(Item) /\ pushed \in Seq(Item) /\ popped \in Seq(Item)
  BY DEF Inv, TypeOK, Item
<1>3. /\ Head(queue) \in Item /\ queue' = Tail(queue) /\ queue' \in Seq(Item)
      /\ Len(queue') = Len(queue) - 1 /\ popped' = Append(popped, Head(queue))
  BY <1>2, HeadTailProperties DEF Pop, TakeFront
<1>4. popped' \in Seq(Item)
  BY <1>2, <1>3, AppendProperties
<1>5. Len(queue') <= QueueCapacity
  BY <1>2, <1>3, CapacityPositive, LenProperties DEF Inv, TypeOK
<1>6. /\ thread' \in [Threads -> {"out", "in", "waiting", "done"}]
      /\ \A u \in Threads : u # c /\ thread[u] # "done" => thread'[u] # "done"
  BY <1>1, NotifyOneTypes DEF Pop, Inv
<1>7. TypeOK'
  BY <1>2, <1>3, <1>4, <1>5, <1>6 DEF Pop, Inv, TypeOK, Item
<1>8. CallsLeft'
  <2> SUFFICES ASSUME NEW q \in Producers, thread'[q] # "done"
               PROVE  thread[q] # "done" /\ calls' = calls
    BY DEF CallsLeft, Inv
  <2>1. q # c /\ q \in Threads
    BY <1>1 DEF Threads
  <2> QED
    BY <2>1 DEF Pop, NotifyOne, Waiting, Inv, TypeOK
<1>9. FirstInFirstOut'
  BY <1>2, <1>3, HeadKeepsOrder DEF Pop, Inv, FirstInFirstOut
<1> QED
  BY <1>7, <1>8, <1>9 DEF Inv

\* Every other step only moves threads; one that finishes was refused.
LEMMA ThreadStep ==
  ASSUME Inv, UNCHANGED <<queue, calls, pushed, popped>>,
         closed' \in BOOLEAN,
         thread' \in [Threads -> {"out", "in", "waiting", "done"}],
         \A t \in Threads : thread'[t] # "done" => thread[t] # "done"
  PROVE  Inv'
<1>1. TypeOK' /\ FirstInFirstOut'
  BY DEF Inv, TypeOK, FirstInFirstOut
<1>2. CallsLeft'
  BY DEF Inv, CallsLeft, Threads
<1> QED
  BY <1>1, <1>2 DEF Inv

\* One step per action of Next.
LEMMA InvStep == Inv /\ [Next]_vars => Inv'
<1> SUFFICES ASSUME Inv, [Next]_vars PROVE Inv'
  OBVIOUS
<1>1. ASSUME NEW t \in Threads, Call(t) \/ Wait(t) \/ Refused(t) \/ SpuriousWake(t)
      PROVE  Inv'
  BY <1>1, ThreadStep DEF Call, Wait, Refused, SpuriousWake, Inv, TypeOK
<1>2. ASSUME NEW p \in Producers, Push(p) PROVE Inv'
  BY <1>2, PushStep
<1>3. ASSUME NEW c \in Consumers, Pop(c) PROVE Inv'
  BY <1>3, PopStep
<1>4. CASE Close
  BY <1>4, ThreadStep DEF Close, WakeAll, Waiting, Inv, TypeOK
<1>5. CASE UNCHANGED vars
  BY <1>5, ThreadStep DEF vars, Inv, TypeOK
<1> QED
  BY <1>1, <1>2, <1>3, <1>4, <1>5 DEF Next, Step

\* The deque never exceeds capacity_, whatever the threads do.
THEOREM TypeCorrect == Spec => []TypeOK
<1>1. Inv => TypeOK
  BY DEF Inv
<1> QED
  BY <1>1, InvInit, InvStep, PTL DEF Spec

\* push() and pop() neither lose nor repeat nor reorder an item, before and
\* after close().
THEOREM OrderKept == Spec => []FirstInFirstOut
<1>1. Inv => FirstInFirstOut
  BY DEF Inv
<1> QED
  BY <1>1, InvInit, InvStep, PTL DEF Spec

-----------------------------------------------------------------------------
(* No lost wakeup *)

\* The producers' and the consumers' half of WakeupsSuffice.
SlotsMatched ==
    Waiting(Producers) # {} =>
        QueueCapacity - Len(queue) <= Cardinality(Awake(Producers))

ItemsMatched ==
    Waiting(Consumers) # {} => Len(queue) <= Cardinality(Awake(Consumers))

WakeInv == Inv /\ (~closed => SlotsMatched /\ ItemsMatched)

\* The two halves are WakeupsSuffice.
LEMMA WakeInvSuffices == WakeInv => WakeupsSuffice
BY DEF WakeInv, SlotsMatched, ItemsMatched, WakeupsSuffice, Awake

\* The awake threads of a group can be counted.
LEMMA AwakeFinite ==
  ASSUME NEW group \in {Producers, Consumers}
  PROVE  /\ IsFiniteSet(Awake(group)) /\ Cardinality(Awake(group)) \in Nat
         /\ IsFiniteSet(Awake(group)') /\ Cardinality(Awake(group)') \in Nat
<1>1. Awake(group) \in SUBSET group /\ Awake(group)' \in SUBSET group
  BY DEF Awake
<1> QED
  BY <1>1, ThreadsAssumption, FS_Subset, FS_CardinalityType

\* A thread leaves the monitor by notify_one to the other group: its own group
\* has one awake thread less and no new sleeper; the other group, if anyone in
\* it still sleeps, has one awake thread more.
LEMMA NotifyOneCounts ==
  ASSUME TypeOK, NEW own, NEW other,
         {own, other} = {Producers, Consumers}, own # other,
         NEW t \in own, NEW next \in {"out", "done"},
         thread[t] = "in", NotifyOne(other, t, next)
  PROVE  /\ Waiting(own)' = Waiting(own)
         /\ Cardinality(Awake(own)') = Cardinality(Awake(own)) - 1
         /\ Waiting(other)' # {} =>
              /\ Waiting(other) # {}
              /\ Cardinality(Awake(other)') = Cardinality(Awake(other)) + 1
<1>1. /\ own \in {Producers, Consumers} /\ other \in {Producers, Consumers}
      /\ own \cap other = {} /\ own \subseteq Threads /\ other \subseteq Threads
  BY ThreadsAssumption DEF Threads
<1>2. Waiting(own)' = Waiting(own)
  BY <1>1 DEF TypeOK, NotifyOne, Waiting
<1>3. Awake(own)' = Awake(own) \ {t} /\ t \in Awake(own)
  BY <1>1 DEF TypeOK, NotifyOne, Waiting, Awake
<1>4. Cardinality(Awake(own)') = Cardinality(Awake(own)) - 1
  BY <1>1, <1>3, AwakeFinite, FS_RemoveElement
<1>5. ASSUME Waiting(other)' # {}
      PROVE  /\ Waiting(other) # {}
             /\ Cardinality(Awake(other)') = Cardinality(Awake(other)) + 1
  <2>1. Waiting(other) # {}
    BY <1>1, <1>5 DEF TypeOK, NotifyOne, Waiting
  <2>2. PICK w \in Waiting(other) :
          thread' = [thread EXCEPT ![t] = next, ![w] = "in"]
    BY <2>1 DEF NotifyOne
  <2>3. Awake(other)' = Awake(other) \cup {w} /\ w \notin Awake(other)
    BY <1>1, <2>2 DEF TypeOK, Waiting, Awake
  <2> QED
    BY <1>1, <2>1, <2>3, AwakeFinite, FS_AddElement
<1> QED
  BY <1>2, <1>4, <1>5

\* A step that moves no item and puts nobody to sleep, and takes nobody out of
\* a call, leaves every sleeper matched.
LEMMA MoreAwake ==
  ASSUME WakeInv, UNCHANGED <<queue, closed>>,
         NEW group \in {Producers, Consumers},
         Waiting(group)' \subseteq Waiting(group),
         Awake(group) \subseteq Awake(group)'
  PROVE  Cardinality(Awake(group)) <= Cardinality(Awake(group)')
<1>1. Awake(group) \in SUBSET Awake(group)'
  OBVIOUS
<1> QED
  BY <1>1, AwakeFinite, FS_Subset

\* Moving threads about, without a sleeper more or an awake thread less, keeps
\* both halves.
LEMMA MoveKeeps ==
  ASSUME WakeInv, UNCHANGED <<queue, closed>>,
         \A group \in {Producers, Consumers} :
            /\ Waiting(group)' \subseteq Waiting(group)
            /\ Awake(group) \subseteq Awake(group)'
  PROVE  ~closed' => SlotsMatched' /\ ItemsMatched'
<1> SUFFICES ASSUME ~closed PROVE SlotsMatched' /\ ItemsMatched'
  OBVIOUS
<1>1. Len(queue) \in Nat /\ queue' = queue /\ QueueCapacity \in Nat
  BY CapacityPositive, LenProperties DEF WakeInv, Inv, TypeOK
<1>2. SlotsMatched'
  <2>1. Cardinality(Awake(Producers)) <= Cardinality(Awake(Producers)')
    BY MoreAwake
  <2>2. Waiting(Producers)' # {} => Waiting(Producers) # {}
    OBVIOUS
  <2> QED
    BY <1>1, <2>1, <2>2, AwakeFinite DEF WakeInv, SlotsMatched
<1>3. ItemsMatched'
  <2>1. Cardinality(Awake(Consumers)) <= Cardinality(Awake(Consumers)')
    BY MoreAwake
  <2>2. Waiting(Consumers)' # {} => Waiting(Consumers) # {}
    OBVIOUS
  <2> QED
    BY <1>1, <2>1, <2>2, AwakeFinite DEF WakeInv, ItemsMatched
<1> QED
  BY <1>2, <1>3

\* A thread that goes to sleep has found the queue full or empty: its group
\* has no slot, or no item, to be matched.
LEMMA WaitKeeps ==
  ASSUME WakeInv, NEW t \in Threads, Wait(t)
  PROVE  ~closed' => SlotsMatched' /\ ItemsMatched'
<1> SUFFICES ASSUME ~closed PROVE SlotsMatched' /\ ItemsMatched'
  BY DEF Wait
<1>1. /\ Len(queue) \in Nat /\ queue' = queue /\ QueueCapacity \in Nat
      /\ Len(queue) <= QueueCapacity
  BY CapacityPositive, LenProperties DEF WakeInv, Inv, TypeOK, Wait
<1>2. \A group \in {Producers, Consumers} :
         t \notin group => /\ Waiting(group)' = Waiting(group)
                          /\ Awake(group)' = Awake(group)
  BY DEF Wait, WakeInv, Inv, TypeOK, Waiting, Awake, Threads
<1>3. SlotsMatched'
  <2>1. CASE t \in Producers
    <3>1. Len(queue) >= QueueCapacity
      BY <1>1, <2>1 DEF Wait, MayPush
    <3> QED
      BY <1>1, <3>1, AwakeFinite DEF SlotsMatched
  <2>2. CASE t \notin Producers
    BY <1>1, <1>2, <2>2 DEF WakeInv, SlotsMatched
  <2> QED
    BY <2>1, <2>2
<1>4. ItemsMatched'
  <2>1. CASE t \in Consumers
    <3>1. queue = << >>
      BY <2>1, ThreadsAssumption DEF Wait, MayPop
    <3>2. Len(queue') = 0
      BY <1>1, <3>1, EmptySeq
    <3> QED
      BY <3>2, AwakeFinite DEF ItemsMatched
  <2>2. CASE t \notin Consumers
    BY <1>1, <1>2, <2>2 DEF WakeInv, ItemsMatched
  <2> QED
    BY <2>1, <2>2
<1> QED
  BY <1>3, <1>4

\* push() fills the slot it was matched with and wakes a consumer for its item.
LEMMA PushKeeps ==
  ASSUME WakeInv, NEW p \in Producers, Push(p)
  PROVE  SlotsMatched' /\ ItemsMatched'
<1> DEFINE next == IF calls[p] + 1 = PerProducer THEN "done" ELSE "out"
<1>1. next \in {"out", "done"} /\ thread[p] = "in" /\ NotifyOne(Consumers, p, next)
  BY DEF Push
<1>2. Producers # Consumers
  BY ThreadsAssumption
<1> HIDE DEF next
<1>3. /\ Waiting(Producers)' = Waiting(Producers)
      /\ Cardinality(Awake(Producers)') = Cardinality(Awake(Producers)) - 1
      /\ Waiting(Consumers)' # {} =>
           /\ Waiting(Consumers) # {}
           /\ Cardinality(Awake(Consumers)') = Cardinality(Awake(Consumers)) + 1
  BY <1>1, <1>2, NotifyOneCounts DEF WakeInv, Inv
<1>4. /\ Len(queue) \in Nat /\ QueueCapacity \in Nat
      /\ Len(queue') = Len(queue) + 1
  <2>1. queue \in Seq(Item) /\ <<p, calls[p]>> \in Item
    BY CallsAssumption DEF WakeInv, Inv, TypeOK, Item
  <2> QED
    BY <2>1, CapacityPositive, LenProperties, AppendProperties DEF Push
<1>5. SlotsMatched /\ ItemsMatched
  BY DEF WakeInv, Push
<1> QED
  BY <1>3, <1>4, <1>5, AwakeFinite DEF SlotsMatched, ItemsMatched

\* pop() takes the item it was matched with and wakes a producer for its slot.
LEMMA PopKeeps ==
  ASSUME WakeInv, NEW c \in Consumers, Pop(c)
  PROVE  ~closed' => SlotsMatched' /\ ItemsMatched'
<1> SUFFICES ASSUME ~closed PROVE SlotsMatched' /\ ItemsMatched'
  BY DEF Pop
<1>1. thread[c] = "in" /\ NotifyOne(Producers, c, "out")
  BY DEF Pop
<1>2. Producers # Consumers
  BY ThreadsAssumption
<1>3. /\ Waiting(Consumers)' = Waiting(Consumers)
      /\ Cardinality(Awake(Consumers)') = Cardinality(Awake(Consumers)) - 1
      /\ Waiting(Producers)' # {} =>
           /\ Waiting(Producers) # {}
           /\ Cardinality(Awake(Producers)') = Cardinality(Awake(Producers)) + 1
  BY <1>1, <1>2, NotifyOneCounts DEF WakeInv, Inv
<1>4. /\ Len(queue) \in Nat /\ QueueCapacity \in Nat
      /\ Len(queue') = Len(queue) - 1
  <2>1. queue \in Seq(Item) /\ queue # << >> /\ queue' = Tail(queue)
    BY DEF WakeInv, Inv, TypeOK, Item, Pop, TakeFront
  <2> QED
    BY <2>1, CapacityPositive, LenProperties, HeadTailProperties
<1>5. SlotsMatched /\ ItemsMatched
  BY DEF WakeInv
<1> QED
  BY <1>3, <1>4, <1>5, AwakeFinite DEF SlotsMatched, ItemsMatched

\* One step per action of Next.
LEMMA WakeStep == WakeInv /\ [Next]_vars => WakeInv'
<1> SUFFICES ASSUME WakeInv, [Next]_vars
             PROVE  ~closed' => SlotsMatched' /\ ItemsMatched'
  BY InvStep DEF WakeInv
<1>1. ASSUME NEW t \in Threads, Call(t) \/ SpuriousWake(t)
      PROVE  ~closed' => SlotsMatched' /\ ItemsMatched'
  <2>1. \A group \in {Producers, Consumers} :
          /\ Waiting(group)' \subseteq Waiting(group)
          /\ Awake(group) \subseteq Awake(group)'
    BY <1>1 DEF Call, SpuriousWake, Waiting, Awake, WakeInv, Inv, TypeOK, Threads
  <2> QED
    BY <1>1, <2>1, MoveKeeps DEF Call, SpuriousWake
<1>2. ASSUME NEW t \in Threads, Wait(t)
      PROVE  ~closed' => SlotsMatched' /\ ItemsMatched'
  BY <1>2, WaitKeeps
<1>3. ASSUME NEW t \in Threads, Refused(t)
      PROVE  closed'
  BY <1>3 DEF Refused
<1>4. ASSUME NEW p \in Producers, Push(p)
      PROVE  ~closed' => SlotsMatched' /\ ItemsMatched'
  BY <1>4, PushKeeps
<1>5. ASSUME NEW c \in Consumers, Pop(c)
      PROVE  ~closed' => SlotsMatched' /\ ItemsMatched'
  BY <1>5, PopKeeps
<1>6. CASE Close
  BY <1>6 DEF Close
<1>7. CASE UNCHANGED vars
  BY <1>7 DEF vars, WakeInv, SlotsMatched, ItemsMatched, Waiting, Awake
<1> QED
  BY <1>1, <1>2, <1>3, <1>4, <1>5, <1>6, <1>7 DEF Next, Step

\* notify_one is enough: in an open queue no thread sleeps while there is a
\* slot or an item for it that no awake thread of its group will take.
THEOREM NoLostWakeup == Spec => []WakeupsSuffice
<1>1. Init => WakeInv
  <2> SUFFICES ASSUME Init PROVE SlotsMatched /\ ItemsMatched
    BY InvInit DEF WakeInv
  <2>1. Waiting(Producers) = {} /\ Waiting(Consumers) = {}
    BY DEF Init, Waiting, Threads
  <2> QED
    BY <2>1 DEF SlotsMatched, ItemsMatched
<1> QED
  BY <1>1, WakeStep, WakeInvSuffices, PTL DEF Spec
=============================================================================
