------------------------- MODULE PathStreamsProofs -------------------------
(***************************************************************************)
(* For every layout, specification and block size: make_blocks cuts an     *)
(* accepted run without loss or overlap and make_coordinator_state accepts *)
(* the cut; no draw is out of range, no random number is used twice, and   *)
(* observations do not depend on how the run is cut into blocks.           *)
(*                                                                         *)
(* The same arithmetic of cuts carries two more parts that are instances   *)
(* here: the export tool, which walks the counter layout, and the hasher,  *)
(* which cuts a message into blocks as it arrives.                         *)
(***************************************************************************)
EXTENDS RandomStreams, HashedMessage, SequenceTheorems, TLAPS

-----------------------------------------------------------------------------
(* BlockLayout: the cut into blocks *)

\* What the C++ types say of a specification and of a configuration.
Typed(run, cut) ==
    /\ run.total \in Nat /\ run.antithetic \in BOOLEAN
    /\ cut.size \in Nat /\ cut.limit \in Nat

\* Division as the code uses it, with any positive divisor.
LEMMA DivMod ==
    ASSUME NEW a \in Nat, NEW b \in Nat \ {0}
    PROVE  /\ a \div b \in Nat
           /\ a % b \in 0 .. b - 1
           /\ a = b * (a \div b) + (a % b)
BY SMT

\* The numbers whose quotient is q.
LEMMA QuotientRange ==
    ASSUME NEW a \in Nat, NEW b \in Nat \ {0}, NEW q \in Nat
    PROVE  a \div b = q <=> (q * b <= a /\ a < q * b + b)
<1> DEFINE d == a \div b
           r == a % b
<1>1. d \in Nat /\ r \in 0 .. b - 1 /\ a = b * d + r
    BY DivMod
<1> HIDE DEF d, r
<1>2. ASSUME d = q
      PROVE  q * b <= a /\ a < q * b + b
    BY <1>1, <1>2, SMT
<1>3. ASSUME q * b <= a, a < q * b + b
      PROVE  d = q
    <2>1. CASE d < q
        <3>1. b * (d + 1) <= b * q
            BY <1>1, <2>1, SMT
        <3>2. b * (d + 1) = b * d + b /\ b * q = q * b
            BY <1>1, SMT
        <3> QED BY <1>1, <1>3, <3>1, <3>2, SMT
    <2>2. CASE q < d
        <3>1. b * (q + 1) <= b * d
            BY <1>1, <2>2, SMT
        <3>2. b * (q + 1) = q * b + b
            BY SMT
        <3> QED BY <1>1, <1>3, <3>1, <3>2, SMT
    <2> QED BY <1>1, <2>1, <2>2, SMT
<1> QED BY <1>2, <1>3 DEF d

\* The block count, and where the last block begins.
LEMMA BlockCount ==
    ASSUME NEW run, NEW cut, Typed(run, cut), Admissible(run, cut)
    PROVE  /\ block_count(run, cut) \in Nat \ {0}
           /\ (block_count(run, cut) - 1) * cut.size < run.total
           /\ run.total <= (block_count(run, cut) - 1) * cut.size + cut.size
<1> DEFINE last == (run.total - 1) \div cut.size
<1>1. run.total - 1 \in Nat /\ cut.size \in Nat \ {0}
    BY DEF Typed, Admissible, Spec_validate, Config_validate
<1>2. last \in Nat
    BY <1>1, DivMod
<1>3. last * cut.size <= run.total - 1 /\ run.total - 1 < last * cut.size + cut.size
    BY <1>1, <1>2, QuotientRange
<1>4. block_count(run, cut) = 1 + last
    BY DEF block_count
<1>5. run.total \in Nat
    BY DEF Typed
<1> HIDE DEF last
<1>6. block_count(run, cut) - 1 = last
    BY <1>2, <1>4, SMT
<1>7. block_count(run, cut) \in Nat \ {0}
    BY <1>2, <1>4, SMT
<1>8. last * cut.size < run.total /\ run.total <= last * cut.size + cut.size
    BY <1>1, <1>2, <1>3, <1>5, SMT
<1> QED BY <1>6, <1>7, <1>8

\* The arithmetic of make_blocks never wraps around.
LEMMA BlockRange ==
    ASSUME NEW run, NEW cut, Typed(run, cut), Admissible(run, cut),
           NEW id \in 0 .. block_count(run, cut) - 1
    PROVE  /\ block_range(run, cut, id).start = id * cut.size
           /\ block_range(run, cut, id).end
                = id * cut.size + Smaller(cut.size, run.total - id * cut.size)
           /\ id * cut.size \in Nat /\ id * cut.size < run.total
           /\ block_range(run, cut, id).run_incarnation = 0
           /\ block_range(run, cut, id).lease_epoch = 1
<1> DEFINE n == block_count(run, cut)
           start == id * cut.size
<1>1. /\ n \in Nat \ {0} /\ (n - 1) * cut.size < run.total
      /\ id \in Nat /\ id <= n - 1
    BY BlockCount, SMT
<1>2. /\ run.total \in Nat /\ run.total < Word /\ cut.size \in Nat \ {0}
      /\ Word \in Nat
    BY WordAssumption, ScenariosAssumption
       DEF Typed, Admissible, Spec_validate, Config_validate
<1> HIDE DEF n
<1>3. start \in Nat /\ start <= (n - 1) * cut.size
    BY <1>1, <1>2, SMT
<1>4. start < run.total
    BY <1>1, <1>2, <1>3, SMT
<1> HIDE DEF start
<1>5. start % Word = start /\ (run.total - start) % Word = run.total - start
    BY <1>2, <1>3, <1>4, SMT
<1>6. /\ start + Smaller(cut.size, run.total - start) \in Nat
      /\ start + Smaller(cut.size, run.total - start) < Word
    BY <1>2, <1>3, <1>4, SMT DEF Smaller
<1>7. (start + Smaller(cut.size, run.total - start)) % Word
        = start + Smaller(cut.size, run.total - start)
    BY <1>2, <1>6, SMT
<1>8. block_range(run, cut, id)
        = [start |-> start, end |-> start + Smaller(cut.size, run.total - start),
           run_incarnation |-> 0, lease_epoch |-> 1]
    BY <1>5, <1>7 DEF block_range, start
<1> QED BY <1>3, <1>4, <1>8 DEF start

\* Every accepted run is cut into blocks that hold every scenario once, each
\* in the block that its number divided by block_size names (make_blocks).
THEOREM MakeBlocksPartitions ==
    ASSUME NEW run, NEW cut, Typed(run, cut), Admissible(run, cut)
    PROVE  Partitions(run, cut, make_blocks(run, cut))
<1> DEFINE n == block_count(run, cut)
           blocks == make_blocks(run, cut)
<1>1. /\ n \in Nat \ {0} /\ (n - 1) * cut.size < run.total
      /\ run.total <= (n - 1) * cut.size + cut.size
    BY BlockCount
<1>2. run.total \in Nat /\ cut.size \in Nat \ {0}
    BY DEF Typed, Admissible, Config_validate
<1>3. /\ DOMAIN blocks = 0 .. n - 1
      /\ \A id \in 0 .. n - 1 : blocks[id] = block_range(run, cut, id)
    BY DEF make_blocks
<1>4. \A id \in 0 .. n - 1 :
        /\ blocks[id].start = id * cut.size
        /\ blocks[id].end
            = id * cut.size + Smaller(cut.size, run.total - id * cut.size)
        /\ id * cut.size \in Nat /\ id * cut.size < run.total
    BY <1>3, BlockRange
<1> HIDE DEF n, blocks
<1>5. ASSUME NEW id \in DOMAIN blocks
      PROVE  blocks[id].start < blocks[id].end /\ blocks[id].end <= run.total
    BY <1>2, <1>3, <1>4, SMT DEF Smaller
<1>6. ASSUME NEW s \in 0 .. run.total - 1, NEW id \in DOMAIN blocks
      PROVE  (blocks[id].start <= s /\ s < blocks[id].end) <=> id = s \div cut.size
    <2>1. id \in Nat /\ s \in Nat /\ s < run.total
        BY <1>1, <1>2, <1>3, SMT
    <2>2. s \div cut.size = id <=>
            (id * cut.size <= s /\ s < id * cut.size + cut.size)
        BY <1>2, <2>1, QuotientRange
    <2>3. /\ blocks[id].start = id * cut.size
          /\ blocks[id].end
                = id * cut.size + Smaller(cut.size, run.total - id * cut.size)
          /\ id * cut.size \in Nat
        BY <1>3, <1>4
    <2> QED BY <1>2, <2>1, <2>2, <2>3, SMT DEF Smaller
<1>7. ASSUME NEW s \in 0 .. run.total - 1
      PROVE  s \div cut.size \in DOMAIN blocks
    <2> DEFINE q == s \div cut.size
    <2>1. q \in Nat /\ s \in Nat
        BY <1>2, DivMod, SMT
    <2>2. q * cut.size <= s
        BY <1>2, <2>1, QuotientRange
    <2> HIDE DEF q
    <2>3. CASE q <= n - 1
        BY <1>1, <1>3, <2>1, <2>3, SMT DEF q
    <2>4. CASE n <= q
        <3>1. n * cut.size <= q * cut.size
            BY <1>1, <1>2, <2>1, <2>4, SMT
        <3>2. n * cut.size = (n - 1) * cut.size + cut.size
            BY <1>1, <1>2, SMT
        <3> QED BY <1>1, <1>2, <2>1, <2>2, <3>1, <3>2, SMT
    <2> QED BY <1>1, <2>1, <2>3, <2>4, SMT
<1> QED BY <1>5, <1>6, <1>7 DEF Partitions, blocks

\* The contiguity, size, lease and parity checks of make_coordinator_state accept
\* what make_blocks made.
THEOREM CoordinatorAcceptsBlocks ==
    ASSUME NEW run, NEW cut, Typed(run, cut), Admissible(run, cut)
    PROVE  CoordinatorAccepts(run, cut, make_blocks(run, cut))
<1> DEFINE n == block_count(run, cut)
           blocks == make_blocks(run, cut)
           size == cut.size
<1>1. /\ n \in Nat \ {0} /\ (n - 1) * size < run.total
      /\ run.total <= (n - 1) * size + size
    BY BlockCount
<1>2. /\ run.total \in Nat /\ size \in Nat \ {0}
      /\ run.antithetic => run.total % 2 = 0 /\ size % 2 = 0
    BY DEF Typed, Admissible, Spec_validate, Config_validate
<1>3. /\ DOMAIN blocks = 0 .. n - 1
      /\ \A id \in 0 .. n - 1 : blocks[id] = block_range(run, cut, id)
    BY DEF make_blocks
<1>4. \A id \in 0 .. n - 1 :
        /\ blocks[id].start = id * size
        /\ blocks[id].end = id * size + Smaller(size, run.total - id * size)
        /\ id * size \in Nat /\ id * size < run.total
        /\ blocks[id].run_incarnation = 0 /\ blocks[id].lease_epoch = 1
    BY <1>3, BlockRange
<1> HIDE DEF n, blocks, size
<1>5. ASSUME NEW id \in 0 .. n - 1, id # 0
      PROVE  blocks[id - 1].end = id * size
    <2>1. id - 1 \in 0 .. n - 1 /\ id \in Nat
        BY <1>1, <1>5, SMT
    <2>2. (id - 1) * size + size = id * size
        BY <1>2, <2>1, SMT
    <2>3. id * size \in Nat /\ id * size < run.total /\ (id - 1) * size \in Nat
        BY <1>4, <2>1
    <2> QED BY <1>2, <1>4, <2>1, <2>2, <2>3, SMT DEF Smaller
<1>6. ASSUME NEW id \in 0 .. n - 1, run.antithetic
      PROVE  blocks[id].start % 2 = 0 /\ blocks[id].end % 2 = 0
    <2>1. PICK half \in Nat : size = 2 * half
        <3>1. size = 2 * (size \div 2)
            BY <1>2, <1>6, SMT
        <3> QED BY <1>2, <3>1, SMT
    <2>2. id * size = 2 * (id * half) /\ id * half \in Nat
        BY <2>1, SMT
    <2>3. (id * size) % 2 = 0
        BY <2>2, SMT
    <2>4. /\ blocks[id].start = id * size
          /\ blocks[id].end = id * size + Smaller(size, run.total - id * size)
          /\ id * size \in Nat /\ id * size < run.total
        BY <1>4
    <2>5. CASE size <= run.total - id * size
        BY <1>2, <1>6, <2>3, <2>4, <2>5, SMT DEF Smaller
    <2>6. CASE ~ (size <= run.total - id * size)
        BY <1>2, <1>6, <2>3, <2>4, <2>6, SMT DEF Smaller
    <2> QED BY <2>5, <2>6
<1>7. blocks[n - 1].end = run.total
    <2>1. n - 1 \in 0 .. n - 1
        BY <1>1, SMT
    <2> QED BY <1>1, <1>2, <1>4, <2>1, SMT DEF Smaller
<1>8. ASSUME NEW id \in 0 .. n - 1
      PROVE  blocks[id].end > blocks[id].start
    BY <1>2, <1>4, SMT DEF Smaller
<1>9. \A id \in 0 .. n - 1 : (IF id = 0 THEN 0 ELSE blocks[id - 1].end) = id * size
    BY <1>2, <1>5, SMT
<1>10. 0 \in 0 .. n - 1
    BY <1>1, SMT
<1> QED BY <1>3, <1>4, <1>6, <1>7, <1>8, <1>9, <1>10 DEF CoordinatorAccepts, n, blocks, size

-----------------------------------------------------------------------------
(* RngLayout and the kernels *)

\* Two numbers in the same base agree when their digits do.
LEMMA Digits ==
    ASSUME NEW b \in Nat \ {0}, NEW x \in Nat, NEW y \in Nat,
           NEW u \in 0 .. b - 1, NEW v \in 0 .. b - 1,
           u + x * b = v + y * b
    PROVE  x = y /\ u = v
<1>1. CASE x = y
    BY <1>1, SMT
<1>2. CASE x < y
    <2>1. (x + 1) * b <= y * b
        BY <1>2, SMT
    <2>2. (x + 1) * b = x * b + b
        BY SMT
    <2> QED BY <2>1, <2>2, SMT
<1>3. CASE y < x
    <2>1. (y + 1) * b <= x * b
        BY <1>3, SMT
    <2>2. (y + 1) * b = y * b + b
        BY SMT
    <2> QED BY <2>1, <2>2, SMT
<1> QED BY <1>1, <1>2, <1>3, SMT

\* The high part of a scenario fits the byte it has in the second word.
LEMMA HighByte ==
    ASSUME NEW s \in Nat, s < MaxScenarios
    PROVE  s \div Word32 \in 0 .. Byte - 1
<1> DEFINE q == s \div Word32
<1>1. Word32 \in Nat \ {0} /\ Byte \in Nat /\ s < Word32 * Byte
    BY LayoutAssumption
<1>2. q \in Nat
    BY <1>1, DivMod
<1>3. q * Word32 <= s
    BY <1>1, <1>2, QuotientRange
<1> HIDE DEF q
<1>4. CASE q < Byte
    BY <1>1, <1>2, <1>4, SMT DEF q
<1>5. CASE Byte <= q
    <2>1. Byte * Word32 <= q * Word32 /\ Byte * Word32 = Word32 * Byte
        BY <1>1, <1>2, <1>5, SMT
    <2> QED BY <1>1, <1>2, <1>3, <2>1, SMT
<1> QED BY <1>1, <1>2, <1>4, <1>5, SMT

\* The counter says which draw it belongs to (pack_counter_v1): different
\* scenarios, steps, dimensions or draws have different counters.
THEOREM CountersDiffer ==
    ASSUME NEW s \in Nat, NEW r \in Nat, s < MaxScenarios, r < MaxScenarios,
           NEW t \in Nat, NEW u \in Nat, NEW d \in 0 .. Byte - 1,
           NEW e \in 0 .. Byte - 1, NEW i \in Nat, NEW j \in Nat,
           Layout!pack_counter_v1(s, t, d, i) = Layout!pack_counter_v1(r, u, e, j)
    PROVE  s = r /\ t = u /\ d = e /\ i = j
<1>1. Word32 \in Nat \ {0} /\ Byte \in Nat \ {0}
    BY LayoutAssumption, SMT
<1>2. /\ s % Word32 = r % Word32
      /\ s \div Word32 + t * Byte = r \div Word32 + u * Byte
      /\ d + i * Byte = e + j * Byte
    BY DEF Layout!pack_counter_v1
<1>3. s \div Word32 \in 0 .. Byte - 1 /\ r \div Word32 \in 0 .. Byte - 1
    BY HighByte
<1>4. t = u /\ s \div Word32 = r \div Word32
    BY <1>1, <1>2, <1>3, Digits
<1>5. /\ s = Word32 * (s \div Word32) + (s % Word32)
      /\ r = Word32 * (r \div Word32) + (r % Word32)
    BY <1>1, DivMod
<1>6. s = r
    BY <1>2, <1>4, <1>5
<1>7. d = e /\ i = j
    BY <1>1, <1>2, Digits
<1> QED BY <1>4, <1>6, <1>7

-----------------------------------------------------------------------------

\* What is accepted when the run starts stays so.
Accepted ==
    /\ spec \in Specs /\ validate(spec)
    /\ config \in Configs /\ Admissible(spec, config)

\* The scenario at which observation k of a block starts.
At(id, k) == id * config.size + (k - 1) * Width(spec)

\* A block's loop stands at the end of what it has added, inside its range, and
\* what it has added is what its scenarios call for.
Progress ==
    /\ DOMAIN next = 0 .. block_count(spec, config) - 1
    /\ DOMAIN added = DOMAIN next
    /\ \A id \in DOMAIN next :
        /\ Len(added[id]) \in Nat
        /\ added[id] \in Seq({Observation(spec, s) : s \in 0 .. spec.total - 1})
        /\ next[id] = At(id, Len(added[id]) + 1)
        /\ next[id] <= Blocks[id].end
        /\ \A k \in 1 .. Len(added[id]) :
            /\ At(id, k) < Blocks[id].end
            /\ added[id][k] = Observation(spec, At(id, k))

IInv == Accepted /\ Progress /\ threw = FALSE

\* An accepted run is typed, and its blocks are as MakeBlocksPartitions has them.
LEMMA AcceptedFacts ==
    ASSUME Accepted
    PROVE  /\ Typed(spec, config)
           /\ spec.total \in Nat /\ spec.total <= MaxScenarios
           /\ spec.steps \in Nat \ {0} /\ spec.steps <= Layout!kMaxTimeSteps
           /\ config.size \in Nat \ {0}
           /\ Width(spec) \in {1, 2}
           /\ Width(spec) = 2 <=> spec.antithetic
           /\ spec.antithetic => spec.total % 2 = 0 /\ config.size % 2 = 0
BY SpecsAssumption, SMT
   DEF Accepted, validate, Admissible, Spec_validate, Config_validate, Typed, Width

LEMMA BlocksFacts ==
    ASSUME Accepted, NEW id \in 0 .. block_count(spec, config) - 1
    PROVE  /\ DOMAIN Blocks = 0 .. block_count(spec, config) - 1
           /\ id \in Nat
           /\ Blocks[id].start = id * config.size
           /\ Blocks[id].start \in Nat /\ Blocks[id].end \in Nat
           /\ Blocks[id].start < Blocks[id].end /\ Blocks[id].end <= spec.total
           /\ Blocks[id].end <= id * config.size + config.size
           /\ spec.antithetic => Blocks[id].start % 2 = 0 /\ Blocks[id].end % 2 = 0
<1>1. Typed(spec, config) /\ Admissible(spec, config)
    BY AcceptedFacts DEF Accepted
<1>2. /\ DOMAIN Blocks = 0 .. block_count(spec, config) - 1
      /\ Blocks[id] = block_range(spec, config, id)
    BY DEF Blocks, make_blocks
<1>3. /\ Blocks[id].start = id * config.size
      /\ Blocks[id].end
            = id * config.size + Smaller(config.size, spec.total - id * config.size)
      /\ id * config.size \in Nat /\ id * config.size < spec.total
    BY <1>1, <1>2, BlockRange
<1>4. spec.antithetic => Blocks[id].start % 2 = 0 /\ Blocks[id].end % 2 = 0
    <2>1. CoordinatorAccepts(spec, config, Blocks)
        BY <1>1, CoordinatorAcceptsBlocks DEF Blocks
    <2> QED BY <1>2, <2>1 DEF CoordinatorAccepts
<1>5. spec.total \in Nat /\ config.size \in Nat \ {0}
    BY AcceptedFacts
<1>6. /\ Blocks[id].end \in Nat /\ Blocks[id].start < Blocks[id].end
      /\ Blocks[id].end <= spec.total
      /\ Blocks[id].end <= id * config.size + config.size
    BY <1>3, <1>5, SMT DEF Smaller
<1>7. id \in Nat
    <2>1. block_count(spec, config) \in Nat
        BY <1>1, BlockCount
    <2> QED BY <2>1, SMT
<1> QED BY <1>2, <1>3, <1>4, <1>6, <1>7

-----------------------------------------------------------------------------

\* Where a block's loop stands before it is done, the kernels and
\* pack_counter_v1 accept the scenario it has come to.
LEMMA NothingRefused ==
    ASSUME IInv, NEW id \in Ids, next[id] < Blocks[id].end
    PROVE  /\ ~ Refused(spec, next[id]) /\ Computable(spec, Blocks[id])
           /\ next[id] \in Nat /\ next[id] < spec.total
           /\ next[id] + Width(spec) <= Blocks[id].end
<1> USE DEF IInv, Ids
<1>1. id \in 0 .. block_count(spec, config) - 1
    BY DEF Progress
<1>2. /\ id \in Nat /\ Blocks[id].start = id * config.size
      /\ Blocks[id].start \in Nat /\ Blocks[id].end \in Nat
      /\ Blocks[id].start < Blocks[id].end /\ Blocks[id].end <= spec.total
      /\ spec.antithetic => Blocks[id].start % 2 = 0 /\ Blocks[id].end % 2 = 0
    BY <1>1, BlocksFacts
<1>3. /\ spec.total \in Nat /\ spec.total <= MaxScenarios
      /\ spec.steps \in Nat \ {0} /\ spec.steps <= Layout!kMaxTimeSteps
      /\ Width(spec) \in {1, 2} /\ (Width(spec) = 2 <=> spec.antithetic)
      /\ spec.antithetic => spec.total % 2 = 0
    BY AcceptedFacts
<1>4. Len(added[id]) \in Nat /\ next[id] = At(id, Len(added[id]) + 1)
    BY DEF Progress
<1> DEFINE m == Len(added[id])
<1>5. next[id] = Blocks[id].start + m * Width(spec)
    BY <1>2, <1>3, <1>4, SMT DEF At
<1> HIDE DEF m
<1>6. m \in Nat
    BY <1>4 DEF m
<1>7. next[id] \in Nat /\ next[id] < spec.total
    <2>1. m * Width(spec) \in Nat
        BY <1>3, <1>6, SMT
    <2> QED BY <1>2, <1>3, <1>5, <2>1, SMT
<1>8. spec.antithetic => next[id] % 2 = 0
    BY <1>2, <1>3, <1>5, <1>6, SMT
<1>9. spec.antithetic => next[id] + 1 < Blocks[id].end /\ next[id] + 1 < spec.total
    BY <1>2, <1>3, <1>7, <1>8, SMT
<1>10. Computable(spec, Blocks[id])
    BY <1>2 DEF Computable
<1>11. next[id] + Width(spec) <= Blocks[id].end
    BY <1>2, <1>3, <1>7, <1>9, SMT
<1>12. ASSUME NEW t \in Steps(spec), NEW d \in Dimensions(spec)
       PROVE  Layout!InFields(next[id], t, d, 0)
    <2>1. next[id] < Layout!kMaxScenarios
        BY <1>3, <1>7, LayoutAssumption, SMT DEF Layout!kMaxScenarios
    <2>2. Layout!kMaxTimeSteps \in Nat
        BY LayoutAssumption, DivMod DEF Layout!kMaxTimeSteps
    <2>3. t \in Nat /\ t <= Layout!kMaxTimeSteps - 1 /\ 0 <= Layout!kMaxTimeSteps - 1
        BY <1>3, <2>2, SMT DEF Steps
    <2>4. d < Byte
        BY LayoutAssumption, SMT DEF Dimensions
    <2> QED BY <2>1, <2>3, <2>4 DEF Layout!InFields, Layout!kMax24BitValue
<1>13. ~ Refused(spec, next[id])
    BY <1>2, <1>3, <1>7, <1>8, <1>9, <1>12, SMT DEF Refused
<1> QED BY <1>7, <1>10, <1>11, <1>13

LEMMA InitIInv == Init => IInv
<1> SUFFICES ASSUME Init PROVE IInv
    OBVIOUS
<1> USE DEF Init
<1>1. Accepted
    BY DEF Accepted
<1>2. DOMAIN make_blocks(spec, config) = 0 .. block_count(spec, config) - 1
    BY DEF make_blocks
<1>3. ASSUME NEW id \in DOMAIN next
      PROVE  /\ Len(added[id]) \in Nat
             /\ added[id] \in Seq({Observation(spec, s) : s \in 0 .. spec.total - 1})
             /\ next[id] = At(id, Len(added[id]) + 1)
             /\ next[id] <= Blocks[id].end
             /\ \A k \in 1 .. Len(added[id]) :
                    /\ At(id, k) < Blocks[id].end
                    /\ added[id][k] = Observation(spec, At(id, k))
    <2>1. id \in 0 .. block_count(spec, config) - 1
        BY <1>2
    <2>2. /\ added[id] = <<>> /\ next[id] = Blocks[id].start
        BY DEF Blocks
    <2>3. /\ id \in Nat /\ Blocks[id].start = id * config.size
          /\ Blocks[id].start \in Nat /\ Blocks[id].end \in Nat
          /\ Blocks[id].start < Blocks[id].end
        BY <1>1, <2>1, BlocksFacts
    <2>4. Width(spec) \in {1, 2}
        BY <1>1, AcceptedFacts
    <2>5. next[id] = At(id, Len(added[id]) + 1)
        BY <2>2, <2>3, <2>4, SMT DEF At
    <2> QED BY <2>2, <2>3, <2>5, SMT
<1>4. Progress
    BY <1>2, <1>3 DEF Progress
<1> QED BY <1>1, <1>4 DEF IInv

LEMMA NextIInv == IInv /\ [Next]_vars => IInv'
<1> SUFFICES ASSUME IInv, [Next]_vars PROVE IInv'
    OBVIOUS
<1> DEFINE Sound(id) ==
        /\ Len(added[id]) \in Nat
        /\ added[id] \in Seq({Observation(spec, s) : s \in 0 .. spec.total - 1})
        /\ next[id] = At(id, Len(added[id]) + 1)
        /\ next[id] <= Blocks[id].end
        /\ \A k \in 1 .. Len(added[id]) :
            /\ At(id, k) < Blocks[id].end
            /\ added[id][k] = Observation(spec, At(id, k))
<1>1. CASE UNCHANGED vars
    BY <1>1 DEF IInv, Accepted, Progress, At, Blocks, vars
<1>2. ASSUME NEW id \in Ids, Observe(id)
      PROVE  IInv'
    <2> USE DEF Ids
    <2>1. /\ ~ Refused(spec, next[id]) /\ Computable(spec, Blocks[id])
          /\ next[id] \in Nat /\ next[id] < spec.total
          /\ next[id] + Width(spec) <= Blocks[id].end
          /\ next[id] < Blocks[id].end
        BY <1>2, NothingRefused DEF Observe
    <2>2. /\ added' = [added EXCEPT ![id] = Append(added[id], Observation(spec, next[id]))]
          /\ next' = [next EXCEPT ![id] = next[id] + Width(spec)]
          /\ UNCHANGED <<spec, config, threw>>
        BY <1>2, <2>1 DEF Observe
    <2>3. Accepted' /\ threw' = FALSE
        BY <2>2 DEF IInv, Accepted
    <2>4. \A j \in DOMAIN next : Sound(j)
        BY DEF IInv, Progress
    <2>5. DOMAIN next' = 0 .. block_count(spec, config) - 1 /\ DOMAIN added' = DOMAIN next'
        BY <2>2 DEF IInv, Progress
    <2>6. ASSUME NEW j \in DOMAIN next, j # id
          PROVE  Sound(j)'
        <3>1. added'[j] = added[j] /\ next'[j] = next[j]
            BY <2>2, <2>6 DEF IInv, Progress
        <3> QED BY <2>2, <2>4, <3>1 DEF At, Blocks
    <2>7. Sound(id)'
        <3> DEFINE o == Observation(spec, next[id])
                   m == Len(added[id])
                   O == {Observation(spec, s) : s \in 0 .. spec.total - 1}
        <3>1. added'[id] = Append(added[id], o) /\ next'[id] = next[id] + Width(spec)
            BY <2>2 DEF IInv, Progress
        <3>2. Sound(id)
            BY <2>4
        <3>3. o \in O
            BY <2>1, <3>2, AcceptedFacts, SMT DEF IInv
        <3>4. added[id] \in Seq(O) /\ m \in Nat
            BY <3>2
        <3> HIDE DEF o, O
        <3>5. /\ added'[id] \in Seq(O) /\ Len(added'[id]) = m + 1
              /\ added'[id][m + 1] = o
              /\ \A k \in 1 .. m : added'[id][k] = added[id][k]
            BY <3>1, <3>3, <3>4, SMT
        <3> HIDE DEF m
        <3>6. id \in Nat /\ config.size \in Nat /\ Width(spec) \in {1, 2}
            BY BlocksFacts, AcceptedFacts DEF IInv, Progress
        <3>7. At(id, m + 1) = next[id] /\ At(id, m + 2) = next[id] + Width(spec)
            BY <3>2, <3>4, <3>6, SMT DEF At, m
        <3>8. \A k \in 1 .. m + 1 :
                /\ At(id, k) < Blocks[id].end
                /\ added'[id][k] = Observation(spec, At(id, k))
            <4> SUFFICES ASSUME NEW k \in 1 .. m + 1
                         PROVE  /\ At(id, k) < Blocks[id].end
                                /\ added'[id][k] = Observation(spec, At(id, k))
                OBVIOUS
            <4>1. CASE k = m + 1
                BY <2>1, <3>5, <3>7, <4>1 DEF o
            <4>2. CASE k # m + 1
                <5>1. k \in 1 .. m
                    BY <3>4, <4>2, SMT
                <5> QED BY <3>2, <3>5, <5>1 DEF m
            <4> QED BY <4>1, <4>2
        <3>9. (m + 1) + 1 = m + 2 /\ m + 1 \in Nat
            BY <3>4, SMT
        <3>10. /\ Blocks' = Blocks /\ spec' = spec
               /\ \A k : At(id, k)' = At(id, k)
            BY <2>2 DEF Blocks, At
        <3> QED BY <2>1, <2>2, <3>1, <3>5, <3>7, <3>8, <3>9, <3>10 DEF O
    <2>8. \A j \in DOMAIN next' : Sound(j)'
        BY <2>2, <2>6, <2>7
    <2>9. Progress'
        BY <2>2, <2>5, <2>8 DEF Progress
    <2> QED BY <2>3, <2>9 DEF IInv
<1>3. ASSUME NEW id \in Ids, Again(id)
      PROVE  IInv'
    <2> USE DEF Ids
    <2>1. /\ added' = [added EXCEPT ![id] = <<>>]
          /\ next' = [next EXCEPT ![id] = Blocks[id].start]
          /\ UNCHANGED <<spec, config, threw>>
        BY <1>3 DEF Again
    <2>2. Accepted' /\ threw' = FALSE
        BY <2>1 DEF IInv, Accepted
    <2>3. \A j \in DOMAIN next : Sound(j)
        BY DEF IInv, Progress
    <2>4. DOMAIN next' = 0 .. block_count(spec, config) - 1 /\ DOMAIN added' = DOMAIN next'
        BY <2>1 DEF IInv, Progress
    <2>5. ASSUME NEW j \in DOMAIN next, j # id
          PROVE  Sound(j)'
        <3>1. added'[j] = added[j] /\ next'[j] = next[j]
            BY <2>1, <2>5 DEF IInv, Progress
        <3> QED BY <2>1, <2>3, <3>1 DEF At, Blocks
    <2>6. Sound(id)'
        <3>1. added'[id] = <<>> /\ next'[id] = Blocks[id].start
            BY <2>1 DEF IInv, Progress
        <3>2. /\ id \in Nat /\ Blocks[id].start = id * config.size
              /\ Blocks[id].start \in Nat /\ Blocks[id].end \in Nat
              /\ Blocks[id].start < Blocks[id].end
            BY BlocksFacts DEF IInv, Progress
        <3>3. Width(spec) \in {1, 2}
            BY AcceptedFacts DEF IInv
        <3>4. Blocks[id].start = At(id, 1)
            BY <3>2, <3>3, SMT DEF At
        <3>5. Blocks' = Blocks /\ spec' = spec /\ \A k : At(id, k)' = At(id, k)
            BY <2>1 DEF Blocks, At
        <3>6. Len(added'[id]) = 0
            BY <3>1, SMT
        <3>7. added'[id] \in Seq({Observation(spec, s) : s \in 0 .. spec.total - 1})
            BY <3>1, SMT
        <3>8. next'[id] = At(id, Len(added'[id]) + 1)
            BY <3>1, <3>4, <3>6, SMT
        <3>9. next'[id] <= Blocks[id].end
            BY <3>1, <3>2, SMT
        <3> QED BY <3>5, <3>6, <3>7, <3>8, <3>9, SMT
    <2>7. \A j \in DOMAIN next' : Sound(j)'
        BY <2>1, <2>5, <2>6
    <2>8. Progress'
        BY <2>1, <2>4, <2>7 DEF Progress
    <2> QED BY <2>2, <2>8 DEF IInv
<1> QED BY <1>1, <1>2, <1>3 DEF Next

LEMMA AlwaysIInv == Spec => []IInv
BY InitIInv, NextIInv, PTL DEF Spec

-----------------------------------------------------------------------------

\* No accepted run throws out of a kernel or out of pack_counter_v1, however
\* large the layout and the run.
THEOREM NeverThrowsTheorem == Spec => []NeverThrows
<1>1. IInv => NeverThrows
    BY DEF IInv, NeverThrows
<1> QED BY <1>1, AlwaysIInv, PTL

\* An observation is the paths of its scenarios, each as it is simulated alone.
LEMMA ObservationIsScenarios ==
    ASSUME Accepted, NEW s \in Nat, spec.antithetic => s % 2 = 0
    PROVE  Observation(spec, s)
            = [i \in 1 .. Width(spec) |-> discounted_payoff(spec, s + i - 1)]
<1>1. CASE spec.antithetic
    <2>1. s - (s % 2) = s /\ (s + 1) % 2 = 1 /\ (s + 1) - ((s + 1) % 2) = s /\ s % 2 = 0
        BY <1>1, SMT
    <2>2. /\ discounted_payoff(spec, s) = Path(spec, s, 1)
          /\ discounted_payoff(spec, s + 1) = Path(spec, s, -1)
        BY <1>1, <2>1, SMT DEF discounted_payoff
    <2>3. s + 1 - 1 = s /\ s + 2 - 1 = s + 1
        BY SMT
    <2>4. Observation(spec, s) = <<Path(spec, s, 1), Path(spec, s, -1)>>
        BY <1>1 DEF Observation, antithetic_pair_mean
    <2>5. Width(spec) = 2 /\ 1 .. 2 = {1, 2}
        BY <1>1, SMT DEF Width
    <2>6. <<Path(spec, s, 1), Path(spec, s, -1)>>
            = [i \in 1 .. 2 |-> discounted_payoff(spec, s + i - 1)]
        <3> DEFINE f == [i \in 1 .. 2 |-> discounted_payoff(spec, s + i - 1)]
                   p == Path(spec, s, 1)
                   q == Path(spec, s, -1)
        <3>1. f[1] = p /\ f[2] = q
            BY <2>2, <2>3, <2>5
        <3>2. f = [i \in 1 .. 2 |-> f[i]]
            OBVIOUS
        <3> HIDE DEF f, p, q
        <3>3. f = <<p, q>>
            BY <3>1, <3>2, SMT
        <3> QED BY <3>3 DEF f, p, q
    <2> QED BY <2>4, <2>5, <2>6
<1>2. CASE ~ spec.antithetic
    <2>1. Width(spec) = 1 /\ s + 1 - 1 = s /\ 1 .. 1 = {1}
        BY <1>2, SMT DEF Width
    <2>2. Observation(spec, s) = <<discounted_payoff(spec, s)>>
        BY <1>2 DEF Observation
    <2> DEFINE f == [i \in 1 .. 1 |-> discounted_payoff(spec, s + i - 1)]
               p == discounted_payoff(spec, s)
    <2>3. f[1] = p /\ f = [i \in 1 .. 1 |-> f[i]]
        BY <2>1
    <2> HIDE DEF f, p
    <2>4. f = <<p>>
        BY <2>3, SMT
    <2> QED BY <2>1, <2>2, <2>4 DEF f, p
<1> QED BY <1>1, <1>2

\* The scenarios of what has been added: in range, in their block, and even
\* where they start a pair.
LEMMA AddedAt ==
    ASSUME IInv, NEW id \in Ids, NEW k \in 1 .. Len(added[id])
    PROVE  /\ At(id, k) \in Nat /\ At(id, k) < spec.total
           /\ id * config.size <= At(id, k)
           /\ At(id, k) < id * config.size + config.size
           /\ spec.antithetic => At(id, k) % 2 = 0
           /\ added[id][k] = Observation(spec, At(id, k))
           /\ id \in Nat /\ k \in Nat
<1>1. id \in 0 .. block_count(spec, config) - 1 /\ Accepted
    BY DEF IInv, Progress, Ids
<1>2. /\ id \in Nat /\ Blocks[id].start = id * config.size
      /\ Blocks[id].start \in Nat /\ Blocks[id].end \in Nat
      /\ Blocks[id].end <= spec.total
      /\ Blocks[id].end <= id * config.size + config.size
      /\ spec.antithetic => Blocks[id].start % 2 = 0
    BY <1>1, BlocksFacts
<1>3. /\ spec.total \in Nat /\ config.size \in Nat
      /\ Width(spec) \in {1, 2} /\ (Width(spec) = 2 <=> spec.antithetic)
    BY <1>1, AcceptedFacts
<1>4. /\ Len(added[id]) \in Nat /\ At(id, k) < Blocks[id].end
      /\ added[id][k] = Observation(spec, At(id, k))
    BY DEF IInv, Progress, Ids
<1>5. k \in Nat /\ k - 1 \in Nat
    BY <1>4, SMT
<1>6. At(id, k) = Blocks[id].start + (k - 1) * Width(spec)
    BY <1>2 DEF At
<1>7. (k - 1) * Width(spec) \in Nat
    BY <1>3, <1>5, SMT
<1>8. spec.antithetic => At(id, k) % 2 = 0
    BY <1>2, <1>3, <1>5, <1>6, SMT
<1>9. /\ At(id, k) \in Nat /\ At(id, k) < spec.total
      /\ id * config.size <= At(id, k)
      /\ At(id, k) < id * config.size + config.size
    <2> DEFINE a == At(id, k)
               b == id * config.size
               w == (k - 1) * Width(spec)
    <2>1. a = b + w /\ b \in Nat /\ w \in Nat /\ a < Blocks[id].end
        BY <1>2, <1>4, <1>6, <1>7
    <2> HIDE DEF a, b, w
    <2>2. Blocks[id].end <= b + config.size
        BY <1>2 DEF b
    <2>3. a \in Nat /\ a < spec.total /\ b <= a /\ a < b + config.size
        BY <1>2, <1>3, <2>1, <2>2, SMT
    <2> QED BY <2>3 DEF a, b
<1> QED BY <1>2, <1>4, <1>5, <1>8, <1>9

\* Observations depend on the specification alone, not on block size, order or
\* repetition, and a pair is its two scenarios.
THEOREM SamplesExactTheorem == Spec => []SamplesExact
<1>1. IInv => SamplesExact
    <2> SUFFICES ASSUME IInv, NEW id \in Ids, NEW k \in 1 .. Len(added[id])
                 PROVE  added[id][k] =
                            [i \in 1 .. Width(spec) |->
                                discounted_payoff(spec, At(id, k) + i - 1)]
        BY DEF SamplesExact, At
    <2>1. /\ At(id, k) \in Nat /\ (spec.antithetic => At(id, k) % 2 = 0)
          /\ added[id][k] = Observation(spec, At(id, k))
        BY AddedAt
    <2> QED BY <2>1, ObservationIsScenarios DEF IInv
<1> QED BY <1>1, AlwaysIInv, PTL

\* The first path of an observation draws at its own scenario.
LEMMA FirstPath ==
    ASSUME Accepted, NEW s \in Nat, NEW t \in Steps(spec), NEW d \in Dimensions(spec)
    PROVE  Observation(spec, s)[1][t][d].normal = standard_normal(s, t, d)
<1>1. CASE spec.antithetic
    BY <1>1 DEF Observation, antithetic_pair_mean, Path
<1>2. CASE ~ spec.antithetic
    BY <1>2 DEF Observation, discounted_payoff, Path
<1> QED BY <1>1, <1>2

\* No random number is used for two draws of a run, in whichever blocks, steps
\* and dimensions they are.
THEOREM StreamsApartTheorem == Spec => []StreamsApart
<1>1. IInv => StreamsApart
    <2> SUFFICES ASSUME IInv, NEW id \in Ids, NEW jd \in Ids,
                        NEW k \in 1 .. Len(added[id]), NEW l \in 1 .. Len(added[jd]),
                        NEW t \in Steps(spec), NEW u \in Steps(spec),
                        NEW d \in Dimensions(spec), NEW e \in Dimensions(spec),
                        added[id][k][1][t][d].normal = added[jd][l][1][u][e].normal
                 PROVE  <<id, k, t, d>> = <<jd, l, u, e>>
        BY DEF StreamsApart
    <2> DEFINE s == At(id, k)
               r == At(jd, l)
    <2>1. /\ s \in Nat /\ s < spec.total /\ id \in Nat /\ k \in Nat
          /\ id * config.size <= s /\ s < id * config.size + config.size
          /\ added[id][k] = Observation(spec, s)
        BY AddedAt
    <2>2. /\ r \in Nat /\ r < spec.total /\ jd \in Nat /\ l \in Nat
          /\ jd * config.size <= r /\ r < jd * config.size + config.size
          /\ added[jd][l] = Observation(spec, r)
        BY AddedAt
    <2>3. /\ spec.total \in Nat /\ spec.total <= MaxScenarios
          /\ config.size \in Nat \ {0} /\ Width(spec) \in {1, 2} /\ spec.steps \in Nat
        BY AcceptedFacts DEF IInv
    <2>4. MaxScenarios \in Nat
        BY ScenariosAssumption
    <2>5. t \in Nat /\ u \in Nat /\ d \in 0 .. Byte - 1 /\ e \in 0 .. Byte - 1
        BY <2>3, LayoutAssumption, SMT DEF Steps, Dimensions
    <2>6. standard_normal(s, t, d) = standard_normal(r, u, e)
        BY <2>1, <2>2, FirstPath DEF IInv
    <2>7. s = r /\ t = u /\ d = e
        <3>1. s < MaxScenarios /\ r < MaxScenarios
            BY <2>1, <2>2, <2>3, <2>4, SMT
        <3> HIDE DEF s, r
        <3> QED BY <2>1, <2>2, <2>5, <2>6, <3>1, CountersDiffer DEF standard_normal
    <2>8. id = jd
        <3>1. s \div config.size = id
            BY <2>1, <2>3, QuotientRange
        <3>2. r \div config.size = jd
            BY <2>2, <2>3, QuotientRange
        <3> QED BY <2>7, <3>1, <3>2
    <2>9. k = l
        BY <2>1, <2>2, <2>3, <2>7, <2>8, SMT DEF At
    <2> QED BY <2>7, <2>8, <2>9
<1> QED BY <1>1, AlwaysIInv, PTL

-----------------------------------------------------------------------------
(* ExportStream: any request that the C++ types admit *)

\* The counter of word i of a request.
CounterAt(r, i) ==
    Export!pack_counter_v1(Export!ScenarioAt(r, i), r.step, Export!DimensionAt(r, i), r.draw)

Served(r) == Export!Parses(r) /\ Export!Accepted(r)

\* What is served has been accepted, and what has been written so far is the
\* beginning of it.
ExportInv ==
    /\ request \in Requests
    /\ out \in Seq({CounterAt(request, i) : i \in Nat})
    /\ phase \in {"check", "emit", "done", "refused"}
    /\ Len(out) = 0 \/ Served(request)
    /\ phase \in {"emit", "done"} => Served(request)
    /\ Len(out) <= request.words
    /\ phase = "done" => Len(out) = request.words
    /\ \A k \in 1 .. Len(out) : out[k] = CounterAt(request, k - 1)

\* A larger number has no smaller quotient.
LEMMA QuotientGrows ==
    ASSUME NEW a \in Nat, NEW c \in Nat, NEW b \in Nat \ {0}, a <= c
    PROVE  a \div b <= c \div b
<1> DEFINE p == a \div b
           q == c \div b
<1>1. p \in Nat /\ q \in Nat
    BY DivMod
<1>2. p * b <= a /\ c < q * b + b
    BY <1>1, QuotientRange
<1> HIDE DEF p, q
<1>3. ASSUME q < p
      PROVE  FALSE
    <2>1. (q + 1) * b <= p * b /\ (q + 1) * b = q * b + b
        BY <1>1, <1>3, SMT
    <2> QED BY <1>1, <1>2, <2>1, SMT
<1>4. p <= q
    BY <1>1, <1>3, SMT
<1> QED BY <1>4 DEF p, q

\* The tool's checks keep every word of an accepted request inside the fields
\* of the layout, the last one too.
LEMMA WordsFit ==
    ASSUME NEW r \in Requests, Served(r), NEW i \in Nat, i < r.words
    PROVE  /\ i \div r.dimensions \in Nat
           /\ i % r.dimensions \in 0 .. r.dimensions - 1
           /\ i = (i \div r.dimensions) * r.dimensions + (i % r.dimensions)
           /\ Export!ScenarioAt(r, i) \in r.start .. MaxScenarios - 1
           /\ Export!DimensionAt(r, i) \in 0 .. Byte - 1
           /\ Export!InFields(Export!ScenarioAt(r, i), r.step,
                              Export!DimensionAt(r, i), r.draw)
<1> DEFINE n == r.dimensions
           q == i \div n
           m == i % n
           last == (r.words - 1) \div n
<1>1. /\ r.words \in Nat /\ r.start \in Nat /\ r.first \in Nat /\ n \in Nat
      /\ r.step \in Nat /\ r.draw \in Nat
    BY RequestsAssumption
<1>2. n # 0 /\ r.words # 0 /\ r.first <= Byte - n /\ n <= Byte /\ r.start < Export!kMaxScenarios
      /\ 1 + last <= Export!kMaxScenarios - r.start
      /\ r.step <= Export!kMax24BitValue /\ r.draw <= Export!kMax24BitValue
    BY DEF Served, Export!Parses, Export!Accepted
<1>3. Export!kMaxScenarios = MaxScenarios
    BY LayoutAssumption DEF Export!kMaxScenarios
<1>4. MaxScenarios \in Nat /\ Byte \in Nat
    BY LayoutAssumption, ScenariosAssumption
<1>5. q \in Nat /\ m \in 0 .. n - 1 /\ i = n * q + m
    BY <1>1, <1>2, DivMod
<1>6. r.words - 1 \in Nat /\ i <= r.words - 1 /\ n \in Nat \ {0}
    BY <1>1, <1>2, SMT
<1>7. q <= last /\ last \in Nat
    BY <1>6, QuotientGrows, DivMod
<1>8. /\ Export!ScenarioAt(r, i) = r.start + q
      /\ Export!DimensionAt(r, i) = r.first + m
    BY DEF Export!ScenarioAt, Export!DimensionAt
<1> HIDE DEF n, q, m, last
<1>9. r.start + q \in r.start .. MaxScenarios - 1 /\ r.first + m \in 0 .. Byte - 1
    BY <1>1, <1>2, <1>3, <1>4, <1>5, <1>7, SMT
<1>10. Export!InFields(r.start + q, r.step, r.first + m, r.draw)
    <2>1. r.start + q < Export!kMaxScenarios /\ r.first + m < Byte
        BY <1>1, <1>3, <1>4, <1>5, <1>9, SMT
    <2> QED BY <1>2, <2>1 DEF Export!InFields
<1>11. i = q * n + m
    BY <1>5, <1>6, SMT
<1> QED BY <1>5, <1>8, <1>9, <1>10, <1>11 DEF n, q, m

\* Two words of a request that have one counter are one word.
LEMMA WordsDiffer ==
    ASSUME NEW r \in Requests, Served(r), NEW i \in Nat, i < r.words,
           NEW j \in Nat, j < r.words, CounterAt(r, i) = CounterAt(r, j)
    PROVE  i = j
<1> DEFINE s == Export!ScenarioAt(r, i)
           u == Export!ScenarioAt(r, j)
           d == Export!DimensionAt(r, i)
           e == Export!DimensionAt(r, j)
           n == r.dimensions
<1>1. Word32 \in Nat \ {0} /\ Byte \in Nat \ {0} /\ MaxScenarios \in Nat
    BY LayoutAssumption, ScenariosAssumption, SMT
<1>2. /\ r.step \in Nat /\ r.draw \in Nat /\ r.start \in Nat /\ r.first \in Nat /\ n \in Nat
    BY RequestsAssumption
<1>3. /\ i \div n \in Nat /\ i % n \in Nat /\ i = (i \div n) * n + (i % n)
      /\ s \in r.start .. MaxScenarios - 1 /\ d \in 0 .. Byte - 1
    <2> HIDE DEF s, d, n
    <2>1. i % n \in 0 .. n - 1
        BY WordsFit DEF n
    <2> QED BY <1>2, <2>1, WordsFit, SMT DEF s, d, n
<1>4. /\ j \div n \in Nat /\ j % n \in Nat /\ j = (j \div n) * n + (j % n)
      /\ u \in r.start .. MaxScenarios - 1 /\ e \in 0 .. Byte - 1
    <2> HIDE DEF u, e, n
    <2>1. j % n \in 0 .. n - 1
        BY WordsFit DEF n
    <2> QED BY <1>2, <2>1, WordsFit, SMT DEF u, e, n
<1>5. /\ s = r.start + i \div n /\ u = r.start + j \div n
      /\ d = r.first + (i % n) /\ e = r.first + (j % n)
    BY DEF Export!ScenarioAt, Export!DimensionAt
<1>6. /\ s % Word32 = u % Word32
      /\ s \div Word32 + r.step * Byte = u \div Word32 + r.step * Byte
      /\ d + r.draw * Byte = e + r.draw * Byte
    BY DEF CounterAt, Export!pack_counter_v1
<1>7. s \in Nat /\ u \in Nat /\ s < MaxScenarios /\ u < MaxScenarios
    BY <1>1, <1>2, <1>3, <1>4, SMT
<1> HIDE DEF s, u, d, e, n
<1>8. s \div Word32 \in 0 .. Byte - 1 /\ u \div Word32 \in 0 .. Byte - 1
    BY <1>7, HighByte
<1>9. s \div Word32 = u \div Word32
    BY <1>1, <1>2, <1>6, <1>8, Digits
<1>10. /\ s = Word32 * (s \div Word32) + (s % Word32)
       /\ u = Word32 * (u \div Word32) + (u % Word32)
    BY <1>1, <1>7, DivMod
<1>11. s = u
    BY <1>6, <1>9, <1>10
<1>12. d = e
    BY <1>1, <1>2, <1>3, <1>4, <1>6, Digits
<1>13. i \div n = j \div n /\ i % n = j % n
    <2> DEFINE a == i \div n
               b == j \div n
               x == i % n
               y == j % n
    <2>1. a \in Nat /\ b \in Nat /\ x \in Nat /\ y \in Nat
        BY <1>3, <1>4
    <2>2. r.start + a = r.start + b /\ r.first + x = r.first + y
        BY <1>5, <1>11, <1>12
    <2> HIDE DEF a, b, x, y
    <2>3. a = b /\ x = y
        BY <1>2, <2>1, <2>2, SMT
    <2> QED BY <2>3 DEF a, b, x, y
<1> QED BY <1>3, <1>4, <1>13

LEMMA ExportInvariant == Export!Spec => []ExportInv
<1>1. Export!Init => ExportInv
    BY RequestsAssumption, SMT DEF Export!Init, ExportInv
<1>2. ASSUME ExportInv, [Export!Next]_Export!vars
      PROVE  ExportInv'
    <2>1. CASE Export!Check
        <3>1. request' = request /\ out' = out
            BY <2>1 DEF Export!Check
        <3>2. phase' \in {"emit", "refused"} /\ (phase' = "emit" => Served(request))
            BY <2>1 DEF Export!Check, Served
        <3> QED BY <1>2, <3>1, <3>2 DEF ExportInv
    <2>2. CASE Export!Emit
        <3> DEFINE i == Len(out)
                   Words == {CounterAt(request, n) : n \in Nat}
        <3>1. request \in Requests /\ Served(request) /\ request.words \in Nat
            BY <1>2, <2>2, RequestsAssumption DEF ExportInv, Export!Emit
        <3>2. i \in Nat /\ i < request.words /\ request' = request
            BY <1>2, <2>2 DEF ExportInv, Export!Emit
        <3>3. out' = Append(out, CounterAt(request, i)) /\ phase' = phase
            BY <2>2, <3>1, <3>2, WordsFit DEF Export!Emit, CounterAt
        <3>4. out \in Seq(Words) /\ CounterAt(request, i) \in Words
            BY <1>2, <3>2 DEF ExportInv
        <3> HIDE DEF Words
        <3>5. /\ out' \in Seq(Words) /\ Len(out') = i + 1
              /\ \A k \in 1 .. i : out'[k] = out[k]
              /\ out'[i + 1] = CounterAt(request, i)
            BY <3>3, <3>4
        <3>6. ASSUME NEW k \in 1 .. Len(out')
              PROVE  out'[k] = CounterAt(request', k - 1)
            <4>1. CASE k = i + 1
                BY <3>2, <3>5, <4>1, i + 1 - 1 = i
            <4>2. CASE k \in 1 .. i
                BY <1>2, <3>2, <3>5, <4>2 DEF ExportInv
            <4> QED BY <3>2, <3>5, <4>1, <4>2
        <3>7. Len(out') <= request.words
            BY <3>1, <3>2, <3>5
        <3>8. phase = "emit"
            BY <2>2 DEF Export!Emit
        <3>9. out' \in Seq({CounterAt(request', n) : n \in Nat})
            BY <3>2, <3>5 DEF Words
        <3> QED BY <3>1, <3>2, <3>3, <3>6, <3>7, <3>8, <3>9 DEF ExportInv
    <2>3. CASE Export!Finish
        <3>1. request' = request /\ out' = out /\ phase = "emit" /\ phase' \in {"done", "refused"}
              /\ Len(out) = request.words
            BY <2>3 DEF Export!Finish
        <3> QED BY <1>2, <3>1 DEF ExportInv
    <2>4. CASE UNCHANGED Export!vars
        <3>1. request' = request /\ out' = out /\ phase' = phase
            BY <2>4 DEF Export!vars
        <3> QED BY <1>2, <3>1 DEF ExportInv
    <2> QED BY <1>2, <2>1, <2>2, <2>3, <2>4 DEF Export!Next
<1> QED BY <1>1, <1>2, PTL DEF Export!Spec

\* export_rng_stream serves every request that it accepts, at the last scenario
\* and the last dimension too: pack_counter_v1 does not throw at it, no word is
\* written twice and none is left out, for every width and every request.
THEOREM ExportIsComplete == Export!Spec => []ExportCovers
<1>1. ASSUME ExportInv
      PROVE  ExportCovers
    <2>1. phase # "threw"
        BY <1>1 DEF ExportInv
    <2>2. Len(out) \in Nat /\ request \in Requests /\ request.words \in Nat /\ Len(out) <= request.words
        BY <1>1, RequestsAssumption DEF ExportInv
    <2>3. ASSUME NEW i \in 1 .. Len(out), NEW j \in 1 .. Len(out), out[i] = out[j]
          PROVE  i = j
        <3>1. Served(request)
            BY <1>1, <2>2 DEF ExportInv
        <3>2. /\ i - 1 \in Nat /\ i - 1 < request.words
              /\ j - 1 \in Nat /\ j - 1 < request.words
            BY <2>2
        <3>3. CounterAt(request, i - 1) = CounterAt(request, j - 1)
            BY <1>1, <2>3 DEF ExportInv
        <3>4. i - 1 = j - 1
            BY <2>2, <3>1, <3>2, <3>3, WordsDiffer
        <3> QED BY <2>2, <3>4
    <2>4. ASSUME phase = "done", NEW k \in 0 .. request.words - 1
          PROVE  \E s \in request.start .. Export!kMaxScenarios - 1,
                    d \in 0 .. request.dimensions - 1 :
                    /\ (s - request.start) * request.dimensions + d = k
                    /\ out[k + 1] = Export!pack_counter_v1(s, request.step,
                                        request.first + d, request.draw)
        <3> DEFINE q == k \div request.dimensions
                   m == k % request.dimensions
        <3>1. Served(request) /\ k \in Nat /\ k < request.words /\ k + 1 \in 1 .. Len(out)
            BY <1>1, <2>2, <2>4 DEF ExportInv
        <3>2. /\ q \in Nat /\ m \in 0 .. request.dimensions - 1
              /\ k = q * request.dimensions + m
              /\ Export!ScenarioAt(request, k) \in request.start .. MaxScenarios - 1
            BY <2>2, <3>1, WordsFit
        <3>3. /\ Export!ScenarioAt(request, k) = request.start + q
              /\ Export!DimensionAt(request, k) = request.first + m
            BY DEF Export!ScenarioAt, Export!DimensionAt
        <3>4. out[k + 1] = CounterAt(request, k)
            BY <1>1, <3>1, k + 1 - 1 = k DEF ExportInv
        <3>5. out[k + 1] = Export!pack_counter_v1(request.start + q, request.step,
                                request.first + m, request.draw)
            BY <3>3, <3>4 DEF CounterAt
        <3>6. Export!kMaxScenarios = MaxScenarios
            BY LayoutAssumption DEF Export!kMaxScenarios
        <3>7. request.start \in Nat
            BY <2>2, RequestsAssumption
        <3> HIDE DEF q, m
        <3>8. (request.start + q) - request.start = q
            BY <3>2, <3>7
        <3> QED BY <3>2, <3>3, <3>5, <3>6, <3>8
    <2> QED BY <2>1, <2>3, <2>4 DEF ExportCovers, Export!ExportCovers
<1> QED BY <1>1, ExportInvariant, PTL

-----------------------------------------------------------------------------
(* Sha256Hasher: a message is cut into blocks as it arrives *)

\* What the bytes of a message, of the buffer and of the padding are taken from.
Cells ==
    Alphabet \cup {0, Marker}
        \cup {Hasher!BigEndian(n)[i] : n \in Nat, i \in 1 .. LengthSize}

\* The first n blocks of a sequence, cell by cell.
Blocked(bytes, n) ==
    [k \in 1 .. n |-> [i \in 1 .. BlockSize |-> bytes[(k - 1) * BlockSize + i]]]

\* The first n cells of s are the ones of w behind the first `at`.
Stands(s, n, w, at) == \A i \in 1 .. n : s[i] = w[at + i] /\ s[i] \in Cells

\* n cells behind the first m.
LEMMA Piece ==
    ASSUME NEW S, NEW s \in Seq(S), NEW m \in Nat, NEW n \in Nat, m + n <= Len(s)
    PROVE  /\ SubSeq(s, m + 1, m + n) \in Seq(S)
           /\ Len(SubSeq(s, m + 1, m + n)) = n
           /\ \A i \in 1 .. n : SubSeq(s, m + 1, m + n)[i] = s[m + i]
BY SMT

\* The block that a cell is in, and its place there.
LEMMA PlaceOfCell ==
    ASSUME NEW p \in Nat, NEW k \in 1 .. p, NEW i \in 1 .. BlockSize
    PROVE  /\ (k - 1) * BlockSize \in Nat
           /\ (k - 1) * BlockSize + i \in 1 .. p * BlockSize
           /\ p * BlockSize \in Nat
<1>1. BlockSize \in Nat \ {0} /\ k - 1 \in Nat /\ k \in Nat
    BY HasherAssumption
<1>2. k * BlockSize <= p * BlockSize /\ k * BlockSize = (k - 1) * BlockSize + BlockSize
    BY <1>1, SMT
<1>3. (k - 1) * BlockSize \in Nat /\ p * BlockSize \in Nat /\ k * BlockSize \in Nat
    BY <1>1, SMT
<1> QED BY <1>1, <1>2, <1>3, SMT

\* WholeBlocks, cell by cell.
LEMMA WholeIsBlocked ==
    ASSUME NEW S, NEW s \in Seq(S)
    PROVE  /\ Len(s) \div BlockSize \in Nat
           /\ (Len(s) \div BlockSize) * BlockSize <= Len(s)
           /\ Hasher!WholeBlocks(s) = Blocked(s, Len(s) \div BlockSize)
<1> DEFINE p == Len(s) \div BlockSize
<1>1. BlockSize \in Nat \ {0} /\ Len(s) \in Nat
    BY HasherAssumption
<1>2. p \in Nat
    BY <1>1, DivMod
<1>3. p * BlockSize <= Len(s)
    BY <1>1, <1>2, QuotientRange
<1>4. ASSUME NEW k \in 1 .. p
      PROVE  SubSeq(s, (k - 1) * BlockSize + 1, k * BlockSize)
                = [i \in 1 .. BlockSize |-> s[(k - 1) * BlockSize + i]]
    <2> DEFINE a == (k - 1) * BlockSize
    <2>1. a \in Nat /\ p * BlockSize \in Nat
        BY <1>1, <1>2, PlaceOfCell
    <2>2. k * BlockSize = a + BlockSize
        BY <1>1, <1>2, SMT
    <2>3. a + BlockSize \in 1 .. p * BlockSize
        BY <1>1, <1>2, PlaceOfCell
    <2> DEFINE t == SubSeq(s, a + 1, a + BlockSize)
               all == p * BlockSize
    <2>4. a + BlockSize <= all /\ all <= Len(s) /\ all \in Nat
        BY <1>3, <2>1, <2>3
    <2> HIDE DEF a, all
    <2>5. a + BlockSize <= Len(s)
        BY <1>1, <2>1, <2>4, SMT
    <2>6. t \in Seq(S) /\ Len(t) = BlockSize /\ \A i \in 1 .. BlockSize : t[i] = s[a + i]
        BY <1>1, <2>1, <2>5, Piece
    <2> HIDE DEF t
    <2>7. t = [i \in 1 .. BlockSize |-> t[i]]
        BY <2>6, LenProperties
    <2>8. t = [i \in 1 .. BlockSize |-> s[a + i]]
        BY <2>6, <2>7
    <2> QED BY <2>2, <2>8 DEF t, a
<1>5. Hasher!WholeBlocks(s) = Blocked(s, p)
    BY <1>4 DEF Hasher!WholeBlocks, Blocked
<1> QED BY <1>2, <1>3, <1>5

\* Blocks of one sequence before those of another are blocks of a sequence that
\* holds both, one behind the other.
LEMMA BlocksJoin ==
    ASSUME NEW p \in Nat, NEW r \in Nat, NEW s, NEW t, NEW w,
           Stands(s, p * BlockSize, w, 0), Stands(t, r * BlockSize, w, p * BlockSize)
    PROVE  Blocked(s, p) \o Blocked(t, r) = Blocked(w, p + r)
<1> DEFINE B == [1 .. BlockSize -> Cells]
           left == Blocked(s, p)
           right == Blocked(t, r)
           both == Blocked(w, p + r)
<1>1. BlockSize \in Nat \ {0}
    BY HasherAssumption
<1>2. /\ \A i \in 1 .. p * BlockSize : s[i] = w[i] /\ s[i] \in Cells
      /\ \A i \in 1 .. r * BlockSize : t[i] = w[p * BlockSize + i] /\ t[i] \in Cells
    BY DEF Stands
<1>3. left \in Seq(B) /\ Len(left) = p
    <2>1. \A k \in 1 .. p : [i \in 1 .. BlockSize |-> s[(k - 1) * BlockSize + i]] \in B
        BY <1>2, PlaceOfCell
    <2>2. left \in [1 .. p -> B]
        BY <2>1 DEF Blocked
    <2> HIDE DEF left, B
    <2> QED BY <2>2
<1>4. right \in Seq(B) /\ Len(right) = r
    <2>1. \A k \in 1 .. r : [i \in 1 .. BlockSize |-> t[(k - 1) * BlockSize + i]] \in B
        BY <1>2, PlaceOfCell
    <2>2. right \in [1 .. r -> B]
        BY <2>1 DEF Blocked
    <2> HIDE DEF right, B
    <2> QED BY <2>2
<1>5. /\ left \o right \in Seq(B) /\ Len(left \o right) = p + r
      /\ \A k \in 1 .. p + r :
            (left \o right)[k] = IF k <= p THEN left[k] ELSE right[k - p]
    <2> HIDE DEF left, right, B
    <2> QED BY <1>3, <1>4, ConcatProperties
<1>6. ASSUME NEW k \in 1 .. p + r
      PROVE  (left \o right)[k] = both[k]
    <2>1. CASE k <= p
        <3>1. k \in 1 .. p
            BY <2>1
        <3>2. \A i \in 1 .. BlockSize :
                s[(k - 1) * BlockSize + i] = w[(k - 1) * BlockSize + i]
            BY <1>2, <3>1, PlaceOfCell
        <3>3. left[k] = both[k]
            BY <3>1, <3>2 DEF Blocked
        <3> QED BY <1>5, <2>1, <3>3
    <2>2. CASE ~ (k <= p)
        <3> DEFINE l == k - p
        <3>1. l \in 1 .. r
            BY <2>2
        <3>2. \A i \in 1 .. BlockSize :
                /\ (l - 1) * BlockSize + i \in 1 .. r * BlockSize
                /\ (l - 1) * BlockSize \in Nat
            BY <3>1, PlaceOfCell
        <3>3. (k - 1) * BlockSize = p * BlockSize + (l - 1) * BlockSize
            <4>1. k - 1 = p + (l - 1) /\ p \in Nat /\ l - 1 \in Nat
                BY <3>1
            <4> HIDE DEF l
            <4>2. (p + (l - 1)) * BlockSize = p * BlockSize + (l - 1) * BlockSize
                BY <1>1, <4>1, SMT
            <4> QED BY <4>1, <4>2
        <3>4. \A i \in 1 .. BlockSize :
                t[(l - 1) * BlockSize + i] = w[(k - 1) * BlockSize + i]
            <4> HIDE DEF l
            <4> SUFFICES ASSUME NEW i \in 1 .. BlockSize
                         PROVE  t[(l - 1) * BlockSize + i] = w[(k - 1) * BlockSize + i]
                OBVIOUS
            <4>1. t[(l - 1) * BlockSize + i] = w[p * BlockSize + ((l - 1) * BlockSize + i)]
                BY <1>2, <3>2
            <4>2. p * BlockSize \in Nat
                BY <1>1, SMT
            <4>3. p * BlockSize + ((l - 1) * BlockSize + i) = (k - 1) * BlockSize + i
                BY <1>1, <3>2, <3>3, <4>2, SMT
            <4> QED BY <4>1, <4>3
        <3>5. right[l] = both[k]
            BY <3>1, <3>4 DEF Blocked
        <3> QED BY <1>5, <2>2, <3>5
    <2> QED BY <2>1, <2>2
<1>7. DOMAIN (left \o right) = 1 .. p + r /\ left \o right = [k \in 1 .. p + r |-> (left \o right)[k]]
    <2> HIDE DEF left, right, B
    <2> QED BY <1>5, LenProperties
<1>8. both = [k \in 1 .. p + r |-> both[k]]
    BY DEF Blocked
<1> HIDE DEF left, right, both
<1>9. left \o right = both
    BY <1>6, <1>7, <1>8
<1> QED BY <1>9 DEF left, right, both

LEMMA OverlayCells ==
    ASSUME NEW S, NEW array \in Seq(S), NEW at \in Nat, NEW bytes \in Seq(S)
    PROVE  /\ Hasher!Overlay(array, at, bytes) \in Seq(S)
           /\ Len(Hasher!Overlay(array, at, bytes)) = Len(array)
           /\ \A i \in 1 .. Len(array) :
                Hasher!Overlay(array, at, bytes)[i] =
                    IF i \in at + 1 .. at + Len(bytes) THEN bytes[i - at] ELSE array[i]
<1> DEFINE f == Hasher!Overlay(array, at, bytes)
<1>1. DOMAIN array = 1 .. Len(array) /\ Len(array) \in Nat /\ Len(bytes) \in Nat
    BY LenProperties
<1>2. \A i \in 1 .. Len(array) :
        f[i] = IF i \in at + 1 .. at + Len(bytes) THEN bytes[i - at] ELSE array[i]
    BY <1>1 DEF Hasher!Overlay
<1>3. f = [i \in 1 .. Len(array) |-> f[i]]
    BY <1>1 DEF Hasher!Overlay
<1> HIDE DEF f
<1>4. \A i \in 1 .. Len(array) : f[i] \in S
    <2> SUFFICES ASSUME NEW i \in 1 .. Len(array)
                 PROVE  f[i] \in S
        OBVIOUS
    <2>1. CASE i \in at + 1 .. at + Len(bytes)
        <3>1. i - at \in 1 .. Len(bytes)
            BY <1>1, <2>1
        <3> QED BY <1>2, <2>1, <3>1, ElementOfSeq
    <2>2. CASE ~ (i \in at + 1 .. at + Len(bytes))
        BY <1>2, <2>2, ElementOfSeq
    <2> QED BY <2>1, <2>2
<1>5. f \in [1 .. Len(array) -> S]
    BY <1>3, <1>4
<1>6. f \in Seq(S) /\ Len(f) = Len(array)
    BY <1>1, <1>5
<1> QED BY <1>2, <1>6 DEF f

\* Between updates: whole blocks of the message have gone to transform, and the
\* rest of it is at the beginning of the buffer.  What else the buffer holds is
\* left over from earlier chunks, and nothing is said of it.
HashInv ==
    /\ message \in Seq(Cells) /\ Len(message) <= MaxBytes
    /\ fed = Blocked(message, Len(message) \div BlockSize)
    /\ buffer_ \in Seq(Cells) /\ Len(buffer_) = BlockSize
    /\ buffered_bytes_ = Len(message) % BlockSize
    /\ \A i \in 1 .. buffered_bytes_ :
        buffer_[i] = message[(Len(message) \div BlockSize) * BlockSize + i]
    /\ total_bytes_ = Len(message)

\* How much update() copies into a buffer that is not empty.
LEMMA CopiedCases ==
    ASSUME NEW bytes, Len(bytes) \in Nat, buffered_bytes_ \in 0 .. BlockSize - 1
    PROVE  LET c == Hasher!Copied(bytes)
               b == buffered_bytes_
           IN \/ b = 0 /\ c = 0 /\ ~ Hasher!Full(bytes)
              \/ b > 0 /\ c = BlockSize - b /\ c <= Len(bytes) /\ Hasher!Full(bytes)
              \/ b > 0 /\ c = Len(bytes) /\ b + c < BlockSize /\ ~ Hasher!Full(bytes)
<1> DEFINE b == buffered_bytes_
           room == BlockSize - b
           l == Len(bytes)
           least == Hasher!Min({room, l})
<1>1. BlockSize \in Nat \ {0} /\ room \in Nat /\ l \in Nat /\ b \in Nat /\ room = BlockSize - b
    BY HasherAssumption
<1>2. Hasher!Copied(bytes) = IF b = 0 THEN 0 ELSE least
    BY DEF Hasher!Copied
<1>3. Hasher!Full(bytes) <=> b + Hasher!Copied(bytes) = BlockSize
    BY DEF Hasher!Full
<1>4. least = IF room <= l THEN room ELSE l
    <2> HIDE DEF room, l
    <2> DEFINE s == IF room <= l THEN room ELSE l
    <2>1. s \in {room, l} /\ \A y \in {room, l} : s <= y
        BY <1>1
    <2>2. \A x \in {room, l} : (\A y \in {room, l} : x <= y) => x = s
        BY <1>1
    <2> HIDE DEF s
    <2>3. least = s
        BY <2>1, <2>2 DEF Hasher!Min
    <2> QED BY <2>3 DEF s
<1> HIDE DEF room, l, least, b
<1>5. CASE b = 0
    BY <1>1, <1>2, <1>3, <1>5, SMT DEF b
<1>6. CASE b # 0 /\ room <= l
    BY <1>1, <1>2, <1>3, <1>4, <1>6, SMT DEF b, l
<1>7. CASE b # 0 /\ ~ (room <= l)
    BY <1>1, <1>2, <1>3, <1>4, <1>7, SMT DEF b, l
<1> QED BY <1>5, <1>6, <1>7

\* Where a number stands among the multiples of BlockSize.
LEMMA Remainder ==
    ASSUME NEW a \in Nat, NEW q \in Nat, NEW m \in 0 .. BlockSize - 1,
           a = q * BlockSize + m
    PROVE  a \div BlockSize = q /\ a % BlockSize = m
<1> DEFINE d == a \div BlockSize
           e == a % BlockSize
<1>1. BlockSize \in Nat \ {0}
    BY HasherAssumption
<1>2. d \in Nat /\ e \in 0 .. BlockSize - 1 /\ a = BlockSize * d + e
    BY <1>1, DivMod
<1> HIDE DEF d, e
<1>3. e + d * BlockSize = m + q * BlockSize
    BY <1>1, <1>2, SMT
<1>4. d = q /\ e = m
    BY <1>1, <1>2, <1>3, Digits
<1> QED BY <1>4 DEF d, e

LEMMA UpdateStep ==
    ASSUME HashInv, NEW bytes \in Hasher!Chunks, Hasher!Update(bytes)
    PROVE  HashInv'
<1> DEFINE n == Len(message)
           l == Len(bytes)
           b == buffered_bytes_
           c == Hasher!Copied(bytes)
           q == n \div BlockSize
           x == IF Hasher!Full(bytes) THEN 1 ELSE 0
           p == q + x
           m == l - c
           r == m \div BlockSize
           e == m % BlockSize
           w == message \o bytes
           filled == Hasher!Overlay(buffer_, b, SubSeq(bytes, 1, c))
           rest == SubSeq(bytes, c + 1, l)
           tail == SubSeq(rest, Len(rest) - (Len(rest) % BlockSize) + 1, Len(rest))
           kept == IF Hasher!Full(bytes) THEN 0 ELSE b + c
           extra == IF Hasher!Full(bytes) THEN <<filled>> ELSE <<>>
           over == Hasher!Overlay(filled, kept, tail)
<1>1. BlockSize \in Nat \ {0}
    BY HasherAssumption
<1>2. message \in Seq(Cells) /\ n \in Nat /\ n <= MaxBytes /\ MaxBytes \in Nat
    BY HasherAssumption DEF HashInv
<1>3. bytes \in Seq(Cells) /\ l \in Nat /\ n + l <= MaxBytes
    <2>1. PICK k \in 0 .. MaxBytes - n : bytes \in [1 .. k -> Alphabet]
        BY DEF Hasher!Chunks
    <2>2. bytes \in [1 .. k -> Cells]
        BY <2>1 DEF Cells
    <2>3. bytes \in Seq(Cells) /\ l = k
        BY <1>2, <2>1, <2>2
    <2> QED BY <1>2, <2>1, <2>3
<1>4. /\ w \in Seq(Cells) /\ Len(w) = n + l
      /\ \A i \in 1 .. n : w[i] = message[i]
      /\ \A i \in 1 .. l : w[n + i] = bytes[i]
    BY <1>2, <1>3
<1>5. q \in Nat /\ b \in 0 .. BlockSize - 1 /\ n = q * BlockSize + b /\ q * BlockSize \in Nat
    <2>1. b = n % BlockSize
        BY DEF HashInv
    <2>2. q \in Nat /\ b \in 0 .. BlockSize - 1 /\ n = BlockSize * q + b
        BY <1>1, <1>2, <2>1, DivMod
    <2> HIDE DEF q, n, b
    <2> QED BY <1>1, <2>2, SMT
<1>6. \/ b = 0 /\ c = 0 /\ x = 0 /\ kept = 0
      \/ b > 0 /\ c = BlockSize - b /\ c <= l /\ x = 1 /\ kept = 0
      \/ b > 0 /\ c = l /\ b + c < BlockSize /\ x = 0 /\ kept = b + c
    BY <1>3, <1>5, CopiedCases
<1>7. /\ total_bytes_' = (total_bytes_ + l) % ByteValues ^ LengthSize
      /\ fed' = fed \o extra \o Hasher!WholeBlocks(rest)
      /\ buffer_' = over
      /\ buffered_bytes_' = kept + Len(tail)
      /\ message' = w
    BY DEF Hasher!Update
<1>8. /\ c \in Nat /\ c <= l /\ b + c <= BlockSize /\ x \in {0, 1}
      /\ p \in Nat /\ m \in Nat /\ c + m = l
      /\ kept \in 0 .. BlockSize - 1 /\ (kept = 0 \/ m = 0)
      /\ n + c = p * BlockSize + kept /\ p * BlockSize \in Nat
      /\ kept # 0 => x = 0 /\ kept = b + c
      /\ x = 1 => b + c = BlockSize
    <2>1. (q + 1) * BlockSize = q * BlockSize + BlockSize /\ (q + 0) * BlockSize = q * BlockSize
        BY <1>1, <1>5, SMT
    <2> DEFINE all == q * BlockSize
    <2>2. p * BlockSize = IF x = 1 THEN all + BlockSize ELSE all
        BY <2>1
    <2>3. all \in Nat /\ n = all + b /\ q \in Nat /\ b \in 0 .. BlockSize - 1
        BY <1>5
    <2>4. m = l - c /\ p = q + x /\ x \in {0, 1}
        OBVIOUS
    <2> DEFINE up == p * BlockSize
    <2>5. up = IF x = 1 THEN all + BlockSize ELSE all
        BY <2>2
    <2> HIDE DEF all, up, n, l, b, c, x, p, m, kept, q
    <2>6. /\ c \in Nat /\ c <= l /\ b + c <= BlockSize
          /\ p \in Nat /\ m \in Nat /\ c + m = l
          /\ kept \in 0 .. BlockSize - 1 /\ (kept = 0 \/ m = 0)
          /\ n + c = up + kept /\ up \in Nat
          /\ kept # 0 => x = 0 /\ kept = b + c
          /\ x = 1 => b + c = BlockSize
        BY <1>1, <1>2, <1>3, <1>6, <2>3, <2>4, <2>5, SMT
    <2> QED BY <2>4, <2>6 DEF up
<1>9. r \in Nat /\ e \in 0 .. BlockSize - 1 /\ m = r * BlockSize + e /\ r * BlockSize \in Nat
    <2>1. r \in Nat /\ e \in 0 .. BlockSize - 1 /\ m = BlockSize * r + e
        BY <1>1, <1>8, DivMod
    <2> HIDE DEF r, e, m
    <2> QED BY <1>1, <2>1, SMT
<1> HIDE DEF n, l, c, q, x, p, m, r, e, w, kept, filled, rest, tail, extra, over
\* The buffer, topped up, is a piece of the longer message.
<1>10. /\ filled \in Seq(Cells) /\ Len(filled) = BlockSize
       /\ \A i \in 1 .. b + c : filled[i] = w[q * BlockSize + i]
    <2> DEFINE f == SubSeq(bytes, 1, c)
    <2>1. f \in Seq(Cells) /\ Len(f) = c /\ \A i \in 1 .. c : f[i] = bytes[i]
        <3>1. /\ SubSeq(bytes, 0 + 1, 0 + c) \in Seq(Cells)
              /\ Len(SubSeq(bytes, 0 + 1, 0 + c)) = c
              /\ \A i \in 1 .. c : SubSeq(bytes, 0 + 1, 0 + c)[i] = bytes[0 + i]
            <4>1. 0 \in Nat /\ 0 + c <= Len(bytes)
                BY <1>8 DEF l
            <4> QED BY <1>3, <1>8, <4>1, Piece
        <3>2. 0 + 1 = 1 /\ 0 + c = c /\ \A i \in 1 .. c : 0 + i = i
            BY <1>8
        <3> QED BY <3>1, <3>2
    <2>2. buffer_ \in Seq(Cells) /\ Len(buffer_) = BlockSize /\ b \in Nat
        BY <1>5 DEF HashInv
    <2> HIDE DEF f
    <2>3. /\ filled \in Seq(Cells) /\ Len(filled) = BlockSize
          /\ \A i \in 1 .. BlockSize :
                filled[i] = IF i \in b + 1 .. b + c THEN f[i - b] ELSE buffer_[i]
        <3>1. filled = Hasher!Overlay(buffer_, b, f)
            BY DEF filled, f
        <3> QED BY <2>1, <2>2, <3>1, OverlayCells
    <2>4. ASSUME NEW i \in 1 .. b + c
          PROVE  filled[i] = w[q * BlockSize + i]
        <3> DEFINE all == q * BlockSize
        <3>1. all \in Nat /\ n = all + b /\ i \in 1 .. BlockSize
            BY <1>1, <1>5, <1>8, <2>2
        <3> HIDE DEF all
        <3>2. CASE i <= b
            <4>1. i \in 1 .. b /\ ~ (i \in b + 1 .. b + c)
                BY <2>2, <3>2, <1>8
            <4>2. filled[i] = buffer_[i]
                BY <2>3, <3>1, <4>1
            <4>3. buffer_[i] = message[all + i]
                BY <4>1 DEF HashInv, all, q, n
            <4>4. all + i \in 1 .. n
                BY <2>2, <3>1, <4>1
            <4> QED BY <1>4, <4>2, <4>3, <4>4 DEF all
        <3>3. CASE ~ (i <= b)
            <4>1. i \in b + 1 .. b + c /\ i - b \in 1 .. c /\ i - b \in 1 .. l
                BY <1>3, <1>8, <2>2, <3>3
            <4>2. filled[i] = bytes[i - b]
                BY <2>1, <2>3, <3>1, <4>1
            <4>3. w[n + (i - b)] = bytes[i - b]
                BY <1>4, <4>1
            <4>4. n + (i - b) = all + i
                BY <2>2, <3>1, <4>1
            <4> QED BY <4>2, <4>3, <4>4 DEF all
        <3> QED BY <3>2, <3>3
    <2> QED BY <2>3, <2>4
<1>11. fed \o extra = Blocked(w, p)
    <2>1. extra = Blocked(filled, x)
        <3>1. CASE Hasher!Full(bytes)
            <4>1. filled = [i \in 1 .. BlockSize |-> filled[i]]
                BY <1>10, LenProperties
            <4>2. \A i \in 1 .. BlockSize : (1 - 1) * BlockSize + i = i
                BY <1>1, SMT
            <4>3. [i \in 1 .. BlockSize |-> filled[(1 - 1) * BlockSize + i]] = filled
                BY <4>1, <4>2
            <4>4. Blocked(filled, 1) = [k \in 1 .. 1 |-> filled]
                <5>1. \A k \in 1 .. 1 : k = 1
                    OBVIOUS
                <5> QED BY <4>3, <5>1 DEF Blocked
            <4>5. [k \in 1 .. 1 |-> filled] = <<filled>>
                OBVIOUS
            <4> QED BY <3>1, <4>4, <4>5 DEF x, extra
        <3>2. CASE ~ Hasher!Full(bytes)
            <4>1. Blocked(filled, 0) = <<>>
                BY DEF Blocked
            <4> QED BY <3>2, <4>1 DEF x, extra
        <3> QED BY <3>1, <3>2
    <2>2. \A i \in 1 .. q * BlockSize : message[i] = w[i] /\ message[i] \in Cells
        <3> DEFINE all == q * BlockSize
        <3>1. all \in Nat /\ n = all + b /\ b \in Nat
            BY <1>5
        <3> HIDE DEF all
        <3>2. \A i \in 1 .. all : i \in 1 .. n
            BY <3>1
        <3>3. \A i \in 1 .. all : message[i] = w[i] /\ message[i] \in Cells
            BY <1>2, <1>4, <3>2, ElementOfSeq DEF n
        <3> QED BY <3>3 DEF all
    <2>3. \A i \in 1 .. x * BlockSize : filled[i] = w[q * BlockSize + i] /\ filled[i] \in Cells
        <3>1. CASE x = 0
            <4>1. x * BlockSize = 0
                BY <1>1, <3>1
            <4> QED BY <4>1
        <3>2. CASE x = 1
            <4>1. x * BlockSize = BlockSize /\ b + c = BlockSize
                BY <1>1, <1>8, <3>2
            <4> QED BY <1>10, <4>1, ElementOfSeq
        <3> QED BY <1>8, <3>1, <3>2
    <2>4. fed = Blocked(message, q)
        BY DEF HashInv, q, n
    <2>5. q \in Nat /\ x \in Nat
        BY <1>5, <1>8
    <2>6. Blocked(message, q) \o Blocked(filled, x) = Blocked(w, q + x)
        <3>1. Stands(message, q * BlockSize, w, 0)
            BY <1>5, <2>2 DEF Stands
        <3>2. Stands(filled, x * BlockSize, w, q * BlockSize)
            BY <2>3 DEF Stands
        <3> QED BY <2>5, <3>1, <3>2, BlocksJoin
    <2> QED BY <2>1, <2>4, <2>6 DEF p
<1>12. /\ rest \in Seq(Cells) /\ Len(rest) = m
       /\ \A i \in 1 .. m : rest[i] = w[n + c + i]
    <2>1. /\ SubSeq(bytes, c + 1, c + m) \in Seq(Cells)
          /\ Len(SubSeq(bytes, c + 1, c + m)) = m
          /\ \A i \in 1 .. m : SubSeq(bytes, c + 1, c + m)[i] = bytes[c + i]
        <3>1. c + m <= Len(bytes)
            BY <1>3, <1>8 DEF l
        <3> QED BY <1>3, <1>8, <3>1, Piece
    <2>2. rest \in Seq(Cells) /\ Len(rest) = m /\ \A i \in 1 .. m : rest[i] = bytes[c + i]
        BY <1>8, <2>1 DEF rest
    <2>3. \A i \in 1 .. m : c + i \in 1 .. l /\ n + (c + i) = n + c + i
        BY <1>2, <1>3, <1>8
    <2>4. \A i \in 1 .. m : w[n + (c + i)] = bytes[c + i]
        BY <1>4, <2>3
    <2> QED BY <2>2, <2>3, <2>4
<1>13. fed' = Blocked(w, p + r)
    <2>1. Hasher!WholeBlocks(rest) = Blocked(rest, r)
        BY <1>12, WholeIsBlocked DEF r
    <2>2. \A i \in 1 .. p * BlockSize : w[i] = w[i] /\ w[i] \in Cells
        <3> DEFINE all == p * BlockSize
        <3>1. all \in Nat /\ n + c = all + kept /\ kept \in Nat
            BY <1>8
        <3> HIDE DEF all
        <3>2. \A i \in 1 .. all : i \in 1 .. Len(w)
            BY <1>2, <1>3, <1>4, <1>8, <3>1
        <3>3. \A i \in 1 .. all : w[i] \in Cells
            BY <1>4, <3>2, ElementOfSeq
        <3> QED BY <3>3 DEF all
    <2>3. \A i \in 1 .. r * BlockSize : rest[i] = w[p * BlockSize + i] /\ rest[i] \in Cells
        <3> DEFINE all == p * BlockSize
                   whole == r * BlockSize
        <3>1. all \in Nat /\ n + c = all + kept /\ kept \in Nat /\ whole \in Nat /\ m = whole + e
            BY <1>8, <1>9
        <3> HIDE DEF all, whole
        <3> SUFFICES ASSUME NEW i \in 1 .. whole
                     PROVE  rest[i] = w[all + i] /\ rest[i] \in Cells
            BY DEF all, whole
        <3>2. i \in 1 .. m /\ m # 0
            BY <1>8, <1>9, <3>1
        <3>3. n + c = all
            BY <1>8, <3>1, <3>2
        <3> QED BY <1>12, <3>2, <3>3, ElementOfSeq
    <2>4. Blocked(w, p) \o Blocked(rest, r) = Blocked(w, p + r)
        <3>1. p \in Nat /\ r \in Nat
            BY <1>8, <1>9
        <3>2. Stands(w, p * BlockSize, w, 0)
            BY <1>8, <2>2 DEF Stands
        <3>3. Stands(rest, r * BlockSize, w, p * BlockSize)
            BY <2>3 DEF Stands
        <3> QED BY <3>1, <3>2, <3>3, BlocksJoin
    <2> QED BY <1>7, <1>11, <2>1, <2>4
<1>14. /\ (n + l) \div BlockSize = p + r /\ (n + l) % BlockSize = kept + e
       /\ n + l = (p + r) * BlockSize + (kept + e) /\ (p + r) * BlockSize \in Nat
       /\ (kept = 0 \/ e = 0) /\ kept + e \in 0 .. BlockSize - 1
       /\ kept # 0 => r = 0
    <2> DEFINE up == p * BlockSize
               whole == r * BlockSize
               all == (p + r) * BlockSize
    <2>1. all = up + whole
        BY <1>1, <1>8, <1>9, SMT
    <2>2. /\ up \in Nat /\ whole \in Nat /\ m = whole + e /\ n + c = up + kept /\ r \in Nat
          /\ r # 0 => whole # 0
        <3>1. r # 0 => r * BlockSize # 0
            BY <1>1, <1>9, SMT
        <3> QED BY <1>8, <1>9, <3>1
    <2> HIDE DEF up, whole, all
    <2>3. /\ n + l = all + (kept + e) /\ all \in Nat
          /\ (kept = 0 \/ e = 0) /\ kept + e \in 0 .. BlockSize - 1
          /\ kept # 0 => r = 0
        BY <1>1, <1>2, <1>3, <1>8, <1>9, <2>1, <2>2, SMT
    <2>4. p + r \in Nat /\ n + l \in Nat
        BY <1>2, <1>3, <1>8, <1>9
    <2>5. (n + l) \div BlockSize = p + r /\ (n + l) % BlockSize = kept + e
        BY <2>3, <2>4, Remainder DEF all
    <2> QED BY <2>3, <2>5 DEF all
<1>15. /\ tail \in Seq(Cells) /\ Len(tail) = e
       /\ \A i \in 1 .. e : tail[i] = rest[m - e + i]
    <2>1. m - e \in Nat /\ e \in Nat /\ m - e + e = m
        BY <1>8, <1>9
    <2>2. /\ SubSeq(rest, m - e + 1, m - e + e) \in Seq(Cells)
          /\ Len(SubSeq(rest, m - e + 1, m - e + e)) = e
          /\ \A i \in 1 .. e : SubSeq(rest, m - e + 1, m - e + e)[i] = rest[m - e + i]
        <3>1. m - e + e <= Len(rest)
            BY <1>8, <1>12, <2>1
        <3> QED BY <1>12, <2>1, <3>1, Piece
    <2>3. tail = SubSeq(rest, m - e + 1, m - e + e)
        BY <1>12, <2>1 DEF tail, e
    <2> QED BY <2>2, <2>3
<1>16. /\ over \in Seq(Cells) /\ Len(over) = BlockSize
       /\ \A i \in 1 .. kept + e : over[i] = w[(p + r) * BlockSize + i]
    <2>1. /\ over \in Seq(Cells) /\ Len(over) = BlockSize
          /\ \A i \in 1 .. BlockSize :
                over[i] = IF i \in kept + 1 .. kept + e THEN tail[i - kept] ELSE filled[i]
        <3>1. kept \in Nat
            BY <1>8
        <3> QED BY <1>10, <1>15, <3>1, OverlayCells DEF over
    <2> DEFINE all == (p + r) * BlockSize
    <2>2. all \in Nat /\ n + l = all + (kept + e)
        BY <1>14
    <2>3. ASSUME NEW i \in 1 .. kept + e
          PROVE  over[i] = w[all + i]
        <3>1. i \in 1 .. BlockSize
            BY <1>1, <1>14
        <3>2. CASE kept = 0
            <4>1. i \in kept + 1 .. kept + e /\ i - kept = i /\ i \in 1 .. e
                BY <1>9, <3>2
            <4>2. over[i] = rest[m - e + i]
                BY <1>15, <2>1, <3>1, <4>1
            <4>3. m - e + i \in 1 .. m
                BY <1>8, <1>9, <4>1
            <4>4. over[i] = w[n + c + (m - e + i)]
                BY <1>12, <4>2, <4>3
            <4> HIDE DEF all
            <4>5. n + c + (m - e + i) = all + i
                <5>1. c + m = l /\ c \in Nat /\ m \in Nat /\ e \in Nat
                    BY <1>8, <1>9
                <5> QED BY <1>2, <2>2, <3>2, <4>1, <5>1, SMT
            <4> QED BY <4>4, <4>5
        <3>3. CASE kept # 0
            <4>1. e = 0 /\ r = 0 /\ x = 0 /\ kept = b + c
                BY <1>8, <1>14, <3>3
            <4>2. over[i] = filled[i] /\ i \in 1 .. b + c
                BY <1>8, <2>1, <3>1, <4>1
            <4>3. p + r = q
                BY <1>5, <1>8, <4>1 DEF p
            <4>4. over[i] = w[q * BlockSize + i]
                BY <1>10, <4>2
            <4> QED BY <4>3, <4>4
        <3> QED BY <3>2, <3>3
    <2> QED BY <2>1, <2>3
<1>17. total_bytes_' = n + l
    <2> DEFINE cap == ByteValues ^ LengthSize
               most == MaxBytes * BitsPerByte
    <2>1. cap \in Nat /\ most < cap /\ BitsPerByte \in Nat \ {0}
        BY HasherAssumption
    <2>2. total_bytes_ = n
        BY DEF HashInv, n
    <2>3. MaxBytes <= most /\ most \in Nat
        BY <1>2, <2>1, SMT
    <2>4. total_bytes_' = (n + l) % cap
        BY <1>7, <2>2
    <2> HIDE DEF cap, most
    <2>5. n + l \in Nat /\ cap \in Nat \ {0} /\ n + l < cap
        BY <1>2, <1>3, <2>1, <2>3
    <2> QED BY <2>4, <2>5, SMT
<1> QED
    <2>1. message' = w /\ Len(message') = n + l
        BY <1>4, <1>7
    <2>2. message' \in Seq(Cells) /\ Len(message') <= MaxBytes
        BY <1>3, <1>4, <2>1
    <2>3. fed' = Blocked(message', Len(message') \div BlockSize)
        BY <1>13, <1>14, <2>1
    <2>4. buffer_' \in Seq(Cells) /\ Len(buffer_') = BlockSize
        BY <1>7, <1>16
    <2>5. buffered_bytes_' = kept + e /\ buffered_bytes_' = Len(message') % BlockSize
        BY <1>7, <1>14, <1>15, <2>1
    <2>6. \A i \in 1 .. buffered_bytes_' :
            buffer_'[i] = message'[(Len(message') \div BlockSize) * BlockSize + i]
        BY <1>7, <1>14, <1>16, <2>1, <2>5
    <2>7. total_bytes_' = Len(message')
        BY <1>17, <2>1
    <2> QED BY <2>2, <2>3, <2>4, <2>5, <2>6, <2>7 DEF HashInv, Blocked

LEMMA AlwaysHashInv == Hasher!Spec => []HashInv
<1>1. BlockSize \in Nat \ {0}
    BY HasherAssumption
<1>2. ASSUME Hasher!Init
      PROVE  HashInv
    <2>1. /\ message = <<>> /\ fed = <<>> /\ buffered_bytes_ = 0 /\ total_bytes_ = 0
          /\ buffer_ = [i \in 1 .. BlockSize |-> 0]
        BY <1>2 DEF Hasher!Init, Hasher!Zeros
    <2>2. message \in Seq(Cells) /\ Len(message) = 0 /\ 0 <= MaxBytes
        BY <2>1, HasherAssumption
    <2>3. 0 \div BlockSize = 0 /\ 0 % BlockSize = 0
        BY <1>1, SMT
    <2>4. Blocked(message, 0) = <<>>
        BY DEF Blocked
    <2>5. buffer_ \in Seq(Cells) /\ Len(buffer_) = BlockSize
        <3>1. buffer_ \in [1 .. BlockSize -> Cells]
            BY <2>1 DEF Cells
        <3> QED BY <1>1, <3>1
    <2>6. \A i \in 1 .. buffered_bytes_ : FALSE
        BY <2>1
    <2> QED BY <2>1, <2>2, <2>3, <2>4, <2>5, <2>6 DEF HashInv
<1>3. ASSUME HashInv, [Hasher!Next]_Hasher!vars
      PROVE  HashInv'
    <2>1. CASE Hasher!Next
        <3>1. PICK bytes \in Hasher!Chunks : Hasher!Update(bytes)
            BY <2>1 DEF Hasher!Next
        <3> QED BY <1>3, <3>1, UpdateStep
    <2>2. CASE UNCHANGED Hasher!vars
        BY <1>3, <2>2 DEF Hasher!vars, HashInv, Blocked
    <2> QED BY <1>3, <2>1, <2>2
<1> QED BY <1>2, <1>3, PTL DEF Hasher!Spec

-----------------------------------------------------------------------------

\* The zeros of the standard padding.
ZerosOf(n) ==
    CHOOSE z \in 0 .. BlockSize - 1 : (n + 1 + z + LengthSize) % BlockSize = 0

\* finalize() pads to one block or to two, and leaves the zeros between that
\* the standard asks for.
LEMMA PaddingFits ==
    ASSUME HashInv
    PROVE  LET n == Len(message)
               b == buffered_bytes_
               size == Hasher!PaddedSize
               all == (n \div BlockSize) * BlockSize
           IN /\ all \in Nat /\ b \in 0 .. BlockSize - 1 /\ n = all + b
              /\ size \in {BlockSize, 2 * BlockSize}
              /\ ZerosOf(n) = size - LengthSize - b - 1
              /\ ZerosOf(n) \in Nat
<1> DEFINE n == Len(message)
           b == buffered_bytes_
           size == Hasher!PaddedSize
           q == n \div BlockSize
           all == q * BlockSize
           z == size - LengthSize - b - 1
<1>1. BlockSize \in Nat \ {0} /\ LengthSize \in 0 .. BlockSize /\ n \in Nat
    BY HasherAssumption DEF HashInv
<1>2. q \in Nat /\ b \in 0 .. BlockSize - 1 /\ n = BlockSize * q + b
    <2>1. b = n % BlockSize
        BY DEF HashInv
    <2> QED BY <1>1, <2>1, DivMod
<1>3. size = IF b < BlockSize - LengthSize THEN BlockSize ELSE 2 * BlockSize
    BY DEF Hasher!PaddedSize
<1> DEFINE u == IF b < BlockSize - LengthSize THEN 1 ELSE 2
<1>4. size = u * BlockSize /\ u \in {1, 2}
    BY <1>1, <1>3, SMT
<1>5. z = size - LengthSize - b - 1
    OBVIOUS
<1>6. all \in Nat /\ n = all + b /\ all = q * BlockSize
    <2> HIDE DEF q, n
    <2> QED BY <1>1, <1>2, SMT
<1> HIDE DEF z, size
<1>7. z \in 0 .. BlockSize - 1
    <2> HIDE DEF n, b
    <2> QED BY <1>1, <1>2, <1>3, <1>5, SMT
<1> HIDE DEF n, b, q, all
<1>8. n + 1 + z + LengthSize = (q + u) * BlockSize + 0
    <2>1. (q + u) * BlockSize = all + size
        <3> HIDE DEF u
        <3>1. (q + u) * BlockSize = q * BlockSize + u * BlockSize
            BY <1>1, <1>2, <1>4, SMT
        <3> QED BY <1>4, <1>6, <3>1
    <2>2. n + 1 + z + LengthSize = all + size
        BY <1>1, <1>2, <1>3, <1>5, <1>6, <1>7, SMT
    <2>3. all + size \in Nat
        BY <1>1, <1>3, <1>6
    <2> QED BY <2>1, <2>2, <2>3
<1>9. (n + 1 + z + LengthSize) % BlockSize = 0
    <2>1. q + u \in Nat /\ n + 1 + z + LengthSize \in Nat /\ 0 \in 0 .. BlockSize - 1
        BY <1>1, <1>2, <1>7
    <2> QED BY <1>8, <2>1, Remainder
<1>10. ASSUME NEW y \in 0 .. BlockSize - 1, (n + 1 + y + LengthSize) % BlockSize = 0
       PROVE  y = z
    <2> DEFINE a == n + 1 + y + LengthSize
               d == a \div BlockSize
               f == n + 1 + z + LengthSize
               g == f \div BlockSize
    <2>1. a \in Nat /\ f \in Nat
        BY <1>1, <1>7
    <2>2. a = BlockSize * d + 0 /\ d \in Nat /\ f = BlockSize * g + 0 /\ g \in Nat
        BY <1>1, <1>9, <1>10, <2>1, DivMod
    <2>3. a - f = y - z
        BY <1>1, <1>7
    <2> HIDE DEF a, d, f, g
    <2>4. CASE d < g
        <3>1. (d + 1) * BlockSize <= g * BlockSize /\ (d + 1) * BlockSize = BlockSize * d + BlockSize
              /\ g * BlockSize = BlockSize * g
            BY <1>1, <2>2, <2>4, SMT
        <3>2. a + BlockSize <= f
            BY <1>1, <2>1, <2>2, <3>1, SMT
        <3> QED BY <1>1, <1>7, <2>1, <2>3, <3>2, SMT
    <2>5. CASE g < d
        <3>1. (g + 1) * BlockSize <= d * BlockSize /\ (g + 1) * BlockSize = BlockSize * g + BlockSize
              /\ d * BlockSize = BlockSize * d
            BY <1>1, <2>2, <2>5, SMT
        <3>2. f + BlockSize <= a
            BY <1>1, <2>1, <2>2, <3>1, SMT
        <3> QED BY <1>1, <1>7, <2>1, <2>3, <3>2, SMT
    <2>6. CASE d = g
        <3>1. a = f
            BY <2>2, <2>6
        <3> QED BY <1>7, <2>1, <2>3, <3>1, SMT
    <2> QED BY <2>2, <2>4, <2>5, <2>6, SMT
<1>11. ZerosOf(n) = z
    BY <1>7, <1>9, <1>10 DEF ZerosOf
<1>12. size \in {BlockSize, 2 * BlockSize}
    BY <1>3
<1> QED BY <1>2, <1>5, <1>6, <1>7, <1>11, <1>12 DEF n, b, q, all, size

LEMMA LengthDigits ==
    ASSUME NEW n \in Nat
    PROVE  /\ Hasher!BigEndian(n) \in Seq(Cells)
           /\ Len(Hasher!BigEndian(n)) = LengthSize
<1> DEFINE f == Hasher!BigEndian(n)
<1>1. LengthSize \in Nat
    BY HasherAssumption
<1>2. f = [i \in 1 .. LengthSize |-> f[i]]
    BY DEF Hasher!BigEndian
<1>3. \A i \in 1 .. LengthSize : f[i] \in Cells
    BY DEF Cells
<1> HIDE DEF f
<1>4. f \in [1 .. LengthSize -> Cells]
    BY <1>2, <1>3
<1>5. f \in Seq(Cells) /\ Len(f) = LengthSize
    BY <1>1, <1>4
<1> QED BY <1>5 DEF f

LEMMA Joined ==
    ASSUME NEW S, NEW s \in Seq(S), NEW t \in Seq(S)
    PROVE  /\ s \o t \in Seq(S) /\ Len(s \o t) = Len(s) + Len(t)
           /\ \A i \in 1 .. Len(s) : (s \o t)[i] = s[i]
           /\ \A i \in 1 .. Len(t) : (s \o t)[Len(s) + i] = t[i]
BY SMT

\* The cells of the padded message.
LEMMA PaddedCells ==
    ASSUME HashInv
    PROVE  LET w == Hasher!Padded(message)
               n == Len(message)
               z == ZerosOf(n)
           IN /\ w \in Seq(Cells) /\ Len(w) = n + 1 + z + LengthSize
              /\ \A i \in 1 .. n : w[i] = message[i]
              /\ w[n + 1] = Marker
              /\ \A i \in 1 .. z : w[n + 1 + i] = 0
              /\ \A i \in 1 .. LengthSize :
                    w[n + 1 + z + i] = Hasher!BigEndian(n * BitsPerByte)[i]
<1> DEFINE n == Len(message)
           z == ZerosOf(n)
           end == Hasher!BigEndian(n * BitsPerByte)
           zeros == Hasher!Zeros(z)
           s == message \o <<Marker>>
           t == s \o zeros
           w == Hasher!Padded(message)
<1>1. /\ message \in Seq(Cells) /\ n \in Nat /\ n * BitsPerByte \in Nat /\ LengthSize \in Nat
      /\ z \in Nat
    <2>1. message \in Seq(Cells) /\ n \in Nat /\ BitsPerByte \in Nat /\ LengthSize \in Nat
        BY HasherAssumption DEF HashInv
    <2>2. z \in Nat
        BY PaddingFits
    <2> HIDE DEF n, z
    <2>3. n * BitsPerByte \in Nat
        BY <2>1, SMT
    <2> QED BY <2>1, <2>2, <2>3
<1>2. w = t \o end
    BY DEF Hasher!Padded, ZerosOf
<1> HIDE DEF w, z
<1>3. end \in Seq(Cells) /\ Len(end) = LengthSize
    BY <1>1, LengthDigits
<1>4. zeros \in Seq(Cells) /\ Len(zeros) = z /\ \A i \in 1 .. z : zeros[i] = 0
    <2>1. zeros = [i \in 1 .. z |-> 0]
        BY DEF Hasher!Zeros
    <2> HIDE DEF zeros
    <2>2. zeros \in [1 .. z -> Cells] /\ \A i \in 1 .. z : zeros[i] = 0
        BY <2>1 DEF Cells
    <2> QED BY <1>1, <2>2
<1>5. <<Marker>> \in Seq(Cells) /\ Len(<<Marker>>) = 1 /\ <<Marker>>[1] = Marker
    BY DEF Cells
<1> HIDE DEF end, zeros, n
<1>6. /\ s \in Seq(Cells) /\ Len(s) = n + 1
      /\ \A i \in 1 .. n : s[i] = message[i]
      /\ s[n + 1] = Marker
    BY <1>1, <1>5 DEF n
<1> HIDE DEF s
<1>7. /\ t \in Seq(Cells) /\ Len(t) = n + 1 + z
      /\ \A i \in 1 .. n + 1 : t[i] = s[i]
      /\ \A i \in 1 .. z : t[n + 1 + i] = zeros[i]
    BY <1>1, <1>4, <1>6
<1> HIDE DEF t
<1>8. /\ w \in Seq(Cells) /\ Len(w) = n + 1 + z + LengthSize
      /\ \A i \in 1 .. n + 1 + z : w[i] = t[i]
      /\ \A i \in 1 .. LengthSize : w[n + 1 + z + i] = end[i]
    <2>1. /\ t \o end \in Seq(Cells) /\ Len(t \o end) = Len(t) + Len(end)
          /\ \A i \in 1 .. Len(t) : (t \o end)[i] = t[i]
          /\ \A i \in 1 .. Len(end) : (t \o end)[Len(t) + i] = end[i]
        <3>1. t \in Seq(Cells) /\ end \in Seq(Cells)
            BY <1>3, <1>7
        <3> QED BY ONLY <3>1, Joined
    <2> QED BY <1>2, <1>3, <1>7, <2>1
<1>9. \A i \in 1 .. n : i \in 1 .. n + 1 /\ i \in 1 .. n + 1 + z
    BY <1>1
<1>10. n + 1 \in 1 .. n + 1 /\ n + 1 \in 1 .. n + 1 + z
    BY <1>1
<1>11. \A i \in 1 .. z : n + 1 + i \in 1 .. n + 1 + z
    BY <1>1
<1>12. \A i \in 1 .. n : w[i] = message[i]
    BY <1>6, <1>7, <1>8, <1>9
<1>13. w[n + 1] = Marker
    BY <1>6, <1>7, <1>8, <1>10
<1>14. \A i \in 1 .. z : w[n + 1 + i] = 0
    BY <1>4, <1>7, <1>8, <1>11
<1> QED BY <1>8, <1>12, <1>13, <1>14 DEF w, z, n, end

\* The last one or two blocks of finalize() are the end of the padded message,
\* whatever the buffer holds behind its buffered bytes.
LEMMA LastBlocks ==
    ASSUME HashInv
    PROVE  LET b == buffered_bytes_
               size == Hasher!PaddedSize
               bits == (total_bytes_ * BitsPerByte) % ByteValues ^ LengthSize
               marked == Hasher!Overlay(Hasher!TailBlocks, b, <<Marker>>)
               padded == Hasher!Overlay(marked, size - LengthSize, Hasher!BigEndian(bits))
           IN /\ padded \in Seq(Cells) /\ Len(padded) = 2 * BlockSize
              /\ \A i \in 1 .. size :
                    padded[i] = Hasher!Padded(message)[(Len(message) \div BlockSize) * BlockSize + i]
<1> DEFINE n == Len(message)
           b == buffered_bytes_
           size == Hasher!PaddedSize
           all == (n \div BlockSize) * BlockSize
           z == ZerosOf(n)
           w == Hasher!Padded(message)
           bits == (total_bytes_ * BitsPerByte) % ByteValues ^ LengthSize
           end == Hasher!BigEndian(n * BitsPerByte)
           begin == SubSeq(buffer_, 1, b)
           blank == Hasher!Zeros(2 * BlockSize)
           plain == Hasher!TailBlocks
           marked == Hasher!Overlay(plain, b, <<Marker>>)
           padded == Hasher!Overlay(marked, size - LengthSize, Hasher!BigEndian(bits))
<1>1. /\ BlockSize \in Nat \ {0} /\ LengthSize \in 0 .. BlockSize /\ n \in Nat
      /\ all \in Nat /\ b \in 0 .. BlockSize - 1 /\ n = all + b
      /\ size \in {BlockSize, 2 * BlockSize} /\ z = size - LengthSize - b - 1 /\ z \in Nat
    BY PaddingFits, HasherAssumption DEF HashInv
<1>2. bits = n * BitsPerByte
    <2> DEFINE cap == ByteValues ^ LengthSize
               most == MaxBytes * BitsPerByte
               now == n * BitsPerByte
    <2>1. cap \in Nat /\ most < cap /\ BitsPerByte \in Nat /\ MaxBytes \in Nat /\ n <= MaxBytes
        BY HasherAssumption DEF HashInv
    <2>2. bits = now % cap
        BY DEF HashInv
    <2>3. now <= most /\ now \in Nat /\ most \in Nat
        <3> HIDE DEF n
        <3> QED BY <1>1, <2>1, SMT
    <2> HIDE DEF cap, most, now, bits
    <2>4. now \in Nat /\ cap \in Nat \ {0} /\ now < cap
        BY <2>1, <2>3
    <2>5. bits = now
        BY <2>2, <2>4, SMT
    <2> QED BY <2>5 DEF now
<1>3. /\ w \in Seq(Cells)
      /\ \A i \in 1 .. n : w[i] = message[i]
      /\ w[n + 1] = Marker
      /\ \A i \in 1 .. z : w[n + 1 + i] = 0
      /\ \A i \in 1 .. LengthSize : w[n + 1 + z + i] = end[i]
    BY PaddedCells
<1>4. end \in Seq(Cells) /\ Len(end) = LengthSize
    <2>1. n * BitsPerByte \in Nat
        <3>1. BitsPerByte \in Nat
            BY HasherAssumption
        <3> HIDE DEF n
        <3> QED BY <1>1, <3>1, SMT
    <2> QED BY <2>1, LengthDigits
<1>5. begin \in Seq(Cells) /\ Len(begin) = b /\ \A i \in 1 .. b : begin[i] = message[all + i]
    <2>1. /\ buffer_ \in Seq(Cells) /\ Len(buffer_) = BlockSize
          /\ \A i \in 1 .. b : buffer_[i] = message[all + i]
        BY DEF HashInv
    <2>2. /\ SubSeq(buffer_, 0 + 1, 0 + b) \in Seq(Cells)
          /\ Len(SubSeq(buffer_, 0 + 1, 0 + b)) = b
          /\ \A i \in 1 .. b : SubSeq(buffer_, 0 + 1, 0 + b)[i] = buffer_[0 + i]
        <3>1. 0 \in Nat /\ b \in Nat /\ 0 + b <= Len(buffer_)
            BY <1>1, <2>1
        <3> QED BY <2>1, <3>1, Piece
    <2>3. 0 + 1 = 1 /\ 0 + b = b /\ \A i \in 1 .. b : 0 + i = i
        BY <1>1
    <2> QED BY <2>1, <2>2, <2>3
<1>6. blank \in Seq(Cells) /\ Len(blank) = 2 * BlockSize /\ \A i \in 1 .. 2 * BlockSize : blank[i] = 0
    <2>1. blank = [i \in 1 .. 2 * BlockSize |-> 0]
        BY DEF Hasher!Zeros
    <2> HIDE DEF blank
    <2>2. blank \in [1 .. 2 * BlockSize -> Cells] /\ \A i \in 1 .. 2 * BlockSize : blank[i] = 0
        BY <2>1 DEF Cells
    <2>3. 2 * BlockSize \in Nat
        BY <1>1
    <2> QED BY <2>2, <2>3
<1>7. plain = Hasher!Overlay(blank, 0, begin)
    BY DEF Hasher!TailBlocks
<1> HIDE DEF n, b, size, all, z, w, end, begin, blank, plain
<1>8. /\ plain \in Seq(Cells) /\ Len(plain) = 2 * BlockSize
      /\ \A i \in 1 .. 2 * BlockSize :
            plain[i] = IF i \in 0 + 1 .. 0 + b THEN begin[i - 0] ELSE blank[i]
    <2>1. 0 \in Nat
        OBVIOUS
    <2> QED BY <1>5, <1>6, <1>7, <2>1, OverlayCells
<1> DEFINE mark == <<Marker>>
<1>9. mark \in Seq(Cells) /\ Len(mark) = 1 /\ mark[1] = Marker
    BY DEF Cells
<1>10. /\ marked \in Seq(Cells) /\ Len(marked) = 2 * BlockSize
       /\ \A i \in 1 .. 2 * BlockSize :
            marked[i] = IF i \in b + 1 .. b + 1 THEN mark[i - b] ELSE plain[i]
    <2>1. b \in Nat
        BY <1>1
    <2> HIDE DEF mark
    <2>2. marked = Hasher!Overlay(plain, b, mark)
        BY DEF marked, mark
    <2> HIDE DEF marked
    <2>3. /\ marked \in Seq(Cells) /\ Len(marked) = Len(plain)
          /\ \A i \in 1 .. Len(plain) :
                marked[i] = IF i \in b + 1 .. b + Len(mark) THEN mark[i - b] ELSE plain[i]
        <3>1. plain \in Seq(Cells) /\ mark \in Seq(Cells)
            BY <1>8, <1>9
        <3> QED BY ONLY <2>1, <2>2, <3>1, OverlayCells
    <2> QED BY <1>8, <1>9, <2>3
<1>11. padded = Hasher!Overlay(marked, size - LengthSize, end)
    BY <1>2 DEF end
<1> HIDE DEF marked, padded, bits, mark
<1> DEFINE at == size - LengthSize
<1>12. at \in Nat /\ at = b + 1 + z /\ at + LengthSize = size
    BY <1>1
<1>13. /\ padded \in Seq(Cells) /\ Len(padded) = 2 * BlockSize
       /\ \A i \in 1 .. 2 * BlockSize :
            padded[i] = IF i \in at + 1 .. at + LengthSize THEN end[i - at] ELSE marked[i]
    <2>1. padded = Hasher!Overlay(marked, at, end)
        BY <1>11
    <2> HIDE DEF at
    <2> QED BY <1>4, <1>10, <1>12, <2>1, OverlayCells
<1> HIDE DEF at
<1>14. ASSUME NEW i \in 1 .. size
       PROVE  padded[i] = w[all + i]
    <2>1. i \in 1 .. 2 * BlockSize /\ i \in Nat
        BY <1>1
    <2>2. CASE i <= b
        <3>1. /\ ~ (i \in at + 1 .. at + LengthSize) /\ ~ (i \in b + 1 .. b + 1)
              /\ i \in 0 + 1 .. 0 + b /\ i - 0 = i /\ i \in 1 .. b /\ all + i \in 1 .. n
            BY <1>1, <1>12, <2>1, <2>2
        <3>2. padded[i] = plain[i]
            BY <1>10, <1>13, <2>1, <3>1
        <3>3. plain[i] = begin[i]
            BY <1>8, <2>1, <3>1
        <3> QED BY <1>3, <1>5, <3>1, <3>2, <3>3
    <2>3. CASE i = b + 1
        <3>1. /\ ~ (i \in at + 1 .. at + LengthSize) /\ i \in b + 1 .. b + 1 /\ i - b = 1
              /\ all + i = n + 1
            BY <1>1, <1>12, <2>1, <2>3
        <3>2. padded[i] = mark[1]
            BY <1>10, <1>13, <2>1, <3>1
        <3> QED BY <1>3, <1>9, <3>1, <3>2
    <2>4. CASE b + 1 < i /\ i <= at
        <3> DEFINE j == i - b - 1
        <3>1. /\ ~ (i \in at + 1 .. at + LengthSize) /\ ~ (i \in b + 1 .. b + 1)
              /\ ~ (i \in 0 + 1 .. 0 + b) /\ j \in 1 .. z /\ all + i = n + 1 + j
            BY <1>1, <1>12, <2>1, <2>4
        <3>2. padded[i] = blank[i]
            BY <1>8, <1>10, <1>13, <2>1, <3>1
        <3> HIDE DEF j
        <3>3. padded[i] = 0
            BY <1>6, <2>1, <3>2
        <3>4. w[n + 1 + j] = 0
            BY <1>3, <3>1
        <3> QED BY <3>1, <3>3, <3>4
    <2>5. CASE at < i
        <3> DEFINE j == i - at
        <3>1. i \in at + 1 .. at + LengthSize /\ j \in 1 .. LengthSize /\ all + i = n + 1 + z + j
            BY <1>1, <1>12, <2>1, <2>5
        <3>2. padded[i] = end[j]
            BY <1>13, <2>1, <3>1
        <3> HIDE DEF j
        <3> QED BY <1>3, <3>1, <3>2
    <2> QED BY <1>1, <1>12, <2>1, <2>2, <2>3, <2>4, <2>5
<1> QED BY <1>13, <1>14 DEF n, b, size, all, z, w, plain, marked, padded, bits

\* What finalize() hashes, cell by cell.
LEMMA FinalizedBlocks ==
    ASSUME HashInv
    PROVE  LET w == Hasher!Padded(message)
               u == Len(w) \div BlockSize
           IN /\ w \in Seq(Cells) /\ u \in Nat /\ Len(w) = u * BlockSize
              /\ Hasher!Finalized = Blocked(w, u)
              /\ Hasher!WholeBlocks(w) = Blocked(w, u)
<1> DEFINE n == Len(message)
           b == buffered_bytes_
           q == n \div BlockSize
           all == q * BlockSize
           size == Hasher!PaddedSize
           r == IF size = BlockSize THEN 1 ELSE 2
           z == ZerosOf(n)
           w == Hasher!Padded(message)
           bits == (total_bytes_ * BitsPerByte) % ByteValues ^ LengthSize
           marked == Hasher!Overlay(Hasher!TailBlocks, b, <<Marker>>)
           padded == Hasher!Overlay(marked, size - LengthSize, Hasher!BigEndian(bits))
           last == SubSeq(padded, 1, size)
<1>1. /\ BlockSize \in Nat \ {0} /\ LengthSize \in 0 .. BlockSize /\ n \in Nat
      /\ all \in Nat /\ b \in 0 .. BlockSize - 1 /\ n = all + b
      /\ size \in {BlockSize, 2 * BlockSize} /\ z = size - LengthSize - b - 1 /\ z \in Nat
    BY PaddingFits, HasherAssumption DEF HashInv
<1>2. q \in Nat
    BY <1>1, DivMod
<1>3. /\ w \in Seq(Cells) /\ Len(w) = n + 1 + z + LengthSize
      /\ \A i \in 1 .. n : w[i] = message[i]
    BY PaddedCells
<1>4. /\ padded \in Seq(Cells) /\ Len(padded) = 2 * BlockSize
      /\ \A i \in 1 .. size : padded[i] = w[all + i]
    BY LastBlocks
<1>5. Hasher!Finalized = fed \o Hasher!WholeBlocks(last)
    BY DEF Hasher!Finalized
<1>6. fed = Blocked(message, q) /\ message \in Seq(Cells)
    BY DEF HashInv
<1>7. r \in Nat /\ r * BlockSize = size /\ size \in Nat /\ size <= 2 * BlockSize
    <2> HIDE DEF size
    <2> QED BY <1>1, SMT
<1> HIDE DEF n, b, all, size, z, w, padded, q, r
<1>8. Len(w) = all + size /\ Len(w) \in Nat
    BY <1>1, <1>3
<1>9. last \in Seq(Cells) /\ Len(last) = size /\ \A i \in 1 .. size : last[i] = padded[i]
    <2>1. /\ SubSeq(padded, 0 + 1, 0 + size) \in Seq(Cells)
          /\ Len(SubSeq(padded, 0 + 1, 0 + size)) = size
          /\ \A i \in 1 .. size : SubSeq(padded, 0 + 1, 0 + size)[i] = padded[0 + i]
        <3>1. 0 \in Nat /\ 0 + size <= Len(padded)
            BY <1>4, <1>7
        <3> QED BY <1>4, <1>7, <3>1, Piece
    <2>2. 0 + 1 = 1 /\ 0 + size = size /\ \A i \in 1 .. size : 0 + i = i
        BY <1>7
    <2> QED BY <2>1, <2>2
<1> HIDE DEF last
<1>10. Hasher!WholeBlocks(last) = Blocked(last, r)
    <2>1. size = r * BlockSize + 0 /\ 0 \in 0 .. BlockSize - 1
        BY <1>1, <1>7
    <2>2. size \div BlockSize = r
        BY <1>7, <2>1, Remainder
    <2> QED BY <1>9, <2>2, WholeIsBlocked
<1>11. Blocked(message, q) \o Blocked(last, r) = Blocked(w, q + r)
    <2>1. Stands(message, q * BlockSize, w, 0)
        <3>1. \A i \in 1 .. all : i \in 1 .. n /\ 0 + i = i
            BY <1>1
        <3>2. \A i \in 1 .. all : message[i] = w[0 + i] /\ message[i] \in Cells
            BY <1>3, <1>6, <3>1, ElementOfSeq DEF n
        <3> QED BY <3>2 DEF Stands, all
    <2>2. Stands(last, r * BlockSize, w, q * BlockSize)
        <3>1. \A i \in 1 .. size : last[i] = w[all + i] /\ last[i] \in Cells
            BY <1>4, <1>9, ElementOfSeq
        <3> QED BY <1>7, <3>1 DEF Stands, all
    <2> QED BY <1>2, <1>7, <2>1, <2>2, BlocksJoin
<1>12. Len(w) = (q + r) * BlockSize /\ Len(w) \div BlockSize = q + r
    <2>1. (q + r) * BlockSize = all + size
        <3>1. (q + r) * BlockSize = q * BlockSize + r * BlockSize
            BY <1>1, <1>2, <1>7, SMT
        <3> QED BY <1>7, <3>1 DEF all
    <2>2. Len(w) = (q + r) * BlockSize + 0 /\ 0 \in 0 .. BlockSize - 1 /\ q + r \in Nat
        BY <1>1, <1>2, <1>7, <1>8, <2>1
    <2> QED BY <1>8, <2>1, <2>2, Remainder
<1>13. Hasher!WholeBlocks(w) = Blocked(w, q + r)
    BY <1>3, <1>12, WholeIsBlocked
<1>14. q + r \in Nat
    BY <1>2, <1>7
<1> QED BY <1>3, <1>5, <1>6, <1>10, <1>11, <1>12, <1>13, <1>14 DEF w

\* The last bytes are the length, they lie behind the message, and the message is
\* what comes first.
LEMMA MessageComesBack ==
    ASSUME HashInv
    PROVE  Hasher!MessageRecoverable
<1> DEFINE n == Len(message)
           w == Hasher!Padded(message)
           u == Len(w) \div BlockSize
           z == ZerosOf(n)
           size == Len(Hasher!Finalized) * BlockSize
           Cell(i) == Hasher!Finalized[1 + ((i - 1) \div BlockSize)][1 + ((i - 1) % BlockSize)]
           end == Hasher!BigEndian(n * BitsPerByte)
<1>1. /\ BlockSize \in Nat \ {0} /\ LengthSize \in Nat /\ n \in Nat /\ z \in Nat
    BY PaddingFits, HasherAssumption DEF HashInv
<1>2. /\ w \in Seq(Cells) /\ u \in Nat /\ Len(w) = u * BlockSize
      /\ Hasher!Finalized = Blocked(w, u)
    BY FinalizedBlocks
<1>3. /\ Len(w) = n + 1 + z + LengthSize
      /\ \A i \in 1 .. n : w[i] = message[i]
      /\ \A i \in 1 .. LengthSize : w[n + 1 + z + i] = end[i]
    BY PaddedCells
<1> HIDE DEF n, w, u, z, end
<1>4. size = Len(w)
    <2>1. Len(Blocked(w, u)) = u
        BY <1>2 DEF Blocked
    <2> QED BY <1>2, <2>1
<1>5. ASSUME NEW i \in 1 .. Len(w)
      PROVE  Cell(i) = w[i]
    <2> DEFINE k == (i - 1) \div BlockSize
               m == (i - 1) % BlockSize
    <2>1. i - 1 \in Nat /\ i - 1 < u * BlockSize
        BY <1>2
    <2>2. k \in Nat /\ m \in 0 .. BlockSize - 1 /\ i - 1 = BlockSize * k + m
        BY <1>1, <2>1, DivMod
    <2> HIDE DEF k, m
    <2>3. k < u
        <3>1. ASSUME u <= k
              PROVE  FALSE
            <4>1. u * BlockSize <= k * BlockSize /\ k * BlockSize = BlockSize * k
                BY <1>1, <1>2, <2>2, <3>1, SMT
            <4> QED BY <1>1, <1>2, <2>1, <2>2, <4>1, SMT
        <3> QED BY <1>2, <2>2, <3>1
    <2> DEFINE h == 1 + k
               j == 1 + m
    <2>4. h \in 1 .. u /\ j \in 1 .. BlockSize /\ h - 1 = k
        BY <1>1, <1>2, <2>2, <2>3
    <2>5. (h - 1) * BlockSize + j = i
        <3> DEFINE a == k * BlockSize
        <3>1. a \in Nat /\ i - 1 = a + m
            BY <1>1, <2>2, SMT
        <3> HIDE DEF a
        <3>2. a + j = i
            BY <2>2, <3>1
        <3> QED BY <2>4, <3>2 DEF a
    <2> HIDE DEF h, j
    <2>6. Blocked(w, u)[h][j] = w[(h - 1) * BlockSize + j]
        BY <2>4 DEF Blocked
    <2> QED BY <1>2, <2>5, <2>6 DEF h, j, k, m
<1> DEFINE digits == [i \in 1 .. LengthSize |-> Cell(size - LengthSize + i)]
<1>6. digits = end
    <2>1. \A i \in 1 .. LengthSize :
            size - LengthSize + i = n + 1 + z + i /\ n + 1 + z + i \in 1 .. Len(w)
        BY <1>1, <1>3, <1>4
    <2>2. \A i \in 1 .. LengthSize : Cell(size - LengthSize + i) = w[n + 1 + z + i]
        <3> HIDE DEF size, Cell
        <3> QED BY <1>5, <2>1
    <2>3. end = [i \in 1 .. LengthSize |-> end[i]]
        BY DEF end, Hasher!BigEndian
    <2> HIDE DEF Cell, size
    <2>4. digits = [i \in 1 .. LengthSize |-> end[i]]
        BY <1>3, <2>2
    <2> QED BY <2>3, <2>4
<1>7. n < size - LengthSize
    BY <1>1, <1>3, <1>4
<1>8. \A i \in 1 .. n : Cell(i) = message[i]
    <2>1. \A i \in 1 .. n : i \in 1 .. Len(w)
        BY <1>1, <1>3
    <2> HIDE DEF Cell
    <2> QED BY <1>3, <1>5, <2>1
<1> QED BY <1>6, <1>7, <1>8 DEF Hasher!MessageRecoverable, n, end

\* However the bytes of a message are cut into calls of update(), finalize()
\* hands transform the message with the padding of FIPS 180-4, and these blocks
\* determine the message: run_spec_hash, durable_run_id and the trace hash do not
\* depend on how their text was put together.
THEOREM HashIsOfMessage == Hasher!Spec => []DigestOfMessage
<1>1. HashInv => Hasher!DigestOfMessage
    BY FinalizedBlocks DEF Hasher!DigestOfMessage
<1>2. HashInv => DigestOfMessage
    BY <1>1, MessageComesBack DEF DigestOfMessage
<1> QED BY <1>2, AlwaysHashInv, PTL
=============================================================================
