---------------------------- MODULE BlockLayout ----------------------------
(***************************************************************************)
(* How a run is cut into blocks (src/runtime/engine.cpp), and the checks   *)
(* that later code makes of the cut: make_coordinator_state, compute_block *)
(* and the observation counts.  A specification is reduced to its number   *)
(* of scenarios and whether they come in antithetic pairs; a configuration *)
(* to block_size and max_materialized_blocks.  Block i is the record at    *)
(* block_id i, with its half-open range of scenarios and its lease.        *)
(***************************************************************************)
EXTENDS Integers

CONSTANTS
    MaxScenarios,  \* kMaxScenarios
    Word           \* one more than the largest uint64_t

ASSUME WordAssumption == Word \in Nat \ {0}
ASSUME ScenariosAssumption == MaxScenarios \in Nat \ {0} /\ MaxScenarios < Word

Spec_validate(spec) ==
    /\ spec.total # 0 /\ spec.total <= MaxScenarios
    /\ spec.antithetic => spec.total % 2 = 0

Config_validate(spec, config) ==
    /\ config.size # 0
    /\ spec.antithetic => config.size % 2 = 0
    /\ config.limit # 0

block_count(spec, config) == 1 + (spec.total - 1) \div config.size

Smaller(a, b) == IF a <= b THEN a ELSE b

block_range(spec, config, id) ==
    LET start == (id * config.size) % Word IN
    [start |-> start,
     end |-> (start + Smaller(config.size, (spec.total - start) % Word)) % Word,
     run_incarnation |-> 0, lease_epoch |-> 1]

Admissible(spec, config) ==
    /\ Spec_validate(spec)
    /\ Config_validate(spec, config)
    /\ block_count(spec, config) <= config.limit

make_blocks(spec, config) ==
    [id \in 0 .. block_count(spec, config) - 1 |-> block_range(spec, config, id)]

\* The checks of make_coordinator_state, which walks the blocks in order.
CoordinatorAccepts(spec, config, blocks) ==
    LET Start(id) == IF id = 0 THEN 0 ELSE blocks[id - 1].end IN
    /\ DOMAIN blocks = 0 .. block_count(spec, config) - 1
    /\ \A id \in DOMAIN blocks :
        /\ blocks[id].start = Start(id)
        /\ blocks[id].end = Start(id) + Smaller(config.size, spec.total - Start(id))
        /\ blocks[id].end > blocks[id].start
        /\ blocks[id].run_incarnation = blocks[0].run_incarnation
        /\ blocks[id].lease_epoch # 0
        /\ spec.antithetic => blocks[id].start % 2 = 0 /\ blocks[id].end % 2 = 0
    /\ blocks[block_count(spec, config) - 1].end = spec.total

\* compute_block refuses a range it cannot draw completely.
Computable(spec, block) ==
    /\ block.start < block.end /\ block.end <= spec.total
    /\ spec.antithetic => block.start % 2 = 0 /\ block.end % 2 = 0

\* The scenarios whose draws make one observation each.
Observed(spec, block) ==
    {s \in block.start .. block.end - 1 :
        spec.antithetic => (s - block.start) % 2 = 0}

expected_observations(spec, block) ==
    IF spec.antithetic THEN (block.end - block.start) \div 2
    ELSE block.end - block.start

-----------------------------------------------------------------------------

\* Every scenario belongs to exactly one block, the one its number divided by
\* block_size names, and no block is empty: make_blocks neither drops nor
\* repeats a scenario, also where its arithmetic comes near the word size.
Partitions(spec, config, blocks) ==
    /\ \A id \in DOMAIN blocks :
        blocks[id].start < blocks[id].end /\ blocks[id].end <= spec.total
    /\ \A s \in 0 .. spec.total - 1 : \A id \in DOMAIN blocks :
        (blocks[id].start <= s /\ s < blocks[id].end) <=> id = s \div config.size
    /\ \A s \in 0 .. spec.total - 1 : s \div config.size \in DOMAIN blocks
=============================================================================
