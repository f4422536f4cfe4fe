----------------------------- MODULE FixedTree -----------------------------
(***************************************************************************)
(* From blocks to the answer: reduce_block_results over leaves that arrive *)
(* in any order (src/runtime/engine.cpp), merge (src/aggregation), and the *)
(* comparison of a manifest's aggregate with the reduction of its entries  *)
(* when a run is resumed (src/run_store.cpp).                              *)
(*                                                                         *)
(* Floating-point addition is not associative, so an aggregate is the term *)
(* of merges that produced it, beside its count: two aggregates are bitwise*)
(* equal when their terms are.  Moments are not computed.  Which results   *)
(* are accepted, and how files survive, is left to Coordinator and         *)
(* RunStore: here a restart keeps what the manifest names.                 *)
(***************************************************************************)
EXTENDS BlockLayout, Sequences, FiniteSets

CONSTANTS
    Specs,       \* specifications a run may be started with
    EngineConfigs, \* configurations
    MaxRestarts  \* bound on restarts

VARIABLES
    spec, config,
    phase,     \* "new", "rejected", "running", "done", or what went wrong
    blocks,    \* ScenarioBlocks by block_id
    leaves,    \* aggregate of each block, in block_id order
    received,  \* blocks whose leaf is set
    manifest,  \* [entries, aggregate] of the newest manifest
    result,    \* the aggregate of the finished run
    restarts

vars == <<spec, config, phase, blocks, leaves, received, manifest, result, restarts>>

-----------------------------------------------------------------------------

Empty == [n |-> 0, term |-> <<>>]
Overflow == [n |-> Word, term |-> <<"overflow">>]

\* The empty aggregate is the identity, and a count that does not fit throws.
merge(left, right) ==
    IF Overflow \in {left, right} THEN Overflow
    ELSE IF left.n = 0 THEN right
    ELSE IF right.n = 0 THEN left
    ELSE IF Word - 1 - left.n < right.n THEN Overflow
    ELSE [n |-> left.n + right.n, term |-> <<"merge", left.term, right.term>>]

\* One pass of the loop: neighbours are merged, an odd last one moves up.
NextLevel(level) ==
    [i \in 1 .. (Len(level) + 1) \div 2 |->
        IF 2 * i <= Len(level) THEN merge(level[2 * i - 1], level[2 * i])
        ELSE level[2 * i - 1]]

RECURSIVE ReduceLevels(_)
ReduceLevels(level) ==
    IF Len(level) = 1 THEN level[1] ELSE ReduceLevels(NextLevel(level))

\* Fault: blocks that have not been received are left out before pairing.
ReduceReceived(all) ==
    LET present == SelectSeq(all, LAMBDA a : a.n # 0) IN
    IF present = <<>> THEN Empty ELSE ReduceLevels(present)

reduce_block_results(all) == IF all = <<>> THEN Empty ELSE ReduceLevels(all)

\* One observation after another is added: the count is the number of draws.
compute_block(id) ==
    [n |-> Cardinality(Observed(spec, blocks[id])), term |-> <<"leaf", id>>]

-----------------------------------------------------------------------------

\* No leaf yet: leaves(blocks.size()), received all false.
NoLeaves(count) == [i \in 1 .. count |-> Empty]

Init ==
    /\ spec \in Specs /\ config \in EngineConfigs
    /\ phase = "new"
    /\ blocks = <<>> /\ leaves = <<>> /\ received = {}
    /\ manifest = [entries |-> {}, aggregate |-> Empty]
    /\ result = Empty
    /\ restarts = 0

Reject ==
    /\ phase = "new" /\ ~Admissible(spec, config)
    /\ phase' = "rejected"
    /\ UNCHANGED <<spec, config, blocks, leaves, received, manifest, result, restarts>>

Start ==
    /\ phase = "new" /\ Admissible(spec, config)
    /\ blocks' = make_blocks(spec, config)
    /\ phase' = IF CoordinatorAccepts(spec, config, blocks') THEN "running"
                ELSE "layout_refused"
    /\ leaves' = NoLeaves(block_count(spec, config))
    /\ UNCHANGED <<spec, config, received, manifest, result, restarts>>

StoreLeaf(id, aggregate) == leaves' = [leaves EXCEPT ![id + 1] = aggregate]

\* A worker computes a block and the callback takes it, or refuses it for its
\* range or its count.
Receive(id) ==
    /\ phase = "running" /\ id \notin received
    /\ IF /\ Computable(spec, blocks[id])
          /\ compute_block(id).n = expected_observations(spec, blocks[id])
       THEN /\ StoreLeaf(id, compute_block(id))
            /\ received' = received \cup {id}
            /\ UNCHANGED phase
       ELSE /\ phase' = "result_refused"
            /\ UNCHANGED <<leaves, received>>
    /\ UNCHANGED <<spec, config, blocks, manifest, result, restarts>>

\* checkpoint(): the aggregate of whatever has been received.
Checkpoint ==
    /\ phase = "running" /\ received # manifest.entries
    /\ LET reduced == reduce_block_results(leaves) IN
       IF reduced = Overflow THEN phase' = "overflow" /\ UNCHANGED manifest
       ELSE /\ manifest' = [entries |-> received, aggregate |-> reduced]
            /\ UNCHANGED phase
    /\ UNCHANGED <<spec, config, blocks, leaves, received, result, restarts>>

\* The leaves that validate_manifest_snapshot reads back.
Restored ==
    [i \in 1 .. block_count(spec, config) |->
        IF i - 1 \in manifest.entries THEN compute_block(i - 1) ELSE Empty]

\* A new process resumes from the manifest, if its aggregate can be reproduced.
Restart ==
    /\ phase = "running" /\ restarts < MaxRestarts
    /\ restarts' = restarts + 1
    /\ phase' = IF reduce_block_results(Restored) = manifest.aggregate
                THEN "running" ELSE "manifest_refused"
    /\ leaves' = Restored
    /\ received' = manifest.entries
    /\ UNCHANGED <<spec, config, blocks, manifest, result>>

\* Fault: the snapshot's aggregate is extended by the leaves that came after it.
FinishFromSnapshot ==
    /\ phase = "running" /\ received = DOMAIN blocks
    /\ result' = merge(manifest.aggregate, reduce_block_results(
                    [i \in DOMAIN leaves |->
                        IF i - 1 \in manifest.entries THEN Empty ELSE leaves[i]]))
    /\ phase' = "done"
    /\ UNCHANGED <<spec, config, blocks, leaves, received, manifest, restarts>>

Finish ==
    /\ phase = "running" /\ received = DOMAIN blocks
    /\ result' = reduce_block_results(leaves)
    /\ phase' = IF result' = Overflow THEN "overflow" ELSE "done"
    /\ UNCHANGED <<spec, config, blocks, leaves, received, manifest, restarts>>

Next ==
    \/ Reject \/ Start \/ Checkpoint \/ Restart \/ Finish
    \/ \E id \in DOMAIN blocks : Receive(id)

Spec == Init /\ [][Next]_vars

-----------------------------------------------------------------------------

\* What the program computes itself passes its own checks: make_coordinator_state
\* and compute_block accept the layout, validate_result the counts, and no
\* count overflows while leaves are merged.
OwnWorkAccepted == phase \notin {"layout_refused", "result_refused", "overflow"}

\* The largest power of two below n.
RECURSIVE HalfBelow(_, _)
HalfBelow(n, p) == IF 2 * p < n THEN HalfBelow(n, 2 * p) ELSE p

\* The reference: the left subtree is the largest complete tree, and a subtree
\* without results contributes nothing.
RECURSIVE ReferenceTerm(_, _, _)
ReferenceTerm(first, count, present) ==
    IF count = 1 THEN (IF first \in present THEN <<"leaf", first>> ELSE <<>>)
    ELSE LET half == HalfBelow(count, 1)
             left == ReferenceTerm(first, half, present)
             right == ReferenceTerm(first + half, count - half, present) IN
         IF left = <<>> THEN right ELSE IF right = <<>> THEN left
         ELSE <<"merge", left, right>>

Observations == IF spec.antithetic THEN spec.total \div 2 ELSE spec.total

\* The answer is one fixed tree over block_id, whatever the order in which
\* blocks completed and however often the run was restarted, and it counts
\* every scenario, or pair, once.
ResultIsFixedTree ==
    phase = "done" =>
        /\ result.term = ReferenceTerm(0, Len(leaves), DOMAIN blocks)
        /\ result.n = Observations

\* The aggregate of a snapshot is that tree over the blocks it names, gaps and
\* all, so that validate_manifest_snapshot reproduces it bit by bit.
SnapshotReproducible ==
    /\ phase # "manifest_refused"
    /\ blocks # <<>> =>
        manifest.aggregate.term = ReferenceTerm(0, Len(leaves), manifest.entries)
=============================================================================
