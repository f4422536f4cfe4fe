----------------------------- MODULE MCResults -----------------------------
(***************************************************************************)
(* What becomes of a result: the coordinator's decision to take it, and    *)
(* the reduction of what was taken.  Either the coordinator receives       *)
(* results while no tree is being built, or a tree is built while the      *)
(* coordinator stands in its first state.                                  *)
(***************************************************************************)
EXTENDS Coordinator, TLC

CONSTANTS b1, b2, x, y

TwoBlocks == {b1, b2}
TwoPayloads == {x, y}
BlockSymmetry == Permutations(TwoBlocks)

VARIABLES spec, config, phase, blocks, leaves, received, manifest, result, restarts

treeVars == <<spec, config, phase, blocks, leaves, received, manifest, result, restarts>>

\* Sizes up to the largest word, so that a sum beside one would wrap.
SmallSpecs == [total : 0 .. 13, antithetic : BOOLEAN]
SmallConfigs == [size : (0 .. 6) \cup {14, 15}, limit : {0, 7}]

Tree == INSTANCE FixedTree WITH
            MaxScenarios <- 12, Word <- 16, Specs <- SmallSpecs,
            EngineConfigs <- SmallConfigs, MaxRestarts <- 1

NoTree ==
    /\ phase = "none"
    /\ spec = <<>> /\ config = <<>> /\ blocks = <<>> /\ leaves = <<>>
    /\ received = {} /\ manifest = <<>> /\ result = <<>> /\ restarts = 0

ResultsInit == Init /\ (NoTree \/ Tree!Init)

ResultsNext ==
    \/ phase = "none" /\ Next /\ UNCHANGED treeVars
    \/ Tree!Next /\ UNCHANGED vars

ResultsSpec == ResultsInit /\ [][ResultsNext]_<<vars, treeVars>>

-----------------------------------------------------------------------------

\* What the program computes passes its own checks, and the answer is one fixed
\* tree over block_id, whatever the order and however often the run was
\* restarted.
ResultIsFixedTree == Tree!OwnWorkAccepted /\ Tree!ResultIsFixedTree

\* The aggregate of a snapshot is reproduced bit by bit when it is loaded.
SnapshotReproducible == phase # "none" => Tree!SnapshotReproducible
=============================================================================
