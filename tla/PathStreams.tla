---------------------------- MODULE PathStreams ----------------------------
(***************************************************************************)
(* Which random numbers the observations of a run are made of              *)
(* (src/models/gbm.cpp, src/models/heston.cpp, the loops of compute_block).*)
(* Blocks are computed side by side, and again when a process stops.  A    *)
(* path is kept as the draws it uses with their signs, step by step and    *)
(* dimension by dimension; prices are a function of these.                 *)
(***************************************************************************)
EXTENDS BlockLayout, Sequences, FiniteSets

CONSTANTS
    Word32,   \* values of a uint32_t
    Byte,     \* values of a byte
    Specs,    \* specifications: total, antithetic, steps, model
    Configs   \* configurations: size, limit

Layout == INSTANCE RngLayout WITH Word <- Word32

ASSUME LayoutAssumption ==
    /\ Word32 \in Nat \ {0} /\ Byte \in Nat /\ Byte > 1 /\ Word32 % Byte = 0
    /\ MaxScenarios = Word32 * Byte

ASSUME SpecsAssumption ==
    /\ \A sp \in Specs :
        /\ sp.total \in Nat /\ sp.steps \in Nat
        /\ sp.antithetic \in BOOLEAN /\ sp.model \in {"gbm", "heston"}
    /\ \A c \in Configs : c.size \in Nat /\ c.limit \in Nat

VARIABLES
    spec,    \* the run's specification
    config,  \* and configuration
    next,    \* the scenario each block's loop has come to
    added,   \* the observations each block's aggregate has been given
    threw    \* a check inside the loops has thrown

vars == <<spec, config, next, added, threw>>

-----------------------------------------------------------------------------

\* RunSpec::validate, as far as streams depend on it.
validate(sp) == Spec_validate(sp) /\ sp.steps # 0 /\ sp.steps <= Layout!kMaxTimeSteps

Dimensions(sp) == IF sp.model = "gbm" THEN {0} ELSE {0, 1}
Steps(sp) == 0 .. sp.steps - 1

\* standard_normal: a normal is known by the counter it is drawn at.
standard_normal(scenario, step, dimension) ==
    Layout!pack_counter_v1(scenario, step, dimension, 0)

\* The path of GbmKernel, or of HestonKernel::discounted_payoff_with_sign: one
\* sign for every normal of the path.
Path(sp, scenario, sign) ==
    [t \in Steps(sp) |-> [d \in Dimensions(sp) |->
        [sign |-> sign, normal |-> standard_normal(scenario, t, d)]]]

discounted_payoff(sp, scenario) ==
    IF sp.antithetic
      THEN Path(sp, scenario - (scenario % 2), IF scenario % 2 = 0 THEN 1 ELSE -1)
      ELSE Path(sp, scenario, 1)

\* Fault: both members of the pair go the same way.
PairSameSign(sp, even) == <<Path(sp, even, 1), Path(sp, even, 1)>>

\* Both members advance together, on normals drawn once.
antithetic_pair_mean(sp, even) == <<Path(sp, even, 1), Path(sp, even, -1)>>

\* What the kernels and pack_counter_v1 throw about.
Refused(sp, scenario) ==
    \/ sp.antithetic /\ (scenario % 2 # 0 \/ scenario + 1 >= sp.total)
    \/ scenario >= sp.total
    \/ \E t \in Steps(sp), d \in Dimensions(sp) : ~ Layout!InFields(scenario, t, d, 0)

\* The scenarios of one observation.
Width(sp) == IF sp.antithetic THEN 2 ELSE 1

Observation(sp, scenario) ==
    IF sp.antithetic THEN antithetic_pair_mean(sp, scenario)
    ELSE <<discounted_payoff(sp, scenario)>>

-----------------------------------------------------------------------------

Blocks == make_blocks(spec, config)
Ids == DOMAIN next

Init ==
    /\ spec \in {sp \in Specs : validate(sp)}
    /\ config \in {c \in Configs : Admissible(spec, c)}
    /\ next = [id \in DOMAIN make_blocks(spec, config) |->
                make_blocks(spec, config)[id].start]
    /\ added = [id \in DOMAIN make_blocks(spec, config) |-> <<>>]
    /\ threw = FALSE

\* One turn of a block's loop.
Observe(id) ==
    /\ ~ threw /\ next[id] < Blocks[id].end
    /\ IF Refused(spec, next[id]) \/ ~ Computable(spec, Blocks[id])
         THEN threw' = TRUE /\ UNCHANGED <<next, added>>
         ELSE /\ added' = [added EXCEPT ![id] =
                            Append(@, Observation(spec, next[id]))]
              /\ next' = [next EXCEPT ![id] = @ + Width(spec)]
              /\ UNCHANGED threw
    /\ UNCHANGED <<spec, config>>

\* The process stops, or a path leaves the numeric range; another process
\* starts the block again.
Again(id) ==
    /\ added[id] # <<>>
    /\ next' = [next EXCEPT ![id] = Blocks[id].start]
    /\ added' = [added EXCEPT ![id] = <<>>]
    /\ UNCHANGED <<spec, config, threw>>

Next == \E id \in Ids : Observe(id) \/ Again(id)

Spec == Init /\ [][Next]_vars

-----------------------------------------------------------------------------

\* Limits of the specification and of the counter layout fit each other: no
\* accepted run throws out of pack_counter_v1 or out of a kernel, with the
\* largest number of scenarios and of time steps too.
NeverThrows == ~ threw

\* Different observations share no random number, and neither do two steps or
\* two dimensions of one path, whichever blocks they are in: "independent
\* logical streams", with no generator that is consumed.
StreamsApart ==
    \A id, jd \in Ids :
        \A k \in 1 .. Len(added[id]), l \in 1 .. Len(added[jd]) :
            \A t, u \in Steps(spec), d, e \in Dimensions(spec) :
                added[id][k][1][t][d].normal = added[jd][l][1][u][e].normal
                    => <<id, k, t, d>> = <<jd, l, u, e>>

\* What a block adds depends on the specification alone: the observation at a
\* place is made of the paths simulate_discounted_payoff has for the scenarios
\* at that place, whatever the block size, the order and the number of
\* attempts; a pair computed together is the two paths computed singly.
SamplesExact ==
    \A id \in Ids : \A k \in 1 .. Len(added[id]) :
        added[id][k] =
            [i \in 1 .. Width(spec) |->
                discounted_payoff(spec,
                    id * config.size + (k - 1) * Width(spec) + i - 1)]
=============================================================================
