------------------------------ MODULE MCRandom ------------------------------
(***************************************************************************)
(* The random numbers at small widths.  A behaviour exercises one of three *)
(* parts that only share definitions (the block loops, the export tool, or *)
(* the generator itself), and the other two have nothing to do in it.      *)
(*                                                                         *)
(* The layout has words of three bits and bytes of one bit: at most 16     *)
(* scenarios, four time steps and two dimensions, all of them reached and  *)
(* exceeded.  The generator has words of two bits: all 256 counters and    *)
(* all 16 keys go through its ten rounds.                                  *)
(***************************************************************************)
EXTENDS RandomStreams

SmallSpecs ==
    [total : {1, 5, 8, 15, 16, 17}, antithetic : BOOLEAN,
     steps : {1, 4, 5}, model : {"gbm", "heston"}]

SmallConfigs == [size : {3, 4, 16}, limit : {6}]

SmallRequests ==
    [words : {0, 1, 2, 5, 8, 9}, start : {0, 7, 11, 12, 15, 16}, step : {0, 3, 4},
     first : 0 .. 2, dimensions : 0 .. 3, draw : {0, 3, 4}]

VARIABLES seed, key, image, round

Generator == INSTANCE Philox WITH Word <- 4, Multiplier0 <- 3, Multiplier1 <- 3,
                                  Weyl0 <- 1, Weyl1 <- 3, Dropped <- 2, Rounds <- 10

streams == vars
export == <<request, phase, out>>
generator == <<seed, key, image, round>>
all == <<streams, export, generator>>

NoStreams == spec = <<>> /\ config = <<>> /\ next = <<>> /\ added = <<>> /\ threw = FALSE
NoExport == request = <<>> /\ phase = "idle" /\ out = <<>>
NoGenerator == seed = <<>> /\ key = <<>> /\ image = <<>> /\ round = 10

RandomInit ==
    \/ Init /\ NoExport /\ NoGenerator
    \/ NoStreams /\ Export!Init /\ NoGenerator
    \/ NoStreams /\ NoExport /\ Generator!Init

RandomNext ==
    \/ Next /\ UNCHANGED <<export, generator>>
    \/ Export!Next /\ UNCHANGED <<streams, generator>>
    \/ Generator!Round /\ UNCHANGED <<streams, export>>

RandomSpec == RandomInit /\ [][RandomNext]_all

-----------------------------------------------------------------------------

\* Under any key different counters stay different through every round, and
\* the uniform number made of any of them lies strictly between zero and one.
GeneratorSound == image # <<>> => Generator!RoundsLoseNothing /\ Generator!UniformOpen
=============================================================================
