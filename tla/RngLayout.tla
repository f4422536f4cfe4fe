----------------------------- MODULE RngLayout -----------------------------
(***************************************************************************)
(* Counter layout v1 of the random numbers (src/rng/philox_rng.cpp): the   *)
(* four words a draw is computed from.  The widths are constants: Word is  *)
(* 2^32 and Byte is 2^8 in the code, so that a scenario has a word and a   *)
(* byte, a time step and a draw index have a word less a byte, and a       *)
(* dimension has a byte.  The fields are packed with shifts and "or"; the  *)
(* range checks keep them disjoint, so that "or" is a sum.                 *)
(***************************************************************************)
EXTENDS Naturals

CONSTANTS
    Word,  \* values of a uint32_t
    Byte   \* values of the byte that scenario and time step share a word with

kMaxScenarios == Word * Byte
kMaxTimeSteps == Word \div Byte
kMax24BitValue == kMaxTimeSteps - 1

\* The range checks of pack_counter_v1, which throws otherwise.
InFields(scenario, step, dimension, draw) ==
    /\ scenario < kMaxScenarios
    /\ step <= kMax24BitValue
    /\ dimension < Byte
    /\ draw <= kMax24BitValue

\* Fault: the time step is not moved past the scenario's high byte.
PackedTogether(scenario, step, dimension, draw) ==
    <<scenario % Word, scenario \div Word + step, dimension + draw * Byte, 0>>

pack_counter_v1(scenario, step, dimension, draw) ==
    <<scenario % Word, scenario \div Word + step * Byte,
      dimension + draw * Byte, 0>>
=============================================================================
