------------------------------- MODULE Philox -------------------------------
(***************************************************************************)
(* Philox4x32-10 and the conversion to a uniform number                    *)
(* (src/rng/philox_rng.cpp), with the width of a word, the multipliers and *)
(* the key increments as constants.  All counters go through the rounds    *)
(* together, for one key.  A uniform number is counted in half bins.       *)
(***************************************************************************)
EXTENDS Naturals, FiniteSets, Bitwise

CONSTANTS
    Word,        \* values of a word
    Multiplier0, Multiplier1,
    Weyl0, Weyl1,
    Dropped,     \* values of the low bits a binary64 has no room for
    Rounds       \* rounds of the generator

VARIABLES
    seed,   \* the key a run starts with
    key,    \* the key of the next round
    image,  \* what has become of each counter
    round

vars == <<seed, key, image, round>>

-----------------------------------------------------------------------------

Words == 0 .. Word - 1
Counters == Words \X Words \X Words \X Words

high(left, right) == (left * right) \div Word
low(left, right) == (left * right) % Word

\* Fault: the first product is used for both halves.
OneProduct(c, k) ==
    <<(high(Multiplier0, c[1]) ^^ c[2]) ^^ k[1], low(Multiplier0, c[1]),
      (high(Multiplier0, c[1]) ^^ c[4]) ^^ k[2], low(Multiplier0, c[1])>>

philox_round(c, k) ==
    <<(high(Multiplier1, c[3]) ^^ c[2]) ^^ k[1], low(Multiplier1, c[3]),
      (high(Multiplier0, c[1]) ^^ c[4]) ^^ k[2], low(Multiplier0, c[1])>>

\* uniform_from_words_v2, in units of 2^-54.
uniform_from_words(high_word, low_word) ==
    LET retained == (high_word * Word + low_word) \div Dropped IN
    IF retained = 0 THEN 1 ELSE 2 * retained

Init ==
    /\ seed \in Words \X Words
    /\ key = seed
    /\ image = [c \in Counters |-> c]
    /\ round = 0

Round ==
    /\ round < Rounds
    /\ image' = [c \in Counters |-> philox_round(image[c], key)]
    /\ key' = <<(key[1] + Weyl0) % Word, (key[2] + Weyl1) % Word>>
    /\ round' = round + 1
    /\ UNCHANGED seed

Spec == Init /\ [][Round]_vars

-----------------------------------------------------------------------------

\* The rounds lose nothing: under any key, different counters stay different
\* through every round, so that draws apart in the layout are apart in what
\* the generator makes of them.
RoundsLoseNothing ==
    Cardinality({image[c] : c \in Counters}) = Cardinality(Counters)

\* The number inverse_normal_cdf is given lies strictly between zero and one,
\* and keeps the order of the words: its logarithms never meet an endpoint.
UniformOpen ==
    \A c \in Counters :
        /\ uniform_from_words(image[c][1], image[c][2])
            \in 1 .. (2 * Word * Word) \div Dropped - 1
        /\ image[c][1] # 0 =>
            uniform_from_words(image[c][1], image[c][2])
                > uniform_from_words(image[c][1] - 1, image[c][2])
=============================================================================
