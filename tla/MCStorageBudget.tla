-------------------------- MODULE MCStorageBudget --------------------------
(***************************************************************************)
(* TLC instances of StorageBudget.                                         *)
(***************************************************************************)
EXTENDS StorageBudget

\* File limits around what the estimate asks for, with intervals short,
\* automatic and longer than the run, and a limit on manifests that is too small.
FileConfigs ==
    [interval : {0, 1, 2, 7}, bytes : {16000}, files : 10 .. 20, free : {100},
     manifest : {700, 900}]

\* Byte limits around what the estimate asks for, a reserve that the file
\* system cannot leave and one for which the sum does not fit the word.
ByteConfigs ==
    [interval : {2}, bytes : {0, 255, 7119, 7120, 8000, 10000}, files : {40},
     free : {0, 500, 6000, 9000}, manifest : {255, 560, 831, 832}]

LimitConfigs == FileConfigs \cup ByteConfigs

ForeignAmounts == {3000, 9000}
=============================================================================
